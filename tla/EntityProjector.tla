-------------------------- MODULE EntityProjector --------------------------
(***************************************************************************)
(* The projector: the loop of the HTTP backend that keeps the entity index *)
(* (`entity_versions') folded up to the scanner's head.                    *)
(*                                                                         *)
(* The scanners, the backfill and the gap filler write operation rows at   *)
(* any height while it runs.  A row carries the start time of the          *)
(* transaction that wrote it, not the time at which it became visible.     *)
(* Blocks above the fold point are folded in chunks; rows that land at or  *)
(* below it are found by the late scan, which looks `Overlap' behind its   *)
(* last watermark.                                                         *)
(*                                                                         *)
(* The operations of a block are abstracted to the entity keys they touch  *)
(* and a revision that counts how often the block was written; the fold of *)
(* a key to the revisions it was folded from.                              *)
(***************************************************************************)
EXTENDS Integers, FiniteSets

CONSTANTS
  None,              \* "no value stored", "nobody"
  Keys,              \* entity keys
  MaxBlock,          \* bound: the highest block of the chain
  Touches,           \* per block: the keys its operations touch
  Projectors,        \* backends pointed at one schema
  Writers,           \* concurrent writers below the head
  MaxClock,          \* bound: ticks of the database clock
  MaxTx,             \* environment: the longest writing transaction
  Overlap,           \* lateScanOverlapMs
  MaxRevision,       \* bound: how often one block is written
  MaxFailures,       \* bound: crashes and failed ticks
  StartCrashes       \* environment: a crash may hit the very first start

Blocks == 0..MaxBlock

ProjectorAssumption ==
  /\ MaxBlock \in Nat /\ MaxClock \in Nat /\ MaxTx \in Nat /\ Overlap \in Nat
  /\ MaxRevision \in Nat \ {0} /\ MaxFailures \in Nat
  /\ StartCrashes \in BOOLEAN
  /\ None \notin Int \cup Projectors
  \* Every entity is created by an operation.
  /\ Touches \in [Blocks -> SUBSET Keys]
  /\ \A k \in Keys : \E b \in Blocks : k \in Touches[b]
  \* "with a generous overlap": longer than any transaction stays open.
  /\ MaxTx < Overlap

VARIABLES
  clock,      \* database: its clock
  head,       \* database: last_successful_block
  rows,       \* database: revision of each block's operation rows, 0: none
  scannedAt,  \* database: when the transaction that wrote them began
  writing,    \* writers: the open transaction of each
  floor, through, watermark,   \* database: the index's progress
  folded,     \* database: the revisions each key was folded from
  lock,       \* database: holder of the projector's advisory lock
  pc, hd, thr, flr, wm, now, keys, end, loaded,  \* the projectors' locals
  failures

ingest   == <<head, rows, scannedAt, writing>>
progress == <<floor, through, watermark>>
vars == <<clock, head, rows, scannedAt, writing, floor, through, watermark,
          folded, lock, pc, hd, thr, flr, wm, now, keys, end, loaded, failures>>

PCs == {"idle", "progress", "detect", "clock", "setFloor", "setThrough",
        "setWatermark", "late", "lateKeys", "lateLoad", "lateCommit",
        "lateFloor", "lateWatermark", "plan", "load", "commit"}
StartPCs == {"clock", "setFloor", "setThrough", "setWatermark"}

\* The scanner's own forward transaction and those that write below the head.
AllWriters == Writers \cup {"forward"}

CreateBlock(k) ==
  CHOOSE b \in Blocks : k \in Touches[b] /\ \A c \in Blocks : k \in Touches[c] => b <= c

Nothing == [b \in Blocks |-> 0]

\* loadEntityOps and foldEntityVersions: the history of key k from its stored
\* operations up to `bound'; without its create it has none.
Fold(k, bound) ==
  IF CreateBlock(k) <= bound /\ rows[CreateBlock(k)] > 0
  THEN [b \in Blocks |-> IF b <= bound /\ k \in Touches[b] THEN rows[b] ELSE 0]
  ELSE Nothing

\* detectFloorBlock: the blocks whose stored creates carry a key.
StoredCreates == {b \in Blocks : rows[b] > 0 /\ \E k \in Keys : CreateBlock(k) = b}
IsDetectedFloor(f) ==
  IF StoredCreates = {} THEN f = None
  ELSE f \in StoredCreates /\ \A b \in StoredCreates : f <= b

\* knownFromBlockZero, on a chain without genesis entities and with the floor
\* not pinned: every block below the floor is stored.
KnownFromBlockZero(f) == f > 0 /\ \A b \in 0..(f - 1) : b \in Blocks => rows[b] > 0

\* keysTouchedBetween and keysScannedSince.
TouchedBetween(after, upTo) ==
  {k \in Keys : \E b \in Blocks : after < b /\ b <= upTo /\ rows[b] > 0 /\ k \in Touches[b]}
ScannedSince(since, upTo) ==
  {k \in Keys : \E b \in Blocks :
     b <= upTo /\ rows[b] > 0 /\ k \in Touches[b] /\ scannedAt[b] > since}

-----------------------------------------------------------------------------
Init ==
  /\ clock = 0 /\ head = None
  /\ rows = Nothing /\ scannedAt = Nothing
  /\ writing = [w \in AllWriters |-> None]
  /\ floor = None /\ through = None /\ watermark = None
  /\ folded = [k \in Keys |-> Nothing]
  /\ lock = None
  /\ pc = [p \in Projectors |-> "idle"]
  /\ hd = [p \in Projectors |-> None] /\ thr = [p \in Projectors |-> None]
  /\ flr = [p \in Projectors |-> None] /\ wm = [p \in Projectors |-> None]
  /\ now = [p \in Projectors |-> None] /\ end = [p \in Projectors |-> None]
  /\ keys = [p \in Projectors |-> {}]
  /\ loaded = [p \in Projectors |-> folded]
  /\ failures = 0

-----------------------------------------------------------------------------
(* The database clock and the writers (see Ingest). *)

\* Time passes.  No writing transaction stays open longer than MaxTx, and the
\* few statements of a first start take no longer than a tick.
Tick ==
  /\ clock < MaxClock
  /\ \A w \in AllWriters : writing[w] # None => clock - writing[w].start < MaxTx
  /\ \A p \in Projectors : pc[p] \notin StartPCs
  /\ clock' = clock + 1
  /\ UNCHANGED <<ingest, progress, folded, lock, pc, hd, thr, flr, wm, now,
                 keys, end, loaded, failures>>

\* A transaction begins: the forward scan writes its next block, the others a
\* missing or an already stored one below the head.
BeginWrite(w, b) ==
  /\ writing[w] = None
  /\ rows[b] < MaxRevision
  /\ IF w = "forward" THEN head # None => b = head + 1
                      ELSE head # None /\ b < head
  /\ writing' = [writing EXCEPT ![w] = [block |-> b, start |-> clock]]
  /\ UNCHANGED <<clock, head, rows, scannedAt, progress, folded, lock, pc, hd,
                 thr, flr, wm, now, keys, end, loaded, failures>>

\* replaceOperationsForBlock becomes visible, with the cursor if it moves.
CommitWrite(w) ==
  /\ writing[w] # None
  /\ rows' = [rows EXCEPT ![writing[w].block] = @ + 1]
  /\ scannedAt' = [scannedAt EXCEPT ![writing[w].block] = writing[w].start]
  /\ head' = IF w = "forward" THEN writing[w].block ELSE head
  /\ writing' = [writing EXCEPT ![w] = None]
  /\ UNCHANGED <<clock, progress, folded, lock, pc, hd, thr, flr, wm, now,
                 keys, end, loaded, failures>>

-----------------------------------------------------------------------------
(* One tick of a projector. *)

Goto(p, to) == pc' = [pc EXCEPT ![p] = to]

\* A tick is over: its locals are gone, and a transaction still open with them.
Leave(p) ==
  /\ Goto(p, "idle")
  /\ hd' = [hd EXCEPT ![p] = None] /\ thr' = [thr EXCEPT ![p] = None]
  /\ flr' = [flr EXCEPT ![p] = None] /\ wm' = [wm EXCEPT ![p] = None]
  /\ now' = [now EXCEPT ![p] = None] /\ end' = [end EXCEPT ![p] = None]
  /\ keys' = [keys EXCEPT ![p] = {}]
  /\ loaded' = [loaded EXCEPT ![p] = [k \in Keys |-> Nothing]]
  /\ lock' = IF lock = p THEN None ELSE lock

\* tick: the head is read first; the genesis stage has nothing to do.
BeginTick(p) ==
  /\ pc[p] = "idle"
  /\ hd' = [hd EXCEPT ![p] = head]
  /\ Goto(p, IF head = None THEN "idle" ELSE "progress")
  /\ UNCHANGED <<clock, ingest, progress, folded, lock, thr, flr, wm, now,
                 keys, end, loaded, failures>>

\* The progress row, and whether a late scan is due by the interval.
ReadProgress(p) ==
  /\ pc[p] = "progress"
  /\ \/ floor = None /\ Goto(p, "detect") /\ UNCHANGED <<thr, flr, wm>>
     \/ /\ floor # None
        /\ thr' = [thr EXCEPT ![p] = IF through = None THEN floor - 1 ELSE through]
        /\ flr' = [flr EXCEPT ![p] = floor]
        /\ wm' = [wm EXCEPT ![p] = watermark]
        /\ \E to \in {"late", "plan"} : Goto(p, to)
  /\ UNCHANGED <<clock, ingest, progress, folded, lock, hd, now, keys, end,
                 loaded, failures>>

\* Without a floor: the oldest keyed create, or 0 if all below it is stored.
DetectFloor(p) ==
  /\ pc[p] = "detect"
  /\ \E f \in Blocks \cup {None} :
       /\ IsDetectedFloor(f)
       /\ LET known == KnownFromBlockZero(IF f = None THEN hd[p] + 1 ELSE f)
          IN  IF f = None /\ ~known
              THEN Leave(p)
              ELSE /\ flr' = [flr EXCEPT ![p] = IF known THEN 0 ELSE f]
                   /\ Goto(p, "clock")
                   /\ UNCHANGED <<lock, hd, thr, wm, now, keys, end, loaded>>
  /\ UNCHANGED <<clock, ingest, progress, folded, failures>>

ReadStartClock(p) ==
  /\ pc[p] = "clock"
  /\ now' = [now EXCEPT ![p] = clock]
  /\ Goto(p, "setFloor")
  /\ UNCHANGED <<clock, ingest, progress, folded, lock, hd, thr, flr, wm, keys,
                 end, loaded, failures>>

\* setProgress writes its keys one statement at a time, in no transaction.
SetFloor(p) ==
  /\ pc[p] = "setFloor"
  /\ floor' = flr[p]
  /\ Goto(p, "setThrough")
  /\ UNCHANGED <<clock, ingest, through, watermark, folded, lock, hd, thr, flr,
                 wm, now, keys, end, loaded, failures>>

SetThrough(p) ==
  /\ pc[p] = "setThrough"
  /\ through' = flr[p] - 1
  /\ Goto(p, "setWatermark")
  /\ UNCHANGED <<clock, ingest, floor, watermark, folded, lock, hd, thr, flr,
                 wm, now, keys, end, loaded, failures>>

SetWatermark(p) ==
  /\ pc[p] = "setWatermark"
  /\ watermark' = now[p]
  /\ Goto(p, "progress")
  /\ UNCHANGED <<clock, ingest, floor, through, folded, lock, hd, thr, flr, wm,
                 now, keys, end, loaded, failures>>

\* Mutant of LateStart: the watermark comes from this host's clock, a tick ahead
\* of the database's.
HostClock(p) ==
  /\ pc[p] = "late"
  /\ now' = [now EXCEPT ![p] = clock + 1]
  /\ Goto(p, IF wm[p] = None THEN "lateWatermark" ELSE "lateKeys")
  /\ UNCHANGED <<clock, ingest, progress, folded, lock, hd, thr, flr, wm, keys,
                 end, loaded, failures>>

\* A late scan: the floor drops to 0 once everything below it is stored, and
\* the clock is read before the rows are.  Without a watermark there is only
\* a new watermark to set.
LateStart(p) ==
  /\ pc[p] = "late"
  /\ IF KnownFromBlockZero(flr[p])
     THEN /\ floor' = 0
          /\ flr' = [flr EXCEPT ![p] = 0]
          /\ wm' = [wm EXCEPT ![p] = watermark]
     ELSE UNCHANGED <<floor, flr, wm>>
  /\ now' = [now EXCEPT ![p] = clock]
  /\ Goto(p, IF wm'[p] = None THEN "lateWatermark" ELSE "lateKeys")
  /\ UNCHANGED <<clock, ingest, through, watermark, folded, lock, hd, thr,
                 keys, end, loaded, failures>>

\* Mutant of LateKeys: no overlap behind the watermark.
LateKeysWithoutOverlap(p) ==
  /\ pc[p] = "lateKeys"
  /\ keys' = [keys EXCEPT ![p] = ScannedSince(wm[p], thr[p])]
  /\ Goto(p, IF keys'[p] = {} THEN "lateWatermark" ELSE "lateLoad")
  /\ UNCHANGED <<clock, ingest, progress, folded, lock, hd, thr, flr, wm, now,
                 end, loaded, failures>>

LateKeys(p) ==
  /\ pc[p] = "lateKeys"
  /\ keys' = [keys EXCEPT ![p] = ScannedSince(wm[p] - Overlap, thr[p])]
  /\ Goto(p, IF keys'[p] = {} THEN "lateWatermark" ELSE "lateLoad")
  /\ UNCHANGED <<clock, ingest, progress, folded, lock, hd, thr, flr, wm, now,
                 end, loaded, failures>>

\* withFoldLock, up to the fold of what was loaded; a projector that finds the
\* lock taken stands down until its next tick.
Load(p, from, bound, to) ==
  /\ pc[p] = from
  /\ IF lock = None
     THEN /\ lock' = p
          /\ loaded' = [loaded EXCEPT ![p] =
               [k \in Keys |-> IF k \in keys[p] THEN Fold(k, bound) ELSE Nothing]]
          /\ Goto(p, to)
          /\ UNCHANGED <<hd, thr, flr, wm, now, keys, end>>
     ELSE Leave(p)
  /\ UNCHANGED <<clock, ingest, progress, folded, failures>>

\* replaceVersions for the keys in hand, and the end of the transaction.
Replace(p) ==
  /\ folded' = [k \in Keys |-> IF k \in keys[p] THEN loaded[p][k] ELSE folded[k]]
  /\ lock' = None
  /\ loaded' = [loaded EXCEPT ![p] = [k \in Keys |-> Nothing]]

LateLoad(p) == Load(p, "lateLoad", thr[p], "lateCommit")

LateCommit(p) ==
  /\ pc[p] = "lateCommit"
  /\ Replace(p)
  /\ Goto(p, "lateFloor")
  /\ UNCHANGED <<clock, ingest, progress, hd, thr, flr, wm, now, keys, end,
                 failures>>

\* Mutants of LateFloor: the floor stays where the index started; it is set to
\* the oldest create unconditionally.
FloorStays(p) ==
  /\ pc[p] = "lateFloor"
  /\ Goto(p, "lateWatermark")
  /\ UNCHANGED <<clock, ingest, progress, folded, lock, hd, thr, flr, wm, now,
                 keys, end, loaded, failures>>
FloorFromScratch(p) ==
  /\ pc[p] = "lateFloor"
  /\ \E f \in Blocks : IsDetectedFloor(f) /\ floor' = f
  /\ Goto(p, "lateWatermark")
  /\ UNCHANGED <<clock, ingest, through, watermark, folded, lock, hd, thr, flr,
                 wm, now, keys, end, loaded, failures>>

\* Keyed creates that arrived below the floor lower it, outside the lock.
LateFloor(p) ==
  /\ pc[p] = "lateFloor"
  /\ \E f \in Blocks \cup {None} :
       /\ IsDetectedFloor(f)
       /\ floor' = IF f # None /\ f < flr[p] THEN f ELSE floor
  /\ Goto(p, "lateWatermark")
  /\ UNCHANGED <<clock, ingest, through, watermark, folded, lock, hd, thr, flr,
                 wm, now, keys, end, loaded, failures>>

LateWatermark(p) ==
  /\ pc[p] = "lateWatermark"
  /\ watermark' = now[p]
  /\ Goto(p, "plan")
  /\ UNCHANGED <<clock, ingest, floor, through, folded, lock, hd, thr, flr, wm,
                 now, keys, end, loaded, failures>>

\* Mutant of Plan: the first block of a chunk is left out.
PlanSkipsFirst(p) ==
  /\ pc[p] = "plan" /\ thr[p] < hd[p]
  /\ end' = [end EXCEPT ![p] = hd[p]]
  /\ keys' = [keys EXCEPT ![p] = TouchedBetween(thr[p] + 1, hd[p])]
  /\ Goto(p, "load")
  /\ UNCHANGED <<clock, ingest, progress, folded, lock, hd, thr, flr, wm, now,
                 loaded, failures>>

\* planChunkEnd and keysTouchedBetween: a chunk ends at a block with
\* operations, when enough have accumulated, or at the head.
Plan(p) ==
  /\ pc[p] = "plan" /\ thr[p] < hd[p]
  /\ \E e \in Blocks :
       /\ thr[p] < e /\ e <= hd[p]
       /\ e = hd[p] \/ (rows[e] > 0 /\ Touches[e] # {})
       /\ end' = [end EXCEPT ![p] = e]
       /\ keys' = [keys EXCEPT ![p] = TouchedBetween(thr[p], e)]
  /\ Goto(p, "load")
  /\ UNCHANGED <<clock, ingest, progress, folded, lock, hd, thr, flr, wm, now,
                 loaded, failures>>

\* Caught up with the head this tick saw, or its time is over.
EndTick(p) ==
  /\ pc[p] = "plan"
  /\ Leave(p)
  /\ UNCHANGED <<clock, ingest, progress, folded, failures>>

ChunkLoad(p) == Load(p, "load", end[p], "commit")

\* foldChunk: the versions and the fold point in one transaction.
ChunkCommit(p) ==
  /\ pc[p] = "commit"
  /\ Replace(p)
  /\ through' = end[p]
  /\ thr' = [thr EXCEPT ![p] = end[p]]
  /\ Goto(p, "plan")
  /\ UNCHANGED <<clock, ingest, floor, watermark, hd, flr, wm, now, keys, end,
                 failures>>

\* The tick throws or the process dies: a transaction that is open is rolled
\* back, and the next tick starts from the database.
TickFails(p) ==
  /\ pc[p] # "idle"
  /\ failures < MaxFailures
  /\ StartCrashes \/ pc[p] \notin StartPCs
  /\ failures' = failures + 1
  /\ Leave(p)
  /\ UNCHANGED <<clock, ingest, progress, folded>>

-----------------------------------------------------------------------------
Start(p) == DetectFloor(p) \/ ReadStartClock(p) \/ SetFloor(p) \/ SetThrough(p)
            \/ SetWatermark(p)
LateScan(p) == LateStart(p) \/ LateKeys(p) \/ LateLoad(p) \/ LateCommit(p)
               \/ LateFloor(p) \/ LateWatermark(p)
Chunks(p) == Plan(p) \/ ChunkLoad(p) \/ ChunkCommit(p)
ProjectorStep(p) ==
  BeginTick(p) \/ ReadProgress(p) \/ Start(p) \/ LateScan(p) \/ Chunks(p) \/ EndTick(p)

Next ==
  \/ Tick
  \/ \E w \in AllWriters : CommitWrite(w) \/ \E b \in Blocks : BeginWrite(w, b)
  \/ \E p \in Projectors : ProjectorStep(p) \/ TickFails(p)

Spec == Init /\ [][Next]_vars

\* The loop keeps ticking; while the interval lasts it scans for late rows, and
\* while its time lasts it goes on folding chunks.
Fairness ==
  \A p \in Projectors :
    /\ WF_vars(ProjectorStep(p))
    /\ SF_vars(ReadProgress(p) /\ pc'[p] = "late")
    /\ SF_vars(Plan(p))

FairSpec == Spec /\ Fairness

-----------------------------------------------------------------------------
\* The revisions of the blocks; MaxRevision bounds when a write may begin.
Seen == [Blocks -> Nat]

\* Types of the variables.
TypeOK ==
  /\ clock \in 0..MaxClock
  /\ head \in Blocks \cup {None}
  /\ rows \in Seen
  /\ scannedAt \in [Blocks -> 0..MaxClock]
  /\ writing \in [AllWriters -> [block : Blocks, start : 0..MaxClock] \cup {None}]
  /\ floor \in Blocks \cup {None}
  /\ through \in (-1)..MaxBlock \cup {None}
  /\ watermark \in 0..MaxClock \cup {None}
  /\ folded \in [Keys -> Seen]
  /\ lock \in Projectors \cup {None}
  /\ pc \in [Projectors -> PCs]
  /\ hd \in [Projectors -> Blocks \cup {None}]
  /\ thr \in [Projectors -> (-1)..MaxBlock \cup {None}]
  /\ flr \in [Projectors -> Blocks \cup {None}]
  /\ wm \in [Projectors -> 0..MaxClock \cup {None}]
  /\ now \in [Projectors -> 0..MaxClock \cup {None}]
  /\ keys \in [Projectors -> SUBSET Keys]
  /\ end \in [Projectors -> Blocks \cup {None}]
  /\ loaded \in [Projectors -> [Keys -> Seen]]
  /\ failures \in 0..MaxFailures

\* The next late scan will come across a row of key k: the watermark it starts
\* from, or the one the first start is about to store, lies within the overlap.
DueAfter(mark, k) == k \in ScannedSince(mark - Overlap, through)
Due(k) ==
  IF watermark # None THEN DueAfter(watermark, k)
  ELSE \E p \in Projectors : pc[p] = "setWatermark" /\ DueAfter(now[p], k)

\* "Every operation at or below [the fold point] has been folded": the versions
\* of a key are the fold of what is stored of it up to there, unless the next
\* late scan is bound to see a row of the key, however long the transaction
\* that wrote it stayed open and whatever failed in between.
FoldedOrDue ==
  through # None => \A k \in Keys : folded[k] = Fold(k, through) \/ Due(k)

\* The same of an index at rest, and only of what lies at or below the fold
\* point: no operation there is both missing from the versions and out of the
\* next late scan's sight.
NothingForgotten ==
  (through # None /\ watermark # None /\ \A p \in Projectors : pc[p] = "idle") =>
    \A k \in Keys :
      Due(k) \/ \A b \in Blocks : b <= through => folded[k][b] = Fold(k, through)[b]

\* "A backfill that writes older blocks lowers the floor as it goes": an entity
\* the index serves is not older than the floor, or its rows are due.
FloorFollows ==
  through # None =>
    \A k \in Keys : folded[k] # Nothing => floor <= CreateBlock(k) \/ Due(k)

\* The block the index answers at never runs back, nor the watermark, and the
\* floor only goes down.
ForwardStep ==
  /\ through # None => through' >= through
  /\ watermark # None => watermark' >= watermark
  /\ floor # None => floor' <= floor
ProgressAdvances == [][ForwardStep]_progress

\* Every stored operation of a created entity is folded in the end, whether it
\* arrives at the head or years below it, and stays folded.
EventuallyFolded ==
  <>[](\A k \in Keys, b \in Blocks :
         (head # None /\ b <= head /\ k \in Touches[b] /\ rows[b] > 0
            /\ rows[CreateBlock(k)] > 0) => folded[k][b] > 0)
=============================================================================
