----------------------- MODULE EntityProjector_proofs -----------------------
(***************************************************************************)
(* No stored operation is forgotten by the projector, proved for any       *)
(* entities, chain, number of writers and length of their transactions, as *)
(* long as one backend runs and its very first start is not interrupted    *)
(* (the runs projector_two_backends and projector_start_crash show what    *)
(* happens otherwise).                                                     *)
(*                                                                         *)
(* The strengthening follows a tick through its program: what the watermark*)
(* a late scan is about to store would leave behind, and what the fold     *)
(* point a chunk is about to store would, is due to be seen after it.  One *)
(* fact carries them all: a transaction that commits now began less than   *)
(* the overlap before any clock reading that is already taken.             *)
(***************************************************************************)
EXTENDS EntityProjector, WellFoundedInduction, TLAPS

\* "single writer": one backend folds a schema, and its first start is not cut short.
OneBackend == \A p, q \in Projectors : p = q
NoStartCrash == StartCrashes = FALSE

LatePCs == {"lateKeys", "lateLoad", "lateCommit", "lateFloor", "lateWatermark"}
ScanPCs == LatePCs \cup {"late", "plan", "load", "commit"}

Fresh == floor = None /\ through = None /\ watermark = None
Started == floor # None /\ through # None /\ watermark # None

\* No transaction is older than MaxTx, and no clock reading lies in the future.
Clocks ==
  /\ \A w \in AllWriters : writing[w] # None =>
       writing[w].start <= clock /\ clock - writing[w].start <= MaxTx
  /\ watermark # None => watermark <= clock
  /\ \A p \in Projectors :
       /\ now[p] # None => now[p] <= clock
       /\ pc[p] \in {"setFloor", "setThrough", "setWatermark"} => now[p] = clock
       /\ pc[p] \in LatePCs => now[p] # None /\ watermark <= now[p]

\* Where a tick is, what it has written of the progress, and what it holds of it.
Stage ==
  /\ through # None => floor # None /\ floor <= through + 1
  /\ watermark # None => through # None
  /\ through # None /\ watermark = None => \E p \in Projectors : pc[p] = "setWatermark"
  /\ \A p \in Projectors :
       /\ pc[p] # "idle" => hd[p] # None
       /\ pc[p] \in {"idle", "progress"} => Fresh \/ Started
       /\ pc[p] \in {"detect", "clock", "setFloor"} => Fresh
       /\ pc[p] \in StartPCs => flr[p] # None
       /\ pc[p] = "setThrough" => floor = flr[p] /\ through = None /\ watermark = None
       /\ pc[p] = "setWatermark" =>
            floor = flr[p] /\ through = floor - 1 /\ watermark = None
       /\ pc[p] \in ScanPCs => Started /\ thr[p] = through
       /\ pc[p] \in {"late", "lateKeys", "lateLoad", "lateCommit", "lateFloor"} =>
            flr[p] = floor
       /\ pc[p] \in {"late", "lateKeys", "lateLoad", "lateCommit"} => wm[p] = watermark
       /\ pc[p] \in {"load", "commit"} => end[p] # None /\ thr[p] < end[p]

\* Nothing is folded, or about to be, of an entity whose create is not stored.
Created(fold) == \A k \in Keys : fold[k] # Nothing => rows[CreateBlock(k)] > 0
Unborn ==
  /\ Created(folded)
  /\ \A p \in Projectors : Created(loaded[p])
  /\ through = None => folded = [k \in Keys |-> Nothing]

\* Fold and ScannedSince, for any content r and stamps s of the rows.
History(r, k, bound) ==
  IF CreateBlock(k) <= bound /\ r[CreateBlock(k)] > 0
  THEN [b \in Blocks |-> IF b <= bound /\ k \in Touches[b] THEN r[b] ELSE 0]
  ELSE Nothing
Stamped(r, s, since, upTo, k) ==
  \E b \in Blocks : b <= upTo /\ r[b] > 0 /\ k \in Touches[b] /\ s[b] > since

\* What a scan behind `mark' will see, and what a fold to `bound' leaves to it.
SeenAfter(mark, bound, k) == Stamped(rows, scannedAt, mark - Overlap, bound, k)
FoldedTo(fold, mark, bound, k) == fold[k] = History(rows, k, bound) \/ SeenAfter(mark, bound, k)
FloorOrSeen(f, mark, bound, k) ==
  rows[CreateBlock(k)] > 0 => f <= CreateBlock(k) \/ SeenAfter(mark, bound, k)

\* The first start: creates below the floor it is about to store are recent.
StartInv ==
  \A p \in Projectors : pc[p] \in {"clock", "setFloor", "setThrough"} =>
    \A k \in Keys : rows[CreateBlock(k)] > 0 =>
      flr[p] <= CreateBlock(k) \/ scannedAt[CreateBlock(k)] > clock - Overlap

\* Floor and versions against the watermark that is stored, or about to be.
RestInv ==
  /\ watermark # None =>
       \A k \in Keys : /\ FoldedTo(folded, watermark, through, k)
                       /\ FloorOrSeen(floor, watermark, through, k)
  /\ \A p \in Projectors : pc[p] = "setWatermark" =>
       \A k \in Keys : /\ FoldedTo(folded, now[p], through, k)
                       /\ FloorOrSeen(floor, now[p], through, k)

\* A late scan against the watermark it will store.
LateInv ==
  \A p \in Projectors : \A k \in Keys :
    /\ pc[p] \in {"lateLoad", "lateCommit"} =>
         IF k \in keys[p] THEN SeenAfter(watermark, through, k)
                          ELSE FoldedTo(folded, now[p], through, k)
    /\ pc[p] = "lateCommit" /\ k \in keys[p] => FoldedTo(loaded[p], now[p], through, k)
    /\ pc[p] \in {"lateFloor", "lateWatermark"} => FoldedTo(folded, now[p], through, k)
    /\ pc[p] = "lateWatermark" => FloorOrSeen(floor, now[p], through, k)

\* A chunk against the fold point it will store.
ChunkInv ==
  \A p \in Projectors : \A k \in Keys :
    /\ pc[p] \in {"load", "commit"} /\ k \notin keys[p] =>
         FoldedTo(folded, watermark, end[p], k)
    /\ pc[p] = "commit" /\ k \in keys[p] => FoldedTo(loaded[p], watermark, end[p], k)

Control == TypeOK /\ Clocks /\ Stage
Data == Unborn /\ StartInv /\ RestInv /\ LateInv /\ ChunkInv
IInv == Control /\ Data

-----------------------------------------------------------------------------
(* Control: every action keeps the types, the clocks and the stage. *)

LEMMA InitControl == ASSUME ProjectorAssumption PROVE Init => Control
  BY SMT DEF ProjectorAssumption, Init, Control, TypeOK, Clocks, Stage, Fresh, Started,
     PCs, StartPCs, ScanPCs, LatePCs, Nothing, Seen, Blocks

USE DEF PCs, StartPCs, ScanPCs, LatePCs, Fresh, Started

LEMMA TickControl == ASSUME ProjectorAssumption, Control, Tick PROVE Control'
<1>1. TypeOK'
  BY SMT DEF ProjectorAssumption, Control, TypeOK, Tick, ingest, progress
<1>2. Clocks'
  BY SMT DEF ProjectorAssumption, Control, TypeOK, Clocks, Stage, Tick, ingest, progress
<1>3. Stage'
  BY SMT DEF ProjectorAssumption, Control, TypeOK, Stage, Tick, ingest, progress
<1> QED
  BY <1>1, <1>2, <1>3 DEF Control

LEMMA BeginWriteControl ==
  ASSUME ProjectorAssumption, Control, NEW w \in AllWriters, NEW b \in Blocks, BeginWrite(w, b)
  PROVE  Control'
  BY SMT DEF ProjectorAssumption, Control, TypeOK, Clocks, Stage, BeginWrite, progress, Blocks

LEMMA CommitWriteControl ==
  ASSUME ProjectorAssumption, Control, NEW w \in AllWriters, CommitWrite(w)
  PROVE  Control'
<1>1. TypeOK'
  BY SMT DEF ProjectorAssumption, Control, TypeOK, CommitWrite, progress, Seen
<1>2. Clocks'
  BY SMT DEF ProjectorAssumption, Control, TypeOK, Clocks, Stage, CommitWrite, progress, Seen
<1>3. Stage'
  BY SMT DEF ProjectorAssumption, Control, TypeOK, Stage, CommitWrite, progress, Seen
<1> QED
  BY <1>1, <1>2, <1>3 DEF Control

LEMMA LeaveControl ==
  ASSUME ProjectorAssumption, OneBackend, Control, NEW p \in Projectors, Leave(p),
         Fresh \/ Started,
         UNCHANGED <<clock, ingest, progress, folded>>, failures' \in 0..MaxFailures
  PROVE  Control'
<1>1. TypeOK'
  BY SMT DEF ProjectorAssumption, Control, TypeOK, OneBackend, Leave, Goto, ingest, progress,
     Seen, Nothing
<1>2. Clocks'
  BY SMT DEF ProjectorAssumption, Control, TypeOK, Clocks, Stage, OneBackend, Leave, Goto,
     ingest, progress, Seen, Nothing
<1>3. Stage'
  BY SMT DEF ProjectorAssumption, Control, TypeOK, Stage, OneBackend, Leave, Goto, ingest,
     progress, Seen, Nothing
<1> QED
  BY <1>1, <1>2, <1>3 DEF Control

LEMMA BeginTickControl ==
  ASSUME ProjectorAssumption, OneBackend, Control, NEW p \in Projectors, BeginTick(p)
  PROVE  Control'
<1>1. TypeOK'
  BY SMT DEF ProjectorAssumption, Control, TypeOK, OneBackend, BeginTick, Goto, ingest, progress
<1>2. Clocks'
  BY SMT DEF ProjectorAssumption, Control, TypeOK, Clocks, Stage, OneBackend, BeginTick, Goto,
     ingest, progress
<1>3. Stage'
  BY SMT DEF ProjectorAssumption, Control, TypeOK, Stage, OneBackend, BeginTick, Goto, ingest,
     progress
<1> QED
  BY <1>1, <1>2, <1>3 DEF Control

LEMMA ReadProgressControl ==
  ASSUME ProjectorAssumption, OneBackend, Control, NEW p \in Projectors, ReadProgress(p)
  PROVE  Control'
  BY SMT DEF ProjectorAssumption, OneBackend, Control, TypeOK, Clocks, Stage, ReadProgress,
     Goto, ingest, progress, Blocks

LEMMA DetectFloorControl ==
  ASSUME ProjectorAssumption, OneBackend, Control, NEW p \in Projectors, DetectFloor(p)
  PROVE  Control'
<1>0. Fresh /\ pc[p] = "detect" /\ failures' \in 0..MaxFailures
  BY SMT DEF Control, Stage, TypeOK, DetectFloor
<1>1. CASE Leave(p)
  BY <1>0, <1>1, LeaveControl DEF DetectFloor
<1>2. CASE ~Leave(p)
  <2>1. PICK f \in Blocks \cup {0} :
          /\ flr' = [flr EXCEPT ![p] = f]
          /\ Goto(p, "clock")
          /\ UNCHANGED <<lock, hd, thr, wm, now, keys, end, loaded>>
          /\ UNCHANGED <<clock, ingest, progress, folded, failures>>
    BY <1>2 DEF DetectFloor
  <2>2. f \in Blocks
    BY SMT DEF Blocks, ProjectorAssumption
  <2>3. TypeOK'
    BY <2>1, <2>2, SMT DEF ProjectorAssumption, Control, TypeOK, Goto, ingest, progress
  <2>4. Clocks'
    BY <1>0, <2>1, SMT DEF ProjectorAssumption, OneBackend, Control, TypeOK, Clocks, Stage, Goto,
       ingest, progress
  <2>5. Stage'
    BY <1>0, <2>1, <2>2, SMT DEF ProjectorAssumption, OneBackend, Control, TypeOK, Stage, Goto,
       ingest, progress, Blocks
  <2> QED
    BY <2>3, <2>4, <2>5 DEF Control
<1> QED
  BY <1>1, <1>2

LEMMA ReadStartClockControl ==
  ASSUME ProjectorAssumption, OneBackend, Control, NEW p \in Projectors, ReadStartClock(p)
  PROVE  Control'
<1>1. TypeOK'
  BY SMT DEF ProjectorAssumption, OneBackend, Control, TypeOK, Stage, ReadStartClock, Goto,
     ingest, progress
<1>2. Clocks'
  BY SMT DEF ProjectorAssumption, OneBackend, Control, TypeOK, Clocks, Stage, ReadStartClock,
     Goto,
     ingest, progress
<1>3. Stage'
  BY SMT DEF ProjectorAssumption, OneBackend, Control, TypeOK, Stage, ReadStartClock, Goto,
     ingest, progress
<1> QED
  BY <1>1, <1>2, <1>3 DEF Control

LEMMA SetFloorControl ==
  ASSUME ProjectorAssumption, OneBackend, Control, NEW p \in Projectors, SetFloor(p)
  PROVE  Control'
<1>1. TypeOK'
  BY SMT DEF ProjectorAssumption, OneBackend, Control, TypeOK, Stage, SetFloor, Goto, ingest,
     progress, Blocks
<1>2. Clocks'
  BY SMT DEF ProjectorAssumption, OneBackend, Control, TypeOK, Clocks, Stage, SetFloor, Goto,
     ingest, progress, Blocks
<1>3. Stage'
  BY SMT DEF ProjectorAssumption, OneBackend, Control, TypeOK, Stage, SetFloor, Goto, ingest,
     progress, Blocks
<1> QED
  BY <1>1, <1>2, <1>3 DEF Control

LEMMA SetThroughControl ==
  ASSUME ProjectorAssumption, OneBackend, Control, NEW p \in Projectors, SetThrough(p)
  PROVE  Control'
<1>1. TypeOK'
  BY SMT DEF ProjectorAssumption, OneBackend, Control, TypeOK, Stage, SetThrough, Goto, ingest,
     progress, Blocks
<1>2. Clocks'
  BY SMT DEF ProjectorAssumption, OneBackend, Control, TypeOK, Clocks, Stage, SetThrough, Goto,
     ingest, progress, Blocks
<1>3. Stage'
  BY SMT DEF ProjectorAssumption, OneBackend, Control, TypeOK, Stage, SetThrough, Goto, ingest,
     progress, Blocks
<1> QED
  BY <1>1, <1>2, <1>3 DEF Control

LEMMA SetWatermarkControl ==
  ASSUME ProjectorAssumption, OneBackend, Control, NEW p \in Projectors, SetWatermark(p)
  PROVE  Control'
<1>1. TypeOK'
  BY SMT DEF ProjectorAssumption, OneBackend, Control, TypeOK, Stage, SetWatermark, Goto,
     ingest, progress
<1>2. Clocks'
  BY SMT DEF ProjectorAssumption, OneBackend, Control, TypeOK, Clocks, Stage, SetWatermark, Goto,
     ingest, progress
<1>3. Stage'
  BY SMT DEF ProjectorAssumption, OneBackend, Control, TypeOK, Clocks, Stage, SetWatermark, Goto,
     ingest, progress
<1> QED
  BY <1>1, <1>2, <1>3 DEF Control

LEMMA LateStartControl ==
  ASSUME ProjectorAssumption, OneBackend, Control, NEW p \in Projectors, LateStart(p)
  PROVE  Control'
<1>1. /\ floor' \in Blocks \cup {None} /\ flr' \in [Projectors -> Blocks \cup {None}]
      /\ wm' \in [Projectors -> 0..MaxClock \cup {None}]
  <2>1. 0 \in Blocks
    BY SMT DEF ProjectorAssumption, Blocks
  <2>2. CASE KnownFromBlockZero(flr[p])
    BY <2>1, <2>2 DEF Control, TypeOK, LateStart
  <2>3. CASE ~KnownFromBlockZero(flr[p])
    BY <2>3 DEF Control, TypeOK, LateStart
  <2> QED
    BY <2>2, <2>3
<1>2. TypeOK'
  <2>1. pc' \in [Projectors -> PCs] /\ now' \in [Projectors -> 0..MaxClock \cup {None}]
    BY DEF Control, TypeOK, LateStart, Goto
  <2>2. UNCHANGED <<clock, ingest, through, watermark, folded, lock, hd, thr, keys, end, loaded,
                    failures>>
    BY DEF LateStart
  <2> QED
    BY <1>1, <2>1, <2>2 DEF Control, TypeOK, ingest
<1>3. Clocks'
  BY SMT DEF ProjectorAssumption, OneBackend, Control, TypeOK, Clocks, Stage, LateStart, Goto,
     ingest, progress, Blocks
<1>4. Stage'
  BY SMT DEF ProjectorAssumption, OneBackend, Control, TypeOK, Stage, LateStart, Goto, ingest,
     progress, Blocks
<1> QED
  BY <1>2, <1>3, <1>4 DEF Control

LEMMA LateKeysControl ==
  ASSUME ProjectorAssumption, OneBackend, Control, NEW p \in Projectors, LateKeys(p)
  PROVE  Control'
<1>1. ScannedSince(wm[p] - Overlap, thr[p]) \subseteq Keys
  BY DEF ScannedSince
<1>2. TypeOK'
  BY <1>1, SMT DEF ProjectorAssumption, OneBackend, Control, TypeOK, Stage, LateKeys, Goto,
     ingest, progress
<1>3. Clocks'
  BY SMT DEF ProjectorAssumption, OneBackend, Control, TypeOK, Clocks, Stage, LateKeys, Goto,
     ingest, progress
<1>4. Stage'
  BY SMT DEF ProjectorAssumption, OneBackend, Control, TypeOK, Stage, LateKeys, Goto, ingest,
     progress
<1> QED
  BY <1>2, <1>3, <1>4 DEF Control

LEMMA LateFloorControl ==
  ASSUME ProjectorAssumption, OneBackend, Control, NEW p \in Projectors, LateFloor(p)
  PROVE  Control'
<1>1. TypeOK'
  BY SMT DEF ProjectorAssumption, OneBackend, Control, TypeOK, Stage, LateFloor, Goto, ingest,
     progress, Blocks
<1>2. Clocks'
  BY SMT DEF ProjectorAssumption, OneBackend, Control, TypeOK, Clocks, Stage, LateFloor, Goto,
     ingest, progress, Blocks
<1>3. Stage'
  BY SMT DEF ProjectorAssumption, OneBackend, Control, TypeOK, Stage, LateFloor, Goto, ingest,
     progress, Blocks
<1> QED
  BY <1>1, <1>2, <1>3 DEF Control

LEMMA LateWatermarkControl ==
  ASSUME ProjectorAssumption, OneBackend, Control, NEW p \in Projectors, LateWatermark(p)
  PROVE  Control'
<1>1. TypeOK'
  BY SMT DEF ProjectorAssumption, OneBackend, Control, TypeOK, Stage, LateWatermark, Goto,
     ingest, progress
<1>2. Clocks'
  BY SMT DEF ProjectorAssumption, OneBackend, Control, TypeOK, Clocks, Stage, LateWatermark, Goto,
     ingest, progress
<1>3. Stage'
  BY SMT DEF ProjectorAssumption, OneBackend, Control, TypeOK, Clocks, Stage, LateWatermark, Goto,
     ingest, progress
<1> QED
  BY <1>1, <1>2, <1>3 DEF Control

LEMMA PlanControl ==
  ASSUME ProjectorAssumption, OneBackend, Control, NEW p \in Projectors, Plan(p)
  PROVE  Control'
<1>1. \A a, b : TouchedBetween(a, b) \subseteq Keys
  BY DEF TouchedBetween
<1>2. TypeOK'
  BY <1>1, SMT DEF ProjectorAssumption, OneBackend, Control, TypeOK, Stage, Plan, Goto, ingest,
     progress
<1>3. Clocks'
  BY SMT DEF ProjectorAssumption, OneBackend, Control, TypeOK, Clocks, Stage, Plan, Goto,
     ingest, progress
<1>4. Stage'
  BY SMT DEF ProjectorAssumption, OneBackend, Control, TypeOK, Stage, Plan, Goto, ingest,
     progress, Blocks
<1> QED
  BY <1>2, <1>3, <1>4 DEF Control

\* What a fold is made of.
LEMMA HistoryType ==
  ASSUME NEW k, NEW bound, NEW r \in Seen
  PROVE  History(r, k, bound) \in Seen
  BY SMT DEF History, Seen, Nothing

LEMMA FoldIsHistory == \A k, bound : Fold(k, bound) = History(rows, k, bound)
  BY DEF Fold, History

LEMMA ScannedIsStamped ==
  \A since, upTo : ScannedSince(since, upTo) =
    {k \in Keys : Stamped(rows, scannedAt, since, upTo, k)}
  BY DEF ScannedSince, Stamped

LEMMA LoadControl ==
  ASSUME ProjectorAssumption, OneBackend, Control, NEW p \in Projectors,
         NEW from, NEW to, NEW bound, Load(p, from, bound, to),
         \/ from = "lateLoad" /\ to = "lateCommit"
         \/ from = "load" /\ to = "commit"
  PROVE  Control'
<1>0. (pc[p] \in ScanPCs /\ Fresh) \/ Started
  BY SMT DEF Control, Stage, Load
<1>1. CASE lock # None
  <2>1. Leave(p) /\ UNCHANGED <<clock, ingest, progress, folded, failures>>
    BY <1>1 DEF Load
  <2>2. Fresh \/ Started
    BY <1>0
  <2> QED
    BY <2>1, <2>2, LeaveControl DEF Control, TypeOK
<1>2. CASE lock = None
  <2>0. rows \in Seen
    BY DEF Control, TypeOK
  <2>1. [k \in Keys |-> IF k \in keys[p] THEN Fold(k, bound) ELSE Nothing] \in [Keys -> Seen]
    BY <2>0, HistoryType, FoldIsHistory, SMT DEF Nothing, Seen
  <2>2. TypeOK'
    BY <1>2, <2>1 DEF Control, TypeOK, Load, Goto, ingest, progress
  <2>3. Clocks'
    BY <1>2, SMT DEF ProjectorAssumption, OneBackend, Control, TypeOK, Clocks, Stage, Load, Goto,
       ingest, progress
  <2>4. Stage'
    BY <1>2, SMT DEF ProjectorAssumption, OneBackend, Control, TypeOK, Stage, Load, Goto,
       ingest, progress
  <2> QED
    BY <2>2, <2>3, <2>4 DEF Control
<1> QED
  BY <1>1, <1>2

\* The versions replaced by a transaction are functions of the same kind.
LEMMA ReplaceType ==
  ASSUME Control, NEW p \in Projectors, Replace(p)
  PROVE  /\ folded' \in [Keys -> Seen]
         /\ loaded' \in [Projectors -> [Keys -> Seen]]
         /\ lock' = None
<1>1. Nothing \in Seen
  BY SMT DEF Nothing, Seen
<1> QED
  BY <1>1 DEF Control, TypeOK, Replace

LEMMA LateCommitControl ==
  ASSUME ProjectorAssumption, OneBackend, Control, NEW p \in Projectors, LateCommit(p)
  PROVE  Control'
<1>1. TypeOK'
  BY ReplaceType DEF Control, TypeOK, LateCommit, Goto, ingest, progress
<1>2. Clocks'
  BY SMT DEF ProjectorAssumption, OneBackend, Control, TypeOK, Clocks, Stage, LateCommit, Goto,
     ingest, progress
<1>3. Stage'
  BY SMT DEF ProjectorAssumption, OneBackend, Control, TypeOK, Stage, LateCommit, Goto,
     ingest, progress
<1> QED
  BY <1>1, <1>2, <1>3 DEF Control

LEMMA ChunkCommitControl ==
  ASSUME ProjectorAssumption, OneBackend, Control, NEW p \in Projectors, ChunkCommit(p)
  PROVE  Control'
<1>0. end[p] \in Blocks /\ thr[p] = through /\ thr[p] < end[p] /\ Started
  BY DEF Control, TypeOK, Stage, ChunkCommit
<1>1. TypeOK'
  <2>1. end[p] \in (-1)..MaxBlock
    BY <1>0, SMT DEF Blocks, ProjectorAssumption
  <2> QED
    BY <2>1, ReplaceType DEF Control, TypeOK, ChunkCommit, Goto, ingest
<1>2. Clocks'
  BY <1>0, SMT DEF ProjectorAssumption, OneBackend, Control, TypeOK, Clocks, ChunkCommit, Goto,
     ingest
<1>3. Stage'
  BY <1>0, SMT DEF ProjectorAssumption, OneBackend, Control, TypeOK, Stage, ChunkCommit, Goto,
     ingest, Blocks
<1> QED
  BY <1>1, <1>2, <1>3 DEF Control

LEMMA EndsControl ==
  ASSUME ProjectorAssumption, OneBackend, NoStartCrash, Control, NEW p \in Projectors,
         EndTick(p) \/ TickFails(p)
  PROVE  Control'
<1>1. Leave(p) /\ UNCHANGED <<clock, ingest, progress, folded>>
  BY DEF EndTick, TickFails
<1>2. failures' \in 0..MaxFailures
  BY SMT DEF ProjectorAssumption, Control, TypeOK, EndTick, TickFails
<1>3. Fresh \/ Started
  BY SMT DEF NoStartCrash, Control, TypeOK, Stage, EndTick, TickFails
<1> QED
  BY <1>1, <1>2, <1>3, LeaveControl

-----------------------------------------------------------------------------
(* The history of a key and what a scan sees of it. *)

\* Every entity has a first operation: a set of block numbers has a least one.
LEMMA CreateBlockType ==
  ASSUME ProjectorAssumption, NEW k \in Keys
  PROVE  CreateBlock(k) \in Blocks /\ k \in Touches[CreateBlock(k)]
<1> DEFINE T == {b \in Blocks : k \in Touches[b]}
<1>1. T \subseteq Nat /\ T # {}
  BY SMT DEF ProjectorAssumption, Blocks
<1>2. PICK b \in T : \A c \in T : <<c, b>> \notin OpToRel(<, Nat)
  BY <1>1, WFMin, NatLessThanWellFounded, Zenon
<1>3. \A m, n \in Nat : m < n => <<m, n>> \in OpToRel(<, Nat)
  BY Zenon DEF OpToRel
<1>4. \A c \in T : b <= c
  <2> SUFFICES ASSUME NEW c \in T PROVE b <= c
    OBVIOUS
  <2>1. ~(c < b)
    BY <1>1, <1>2, <1>3
  <2> QED
    BY <1>1, <2>1, SMT
<1> QED
  BY <1>4 DEF CreateBlock

\* A transaction that commits now is seen behind any clock reading already taken: what it
\* adds to a history it adds in sight of the scan.
LEMMA WriteIsSeen ==
  ASSUME ProjectorAssumption, rows \in Seen, scannedAt \in [Blocks -> Int],
         NEW block \in Blocks, NEW start \in Int,
         rows' = [rows EXCEPT ![block] = @ + 1],
         scannedAt' = [scannedAt EXCEPT ![block] = start],
         NEW since \in Int, since < start, NEW bound \in Int, NEW k \in Keys
  PROVE  /\ Stamped(rows, scannedAt, since, bound, k) => Stamped(rows', scannedAt', since, bound, k)
         /\ \/ History(rows', k, bound) = History(rows, k, bound)
            \/ Stamped(rows', scannedAt', since, bound, k)
         /\ rows'[CreateBlock(k)] > 0 =>
              \/ rows[CreateBlock(k)] > 0
              \/ CreateBlock(k) > bound
              \/ Stamped(rows', scannedAt', since, bound, k)
         /\ rows[CreateBlock(k)] > 0 => rows'[CreateBlock(k)] > 0
         /\ rows'[CreateBlock(k)] > 0 =>
              \/ rows[CreateBlock(k)] > 0 /\ scannedAt'[CreateBlock(k)] = scannedAt[CreateBlock(k)]
              \/ scannedAt'[CreateBlock(k)] = start
<1>1. CreateBlock(k) \in Blocks /\ k \in Touches[CreateBlock(k)]
  BY CreateBlockType
<1>2. /\ Blocks \subseteq Int
      /\ \A b \in Blocks : rows[b] \in Nat /\ scannedAt[b] \in Int /\ rows'[b] \in Nat
      /\ rows'[block] > 0 /\ scannedAt'[block] = start
      /\ \A b \in Blocks : b # block => rows'[b] = rows[b] /\ scannedAt'[b] = scannedAt[b]
  BY SMT DEF Seen, Blocks, ProjectorAssumption
<1>3. Stamped(rows, scannedAt, since, bound, k) => Stamped(rows', scannedAt', since, bound, k)
  <2> SUFFICES ASSUME NEW b \in Blocks,
                      b <= bound /\ rows[b] > 0 /\ k \in Touches[b] /\ scannedAt[b] > since
               PROVE  rows'[b] > 0 /\ scannedAt'[b] > since
    BY DEF Stamped
  <2> QED
    BY <1>2, SMT
<1>4. CASE block <= bound /\ k \in Touches[block]
  <2>1. Stamped(rows', scannedAt', since, bound, k)
    BY <1>2, <1>4 DEF Stamped
  <2> QED
    BY <1>1, <1>2, <2>1, SMT
<1>5. CASE ~(block <= bound /\ k \in Touches[block])
  <2>1. CreateBlock(k) <= bound => CreateBlock(k) # block
    BY <1>1, <1>5
  <2>2. [b \in Blocks |-> IF b <= bound /\ k \in Touches[b] THEN rows'[b] ELSE 0] =
        [b \in Blocks |-> IF b <= bound /\ k \in Touches[b] THEN rows[b] ELSE 0]
    BY <1>2, <1>5
  <2>3. History(rows', k, bound) = History(rows, k, bound)
    BY <1>1, <1>2, <2>1, <2>2 DEF History
  <2> QED
    BY <1>1, <1>2, <1>3, <2>1, <2>3, SMT
<1> QED
  BY <1>4, <1>5

\* A later fold point leaves no less to the scan.
LEMMA SeenFurther ==
  ASSUME NEW r, NEW s, NEW since, NEW a \in Int, NEW b \in Int, a <= b, NEW k,
         Stamped(r, s, since, a, k), Blocks \subseteq Int
  PROVE  Stamped(r, s, since, b, k)
  BY SMT DEF Stamped

\* Blocks without stored operations of the key add nothing to its history.
LEMMA HistoryFurther ==
  ASSUME ProjectorAssumption, NEW k \in Keys, NEW a \in Int, NEW b \in Int, a <= b,
         rows \in Seen, k \notin TouchedBetween(a, b)
  PROVE  History(rows, k, b) = History(rows, k, a)
<1>1. CreateBlock(k) \in Blocks /\ k \in Touches[CreateBlock(k)]
  BY CreateBlockType
<1>2. Blocks \subseteq Int /\ \A c \in Blocks : rows[c] \in Nat
  BY SMT DEF Blocks, ProjectorAssumption, Seen
<1>3. \A c \in Blocks : a < c /\ c <= b /\ k \in Touches[c] => rows[c] = 0
  <2>1. \A c \in Blocks : a < c /\ c <= b /\ k \in Touches[c] => ~(rows[c] > 0)
    BY Zenon DEF TouchedBetween
  <2> QED
    BY <1>2, <2>1, SMT
<1>4. [c \in Blocks |-> IF c <= b /\ k \in Touches[c] THEN rows[c] ELSE 0] =
      [c \in Blocks |-> IF c <= a /\ k \in Touches[c] THEN rows[c] ELSE 0]
  <2> SUFFICES ASSUME NEW c \in Blocks
               PROVE  (IF c <= b /\ k \in Touches[c] THEN rows[c] ELSE 0) =
                      (IF c <= a /\ k \in Touches[c] THEN rows[c] ELSE 0)
    OBVIOUS
  <2>1. c \in Int /\ (c <= a => c <= b)
    BY <1>2, SMT
  <2>2. c <= b /\ ~(c <= a) => a < c
    BY <2>1, SMT
  <2>3. CASE c <= a \/ ~(c <= b)
    BY <2>1, <2>3
  <2>4. CASE c <= b /\ ~(c <= a)
    BY <1>3, <2>2, <2>4
  <2> QED
    BY <2>3, <2>4
<1>5. (CreateBlock(k) <= b /\ rows[CreateBlock(k)] > 0) =
      (CreateBlock(k) <= a /\ rows[CreateBlock(k)] > 0)
  BY <1>1, <1>2, <1>3, SMT
<1> QED
  BY <1>4, <1>5 DEF History

LEMMA NoHistory ==
  \A r, k, bound : History(r, k, bound) # Nothing => r[CreateBlock(k)] > 0
  BY DEF History

-----------------------------------------------------------------------------
(* Data: every action keeps what is folded and what is due. *)

\* The program counters at which a projector is about to change the index.
BusyPCs == StartPCs \cup {"lateLoad", "lateCommit", "lateFloor", "lateWatermark", "load", "commit"}

USE DEF FoldedTo, FloorOrSeen, SeenAfter

LEMMA InitData == ASSUME ProjectorAssumption PROVE Init => Data
  BY SMT DEF Init, Data, Unborn, Created, StartInv, RestInv, LateInv, ChunkInv, Nothing

\* A step that writes nothing, at a point where nothing is about to be written.
LEMMA QuietData ==
  ASSUME Data,
         UNCHANGED <<rows, scannedAt, progress, folded>>,
         \A p \in Projectors :
           /\ loaded'[p] = loaded[p] \/ loaded'[p] = [k \in Keys |-> Nothing]
           /\ \/ pc'[p] \notin BusyPCs
              \/ /\ pc'[p] = pc[p] /\ flr'[p] = flr[p] /\ now'[p] = now[p]
                 /\ keys'[p] = keys[p] /\ end'[p] = end[p] /\ loaded'[p] = loaded[p]
                 /\ clock' = clock \/ pc[p] \notin StartPCs
  PROVE  Data'
<1>1. Unborn'
  BY DEF Data, Unborn, Created, progress
<1>2. StartInv'
  BY DEF Data, StartInv, BusyPCs
<1>3. RestInv'
  BY DEF Data, RestInv, BusyPCs, progress
<1>4. LateInv'
  BY DEF Data, LateInv, BusyPCs, progress
<1>5. ChunkInv'
  BY DEF Data, ChunkInv, BusyPCs, progress
<1> QED
  BY <1>1, <1>2, <1>3, <1>4, <1>5 DEF Data

LEMMA TickData == ASSUME Data, Tick PROVE Data'
  BY QuietData DEF Tick, ingest, progress

LEMMA BeginWriteData ==
  ASSUME Data, NEW w \in AllWriters, NEW b \in Blocks, BeginWrite(w, b) PROVE Data'
  BY QuietData DEF BeginWrite, progress

LEMMA LeaveData ==
  ASSUME OneBackend, Control, Data, NEW p \in Projectors, Leave(p),
         UNCHANGED <<clock, ingest, progress, folded>>
  PROVE  Data'
<1>1. \A q \in Projectors :
        pc'[q] \notin BusyPCs /\ loaded'[q] = [k \in Keys |-> Nothing]
  BY SMT DEF OneBackend, Control, TypeOK, Leave, Goto, BusyPCs
<1> QED
  BY <1>1, QuietData DEF ingest, progress

LEMMA BeginTickData ==
  ASSUME OneBackend, Control, Data, NEW p \in Projectors, BeginTick(p) \/ ReadProgress(p)
  PROVE  Data'
<1>1. \A q \in Projectors : pc'[q] \notin BusyPCs /\ loaded'[q] = loaded[q]
  BY SMT DEF OneBackend, Control, TypeOK, BeginTick, ReadProgress, Goto, BusyPCs
<1> QED
  BY <1>1, QuietData DEF BeginTick, ReadProgress, ingest, progress

LEMMA EndsData ==
  ASSUME OneBackend, Control, Data, NEW p \in Projectors, EndTick(p) \/ TickFails(p)
  PROVE  Data'
  BY LeaveData DEF EndTick, TickFails

\* A writer's transaction becomes visible.
LEMMA CommitWriteData ==
  ASSUME ProjectorAssumption, Control, Data, NEW w \in AllWriters, CommitWrite(w)
  PROVE  Data'
<1> DEFINE block == writing[w].block
           start == writing[w].start
<1>1. /\ block \in Blocks /\ start \in Int /\ clock \in Int /\ Overlap \in Int
      /\ clock - Overlap < start
  BY SMT DEF ProjectorAssumption, Control, TypeOK, Clocks, CommitWrite
<1>2. rows \in Seen /\ scannedAt \in [Blocks -> Int]
  BY SMT DEF Control, TypeOK
<1>3. rows' = [rows EXCEPT ![block] = @ + 1] /\ scannedAt' = [scannedAt EXCEPT ![block] = start]
  BY DEF CommitWrite
<1>4. UNCHANGED <<clock, progress, folded, lock, pc, hd, thr, flr, wm, now, keys, end, loaded>>
  BY DEF CommitWrite
<1>5. /\ Blocks \subseteq Int
      /\ through # None => through \in Int
      /\ watermark # None => watermark \in Int /\ watermark <= clock
      /\ floor # None => floor \in Int
      /\ through # None => floor # None /\ floor <= through + 1
      /\ \A p \in Projectors : now[p] # None => now[p] \in Int /\ now[p] <= clock
      /\ \A p \in Projectors : end[p] # None => end[p] \in Int
      /\ \A k \in Keys : CreateBlock(k) \in Int
  BY CreateBlockType, SMT DEF ProjectorAssumption, Control, TypeOK, Clocks, Stage, Blocks
<1> HIDE DEF block, start
<1>6. \A mark, bound \in Int : \A k \in Keys : mark <= clock =>
        /\ SeenAfter(mark, bound, k) => Stamped(rows', scannedAt', mark - Overlap, bound, k)
        /\ History(rows', k, bound) = History(rows, k, bound)
             \/ Stamped(rows', scannedAt', mark - Overlap, bound, k)
        /\ rows'[CreateBlock(k)] > 0 =>
             \/ rows[CreateBlock(k)] > 0
             \/ CreateBlock(k) > bound
             \/ Stamped(rows', scannedAt', mark - Overlap, bound, k)
        /\ rows[CreateBlock(k)] > 0 => rows'[CreateBlock(k)] > 0
        /\ rows'[CreateBlock(k)] > 0 =>
              \/ rows[CreateBlock(k)] > 0 /\ scannedAt'[CreateBlock(k)] = scannedAt[CreateBlock(k)]
              \/ scannedAt'[CreateBlock(k)] = start
  <2> SUFFICES ASSUME NEW mark \in Int, NEW bound \in Int, NEW k \in Keys, mark <= clock
               PROVE  /\ SeenAfter(mark, bound, k) =>
                           Stamped(rows', scannedAt', mark - Overlap, bound, k)
                      /\ History(rows', k, bound) = History(rows, k, bound)
                           \/ Stamped(rows', scannedAt', mark - Overlap, bound, k)
                      /\ rows'[CreateBlock(k)] > 0 =>
                           \/ rows[CreateBlock(k)] > 0
                           \/ CreateBlock(k) > bound
                           \/ Stamped(rows', scannedAt', mark - Overlap, bound, k)
                      /\ rows[CreateBlock(k)] > 0 => rows'[CreateBlock(k)] > 0
                      /\ rows'[CreateBlock(k)] > 0 =>
                           \/ /\ rows[CreateBlock(k)] > 0
                              /\ scannedAt'[CreateBlock(k)] = scannedAt[CreateBlock(k)]
                           \/ scannedAt'[CreateBlock(k)] = start
    OBVIOUS
  <2>1. mark - Overlap \in Int /\ mark - Overlap < start
    BY <1>1, SMT
  <2> QED
    BY <1>1, <1>2, <1>3, <2>1, WriteIsSeen
<1>7. \A k \in Keys : rows[CreateBlock(k)] > 0 => rows'[CreateBlock(k)] > 0
  BY <1>1, <1>6, SMT
<1>8. \A k \in Keys : rows'[CreateBlock(k)] > 0 =>
        \/ rows[CreateBlock(k)] > 0 /\ scannedAt'[CreateBlock(k)] = scannedAt[CreateBlock(k)]
        \/ scannedAt'[CreateBlock(k)] = start
  BY <1>1, <1>6, SMT
<1>9. Unborn'
  BY <1>4, <1>7 DEF Data, Unborn, Created, progress
<1>10. StartInv'
  BY <1>1, <1>4, <1>8, SMT DEF Data, StartInv
<1>11. ASSUME NEW mark \in Int, NEW bound \in Int, NEW k \in Keys, mark <= clock
       PROVE  /\ SeenAfter(mark, bound, k) => Stamped(rows', scannedAt', mark - Overlap, bound, k)
              /\ \A v : v = History(rows, k, bound) \/ SeenAfter(mark, bound, k) =>
                   \/ v = History(rows', k, bound)
                   \/ Stamped(rows', scannedAt', mark - Overlap, bound, k)
              /\ \A f \in Int : f <= bound + 1 /\ FloorOrSeen(f, mark, bound, k) =>
                   (rows'[CreateBlock(k)] > 0 =>
                      f <= CreateBlock(k) \/ Stamped(rows', scannedAt', mark - Overlap, bound, k))
  <2>1. CreateBlock(k) \in Int
    BY <1>5
  <2> QED
    BY <1>6, <1>11, <2>1, SMT
<1> HIDE <1>6
<1>12. RestInv'
  <2>1. ASSUME watermark # None, NEW k \in Keys
        PROVE  /\ FoldedTo(folded, watermark, through, k)'
               /\ FloorOrSeen(floor, watermark, through, k)'
    <3>1. through \in Int /\ floor \in Int /\ floor <= through + 1 /\ watermark \in Int
          /\ watermark <= clock
      BY <1>5, <2>1 DEF Control, Stage
    <3>2. FoldedTo(folded, watermark, through, k) /\ FloorOrSeen(floor, watermark, through, k)
      BY <2>1 DEF Data, RestInv
    <3> QED
      BY <1>4, <1>11, <3>1, <3>2 DEF progress
  <2>2. ASSUME NEW p \in Projectors, pc[p] = "setWatermark", NEW k \in Keys
        PROVE  FoldedTo(folded, now[p], through, k)' /\ FloorOrSeen(floor, now[p], through, k)'
    <3>1. through \in Int /\ floor \in Int /\ floor <= through + 1 /\ now[p] \in Int
          /\ now[p] <= clock
      BY <1>1, <1>5, <2>2, SMT DEF Control, Stage, Clocks, TypeOK, Blocks
    <3>2. FoldedTo(folded, now[p], through, k) /\ FloorOrSeen(floor, now[p], through, k)
      BY <2>2 DEF Data, RestInv
    <3> QED
      BY <1>4, <1>11, <3>1, <3>2 DEF progress
  <2> QED
    BY <1>4, <2>1, <2>2 DEF RestInv, progress
<1>13. ASSUME NEW p \in Projectors, pc[p] \in ScanPCs
       PROVE  /\ through \in Int /\ floor \in Int /\ floor <= through + 1
              /\ watermark \in Int /\ watermark <= clock
              /\ pc[p] \in LatePCs => now[p] \in Int /\ now[p] <= clock
              /\ pc[p] \in {"load", "commit"} => end[p] \in Int
  BY <1>5, <1>13 DEF Control, Stage, Clocks
<1>14. LateInv'
  BY <1>4, <1>11, <1>13 DEF Data, LateInv, progress
<1>15. ChunkInv'
  BY <1>4, <1>11, <1>13 DEF Data, ChunkInv, progress
<1> QED
  BY <1>9, <1>10, <1>12, <1>14, <1>15 DEF Data

-----------------------------------------------------------------------------
(* The first start. *)

\* The oldest stored create is not above the create of any entity that has one.
LEMMA FloorDetected ==
  ASSUME ProjectorAssumption, rows \in Seen, NEW f, IsDetectedFloor(f), NEW k \in Keys,
         rows[CreateBlock(k)] > 0
  PROVE  f # None /\ f \in Blocks /\ f <= CreateBlock(k)
<1>1. CreateBlock(k) \in StoredCreates
  BY CreateBlockType DEF StoredCreates
<1>2. StoredCreates \subseteq Blocks /\ Blocks \subseteq Int
  BY SMT DEF StoredCreates, Blocks, ProjectorAssumption
<1>3. f \in StoredCreates /\ f <= CreateBlock(k)
  BY <1>1 DEF IsDetectedFloor
<1> QED
  BY <1>2, <1>3 DEF ProjectorAssumption

LEMMA DetectFloorData ==
  ASSUME ProjectorAssumption, OneBackend, Control, Data, NEW p \in Projectors, DetectFloor(p)
  PROVE  Data'
<1>1. CASE Leave(p)
  BY <1>1, LeaveData DEF DetectFloor
<1>2. CASE ~Leave(p)
  <2>1. PICK f \in Blocks \cup {None}, g \in Blocks :
          /\ IsDetectedFloor(f)
          /\ g = 0 \/ g = f
          /\ flr' = [flr EXCEPT ![p] = g]
          /\ Goto(p, "clock")
          /\ UNCHANGED <<lock, hd, thr, wm, now, keys, end, loaded>>
          /\ UNCHANGED <<clock, ingest, progress, folded, failures>>
    <3>1. 0 \in Blocks
      BY SMT DEF Blocks, ProjectorAssumption
    <3> QED
      BY <1>2, <3>1 DEF DetectFloor
  <2>2. \A q \in Projectors : q = p /\ pc'[q] = "clock" /\ flr'[q] = g
    BY <2>1 DEF OneBackend, Control, TypeOK, Goto
  <2>3. Fresh
    BY DEF Control, Stage, DetectFloor
  <2>4. Unborn'
    BY <2>1 DEF Data, Unborn, Created, ingest, progress
  <2>5. StartInv'
    <3> SUFFICES ASSUME NEW k \in Keys, rows[CreateBlock(k)] > 0 PROVE g <= CreateBlock(k)
      BY <2>1, <2>2 DEF StartInv, ingest
    <3>1. f # None /\ f <= CreateBlock(k)
      BY <2>1, FloorDetected DEF Control, TypeOK
    <3>2. CreateBlock(k) \in Blocks
      BY CreateBlockType
    <3> QED
      BY <2>1, <3>1, <3>2, SMT DEF Blocks, ProjectorAssumption
  <2>6. RestInv' /\ LateInv' /\ ChunkInv'
    BY <2>1, <2>2, <2>3 DEF RestInv, LateInv, ChunkInv, progress
  <2> QED
    BY <2>4, <2>5, <2>6 DEF Data
<1> QED
  BY <1>1, <1>2

LEMMA ReadStartClockData ==
  ASSUME OneBackend, Control, Data, NEW p \in Projectors, ReadStartClock(p)
  PROVE  Data'
<1>1. \A q \in Projectors : q = p /\ pc'[q] = "setFloor" /\ pc[q] = "clock"
  BY DEF OneBackend, Control, TypeOK, ReadStartClock, Goto
<1>2. Unborn'
  BY DEF Data, Unborn, Created, ReadStartClock, ingest, progress
<1>3. StartInv'
  BY <1>1 DEF Data, StartInv, ReadStartClock, ingest
<1>4. RestInv' /\ LateInv' /\ ChunkInv'
  BY <1>1 DEF Control, Stage, RestInv, LateInv, ChunkInv, ReadStartClock, progress
<1> QED
  BY <1>2, <1>3, <1>4 DEF Data

LEMMA SetFloorData ==
  ASSUME OneBackend, Control, Data, NEW p \in Projectors, SetFloor(p)
  PROVE  Data'
<1>1. \A q \in Projectors : q = p /\ pc'[q] = "setThrough" /\ pc[q] = "setFloor"
  BY DEF OneBackend, Control, TypeOK, SetFloor, Goto
<1>2. Unborn'
  BY DEF Data, Unborn, Created, SetFloor, ingest, progress
<1>3. StartInv'
  BY <1>1 DEF Data, StartInv, SetFloor, ingest
<1>4. RestInv' /\ LateInv' /\ ChunkInv'
  BY <1>1 DEF Control, Stage, RestInv, LateInv, ChunkInv, SetFloor
<1> QED
  BY <1>2, <1>3, <1>4 DEF Data

\* What lies below the first floor came while the start was under way, and is recent.
LEMMA SetThroughData ==
  ASSUME ProjectorAssumption, OneBackend, Control, Data, NEW p \in Projectors, SetThrough(p)
  PROVE  Data'
<1>1. \A q \in Projectors : q = p /\ pc'[q] = "setWatermark" /\ pc[q] = "setThrough"
  BY DEF OneBackend, Control, TypeOK, SetThrough, Goto
<1>2. /\ through = None /\ watermark = None /\ floor = flr[p] /\ now[p] = clock
      /\ flr[p] \in Blocks /\ flr[p] \in Int
  BY SMT DEF Control, TypeOK, Stage, Clocks, SetThrough, Blocks, ProjectorAssumption
<1>3. UNCHANGED <<clock, rows, scannedAt, floor, watermark, folded, flr, now, loaded>>
      /\ through' = flr[p] - 1
  BY DEF SetThrough, ingest
<1>4. through' # None
  BY <1>2, <1>3, SMT DEF ProjectorAssumption
<1>5. Unborn'
  BY <1>3, <1>4 DEF Data, Unborn, Created
<1>6. ASSUME NEW k \in Keys
      PROVE  /\ Nothing = History(rows, k, through') \/ SeenAfter(now[p], through', k)
             /\ FloorOrSeen(floor, now[p], through', k)
  <2>1. CreateBlock(k) \in Blocks /\ CreateBlock(k) \in Int /\ k \in Touches[CreateBlock(k)]
    BY CreateBlockType, SMT DEF Blocks, ProjectorAssumption
  <2>2. CASE rows[CreateBlock(k)] > 0 /\ ~(flr[p] <= CreateBlock(k))
    <3>1. scannedAt[CreateBlock(k)] > clock - Overlap
      BY <2>2, <1>1 DEF Data, StartInv, SetThrough
    <3>2. CreateBlock(k) <= through'
      BY <1>2, <1>3, <2>1, <2>2, SMT
    <3> QED
      BY <1>2, <2>1, <2>2, <3>1, <3>2 DEF Stamped
  <2>3. CASE ~(rows[CreateBlock(k)] > 0)
    BY <2>3 DEF History
  <2>4. CASE flr[p] <= CreateBlock(k)
    <3>1. ~(CreateBlock(k) <= through')
      BY <1>2, <1>3, <2>1, <2>4, SMT
    <3> QED
      BY <1>2, <2>4, <3>1 DEF History
  <2> QED
    BY <2>2, <2>3, <2>4
<1>7. RestInv'
  BY <1>1, <1>2, <1>3, <1>6 DEF Data, Unborn, RestInv
<1>8. StartInv' /\ LateInv' /\ ChunkInv'
  BY <1>1 DEF StartInv, LateInv, ChunkInv
<1> QED
  BY <1>5, <1>7, <1>8 DEF Data

LEMMA SetWatermarkData ==
  ASSUME OneBackend, Control, Data, NEW p \in Projectors, SetWatermark(p)
  PROVE  Data'
<1>1. \A q \in Projectors : q = p /\ pc'[q] = "progress" /\ pc[q] = "setWatermark"
  BY DEF OneBackend, Control, TypeOK, SetWatermark, Goto
<1>2. Unborn'
  BY DEF Data, Unborn, Created, SetWatermark, ingest
<1>3. RestInv'
  BY <1>1 DEF Data, RestInv, SetWatermark, ingest
<1>4. StartInv' /\ LateInv' /\ ChunkInv'
  BY <1>1 DEF StartInv, LateInv, ChunkInv
<1> QED
  BY <1>2, <1>3, <1>4 DEF Data

-----------------------------------------------------------------------------
(* The late scan. *)

\* The floor drops to 0, below every create, or stays.
LEMMA LateStartData ==
  ASSUME ProjectorAssumption, OneBackend, Control, Data, NEW p \in Projectors, LateStart(p)
  PROVE  Data'
<1>1. Started /\ wm[p] = watermark
  BY DEF Control, Stage, LateStart
<1>2. \A q \in Projectors : q = p /\ pc'[q] = "lateKeys"
  BY <1>1 DEF OneBackend, Control, TypeOK, LateStart, Goto
<1>3. UNCHANGED <<rows, scannedAt, through, watermark, folded, loaded>>
      /\ (floor' = floor \/ floor' = 0)
  BY DEF LateStart, ingest
<1>4. Unborn'
  BY <1>3 DEF Data, Unborn, Created
<1>5. \A k \in Keys : 0 <= CreateBlock(k)
  BY CreateBlockType, SMT DEF Blocks, ProjectorAssumption
<1>6. RestInv'
  BY <1>2, <1>3, <1>5 DEF Data, RestInv
<1>7. StartInv' /\ LateInv' /\ ChunkInv'
  BY <1>2 DEF StartInv, LateInv, ChunkInv
<1> QED
  BY <1>4, <1>6, <1>7 DEF Data

\* What the scan does not find was folded or, at the floor, is in its place.
LEMMA LateKeysData ==
  ASSUME OneBackend, Control, Data, NEW p \in Projectors, LateKeys(p)
  PROVE  Data'
<1>1. Started /\ wm[p] = watermark /\ thr[p] = through
  BY DEF Control, Stage, LateKeys
<1>2. \A q \in Projectors :
        /\ q = p
        /\ keys'[q] = {k \in Keys : SeenAfter(watermark, through, k)}
        /\ pc'[q] = IF keys'[q] = {} THEN "lateWatermark" ELSE "lateLoad"
  BY <1>1, ScannedIsStamped DEF OneBackend, Control, TypeOK, LateKeys, Goto
<1>3. UNCHANGED <<rows, scannedAt, progress, folded, loaded, now>>
  BY DEF LateKeys, ingest
<1>4. Unborn'
  BY <1>3 DEF Data, Unborn, Created, progress
<1>5. RestInv'
  BY <1>2, <1>3 DEF Data, RestInv, progress
<1>6. LateInv'
  BY <1>1, <1>2, <1>3 DEF Data, RestInv, LateInv, progress
<1>7. StartInv' /\ ChunkInv'
  BY <1>2 DEF StartInv, ChunkInv
<1> QED
  BY <1>4, <1>5, <1>6, <1>7 DEF Data

\* What a transaction loads is the fold of what is stored now.
LEMMA Loaded ==
  ASSUME OneBackend, Control, Data, NEW p \in Projectors,
         NEW from, NEW to, NEW bound, Load(p, from, bound, to), lock = None, to \in PCs
  PROVE  /\ \A q \in Projectors : q = p /\ pc[q] = from /\ pc'[q] = to
         /\ \A k \in keys[p] : loaded'[p][k] = History(rows, k, bound)
         /\ UNCHANGED <<rows, scannedAt, progress, folded, keys, now, end>>
         /\ Unborn'
<1>1. /\ \A q \in Projectors : q = p /\ pc[q] = from /\ pc'[q] = to
      /\ \A k \in Keys : loaded'[p][k] = IF k \in keys[p] THEN History(rows, k, bound) ELSE Nothing
      /\ keys[p] \subseteq Keys
  BY FoldIsHistory DEF OneBackend, Control, TypeOK, Load, Goto
<1>2. UNCHANGED <<rows, scannedAt, progress, folded, keys, now, end>>
  BY DEF Load, ingest
<1>3. Created(loaded'[p])
  BY <1>1, NoHistory DEF Created
<1>4. Unborn'
  BY <1>1, <1>2, <1>3 DEF Data, Unborn, Created, progress
<1> QED
  BY <1>1, <1>2, <1>4

LEMMA LateLoadData ==
  ASSUME OneBackend, Control, Data, NEW p \in Projectors, LateLoad(p)
  PROVE  Data'
<1>1. CASE lock # None
  BY <1>1, LeaveData DEF LateLoad, Load
<1>2. CASE lock = None
  <2>1. Load(p, "lateLoad", thr[p], "lateCommit") /\ thr[p] = through
    BY DEF LateLoad, Load, Control, Stage
  <2>2. /\ \A q \in Projectors : q = p /\ pc[q] = "lateLoad" /\ pc'[q] = "lateCommit"
        /\ \A k \in keys[p] : loaded'[p][k] = History(rows, k, through)
        /\ UNCHANGED <<rows, scannedAt, progress, folded, keys, now, end>>
        /\ Unborn'
    BY <1>2, <2>1, Loaded
  <2>3. RestInv'
    BY <2>2 DEF Data, RestInv, progress
  <2>4. LateInv'
    BY <2>2 DEF Data, LateInv, progress
  <2>5. StartInv' /\ ChunkInv'
    BY <2>2 DEF StartInv, ChunkInv
  <2> QED
    BY <2>2, <2>3, <2>4, <2>5 DEF Data
<1> QED
  BY <1>1, <1>2

\* Replacing versions by the folds that were loaded.
LEMMA Replaced ==
  ASSUME Control, Data, NEW p \in Projectors, Replace(p), rows' = rows,
         through # None, through' # None
  PROVE  /\ \A k \in Keys : folded'[k] = IF k \in keys[p] THEN loaded[p][k] ELSE folded[k]
         /\ Unborn'
<1>1. \A k \in Keys : folded'[k] = IF k \in keys[p] THEN loaded[p][k] ELSE folded[k]
  BY DEF Replace
<1>2. Created(folded')
  BY <1>1 DEF Data, Unborn, Created
<1>3. \A q \in Projectors :
        loaded'[q] = IF q = p THEN [k \in Keys |-> Nothing] ELSE loaded[q]
  BY DEF Replace, Control, TypeOK
<1>4. \A q \in Projectors : Created(loaded'[q])
  BY <1>3 DEF Data, Unborn, Created
<1> QED
  BY <1>1, <1>2, <1>4 DEF Unborn, Created

LEMMA LateCommitData ==
  ASSUME OneBackend, Control, Data, NEW p \in Projectors, LateCommit(p)
  PROVE  Data'
<1>1. Started
  BY DEF Control, Stage, LateCommit
<1>2. \A q \in Projectors : q = p /\ pc[q] = "lateCommit" /\ pc'[q] = "lateFloor"
  BY DEF OneBackend, Control, TypeOK, LateCommit, Goto
<1>3. UNCHANGED <<rows, scannedAt, progress, now, keys>> /\ Replace(p)
  BY DEF LateCommit, ingest
<1>4. /\ \A k \in Keys : folded'[k] = IF k \in keys[p] THEN loaded[p][k] ELSE folded[k]
      /\ Unborn'
  BY <1>1, <1>3, Replaced DEF progress
<1>5. RestInv'
  BY <1>2, <1>3, <1>4 DEF Data, RestInv, LateInv, progress
<1>6. LateInv'
  BY <1>2, <1>3, <1>4 DEF Data, LateInv, progress
<1>7. StartInv' /\ ChunkInv'
  BY <1>2 DEF StartInv, ChunkInv
<1> QED
  BY <1>4, <1>5, <1>6, <1>7 DEF Data

LEMMA LateFloorData ==
  ASSUME ProjectorAssumption, OneBackend, Control, Data, NEW p \in Projectors, LateFloor(p)
  PROVE  Data'
<1>1. Started /\ flr[p] = floor /\ floor \in Int
  BY SMT DEF Control, TypeOK, Stage, LateFloor, Blocks, ProjectorAssumption
<1>2. \A q \in Projectors : q = p /\ pc[q] = "lateFloor" /\ pc'[q] = "lateWatermark"
  BY DEF OneBackend, Control, TypeOK, LateFloor, Goto
<1>3. UNCHANGED <<rows, scannedAt, through, watermark, folded, now, keys, loaded>>
  BY DEF LateFloor, ingest
<1>4. PICK f \in Blocks \cup {None} :
        /\ IsDetectedFloor(f)
        /\ floor' = IF f # None /\ f < flr[p] THEN f ELSE floor
  BY DEF LateFloor
<1>5. \A k \in Keys : rows[CreateBlock(k)] > 0 => floor' <= CreateBlock(k)
  <2> SUFFICES ASSUME NEW k \in Keys, rows[CreateBlock(k)] > 0 PROVE floor' <= CreateBlock(k)
    OBVIOUS
  <2>1. f # None /\ f \in Blocks /\ f <= CreateBlock(k)
    BY <1>4, FloorDetected DEF Control, TypeOK
  <2>2. CreateBlock(k) \in Blocks
    BY CreateBlockType
  <2> QED
    BY <1>1, <1>4, <2>1, <2>2, SMT DEF Blocks, ProjectorAssumption
<1>6. Unborn'
  BY <1>3 DEF Data, Unborn, Created
<1>7. RestInv'
  BY <1>2, <1>3, <1>5 DEF Data, RestInv
<1>8. LateInv'
  BY <1>2, <1>3, <1>5 DEF Data, LateInv
<1>9. StartInv' /\ ChunkInv'
  BY <1>2 DEF StartInv, ChunkInv
<1> QED
  BY <1>6, <1>7, <1>8, <1>9 DEF Data

LEMMA LateWatermarkData ==
  ASSUME OneBackend, Control, Data, NEW p \in Projectors, LateWatermark(p)
  PROVE  Data'
<1>1. Started
  BY DEF Control, Stage, LateWatermark
<1>2. \A q \in Projectors : q = p /\ pc[q] = "lateWatermark" /\ pc'[q] = "plan"
  BY DEF OneBackend, Control, TypeOK, LateWatermark, Goto
<1>3. UNCHANGED <<rows, scannedAt, floor, through, folded, loaded>> /\ watermark' = now[p]
  BY DEF LateWatermark, ingest
<1>4. Unborn'
  BY <1>3 DEF Data, Unborn, Created
<1>5. RestInv'
  BY <1>2, <1>3 DEF Data, RestInv, LateInv
<1>6. StartInv' /\ LateInv' /\ ChunkInv'
  BY <1>2 DEF StartInv, LateInv, ChunkInv
<1> QED
  BY <1>4, <1>5, <1>6 DEF Data

-----------------------------------------------------------------------------
(* The chunks. *)

\* A key without operations in the chunk keeps its history.
LEMMA PlanData ==
  ASSUME ProjectorAssumption, OneBackend, Control, Data, NEW p \in Projectors, Plan(p)
  PROVE  Data'
<1>1. Started /\ thr[p] = through /\ through \in Int
  BY SMT DEF Control, TypeOK, Stage, Plan, ProjectorAssumption
<1>2. PICK e \in Blocks :
        /\ thr[p] < e
        /\ end' = [end EXCEPT ![p] = e]
        /\ keys' = [keys EXCEPT ![p] = TouchedBetween(thr[p], e)]
  BY DEF Plan
<1>3. \A q \in Projectors :
        q = p /\ pc'[q] = "load" /\ end'[q] = e /\ keys'[q] = TouchedBetween(through, e)
  BY <1>1, <1>2 DEF OneBackend, Control, TypeOK, Plan, Goto
<1>4. UNCHANGED <<rows, scannedAt, progress, folded, loaded>>
  BY DEF Plan, ingest
<1>5. e \in Int /\ through <= e /\ Blocks \subseteq Int
  BY <1>1, <1>2, SMT DEF Blocks, ProjectorAssumption
<1>6. ASSUME NEW k \in Keys, k \notin TouchedBetween(through, e)
      PROVE  FoldedTo(folded, watermark, e, k)
  <2>1. FoldedTo(folded, watermark, through, k)
    BY <1>1 DEF Data, RestInv
  <2>2. History(rows, k, e) = History(rows, k, through)
    BY <1>1, <1>5, <1>6, HistoryFurther DEF Control, TypeOK
  <2>3. SeenAfter(watermark, through, k) => SeenAfter(watermark, e, k)
    BY <1>1, <1>5, SeenFurther
  <2> QED
    BY <2>1, <2>2, <2>3
<1>7. Unborn'
  BY <1>4 DEF Data, Unborn, Created, progress
<1>8. RestInv'
  BY <1>3, <1>4 DEF Data, RestInv, progress
<1>9. ChunkInv'
  BY <1>3, <1>4, <1>6 DEF ChunkInv, progress
<1>10. StartInv' /\ LateInv'
  BY <1>3 DEF StartInv, LateInv
<1> QED
  BY <1>7, <1>8, <1>9, <1>10 DEF Data

LEMMA ChunkLoadData ==
  ASSUME OneBackend, Control, Data, NEW p \in Projectors, ChunkLoad(p)
  PROVE  Data'
<1>1. CASE lock # None
  BY <1>1, LeaveData DEF ChunkLoad, Load
<1>2. CASE lock = None
  <2>1. /\ \A q \in Projectors : q = p /\ pc[q] = "load" /\ pc'[q] = "commit"
        /\ \A k \in keys[p] : loaded'[p][k] = History(rows, k, end[p])
        /\ UNCHANGED <<rows, scannedAt, progress, folded, keys, now, end>>
        /\ Unborn'
    BY <1>2, Loaded DEF ChunkLoad
  <2>2. RestInv'
    BY <2>1 DEF Data, RestInv, progress
  <2>3. ChunkInv'
    BY <2>1 DEF Data, ChunkInv, progress
  <2>4. StartInv' /\ LateInv'
    BY <2>1 DEF StartInv, LateInv
  <2> QED
    BY <2>1, <2>2, <2>3, <2>4 DEF Data
<1> QED
  BY <1>1, <1>2

LEMMA ChunkCommitData ==
  ASSUME ProjectorAssumption, OneBackend, Control, Data, NEW p \in Projectors, ChunkCommit(p)
  PROVE  Data'
<1>1. /\ Started /\ thr[p] = through /\ through \in Int /\ end[p] \in Int
      /\ end[p] # None /\ through <= end[p] /\ Blocks \subseteq Int
  BY SMT DEF Control, TypeOK, Stage, ChunkCommit, ProjectorAssumption, Blocks
<1>2. \A q \in Projectors : q = p /\ pc[q] = "commit" /\ pc'[q] = "plan"
  BY DEF OneBackend, Control, TypeOK, ChunkCommit, Goto
<1>3. UNCHANGED <<rows, scannedAt, floor, watermark>> /\ Replace(p) /\ through' = end[p]
  BY DEF ChunkCommit, ingest
<1>4. /\ \A k \in Keys : folded'[k] = IF k \in keys[p] THEN loaded[p][k] ELSE folded[k]
      /\ Unborn'
  BY <1>1, <1>3, Replaced
<1>5. \A k \in Keys : FloorOrSeen(floor, watermark, end[p], k)
  <2> SUFFICES ASSUME NEW k \in Keys PROVE FloorOrSeen(floor, watermark, end[p], k)
    OBVIOUS
  <2>1. FloorOrSeen(floor, watermark, through, k)
    BY <1>1 DEF Data, RestInv
  <2>2. SeenAfter(watermark, through, k) => SeenAfter(watermark, end[p], k)
    BY <1>1, SeenFurther
  <2> QED
    BY <2>1, <2>2
<1>6. RestInv'
  BY <1>2, <1>3, <1>4, <1>5 DEF Data, RestInv, ChunkInv
<1>7. StartInv' /\ LateInv' /\ ChunkInv'
  BY <1>2 DEF StartInv, LateInv, ChunkInv
<1> QED
  BY <1>4, <1>6, <1>7 DEF Data

-----------------------------------------------------------------------------
LEMMA InitHolds == ASSUME ProjectorAssumption PROVE Init => IInv
  BY InitControl, InitData DEF IInv

LEMMA ProjectorStepHolds ==
  ASSUME ProjectorAssumption, OneBackend, NoStartCrash, IInv, NEW p \in Projectors,
         ProjectorStep(p) \/ TickFails(p)
  PROVE  IInv'
<1>0. Control /\ Data
  BY DEF IInv
<1>1. CASE BeginTick(p)
  BY <1>0, <1>1, BeginTickControl, BeginTickData DEF IInv
<1>2. CASE ReadProgress(p)
  BY <1>0, <1>2, ReadProgressControl, BeginTickData DEF IInv
<1>3. CASE Start(p)
  BY <1>0, <1>3, DetectFloorControl, DetectFloorData, ReadStartClockControl, ReadStartClockData,
     SetFloorControl, SetFloorData, SetThroughControl, SetThroughData, SetWatermarkControl,
     SetWatermarkData DEF Start, IInv
<1>4. CASE LateScan(p)
  <2>1. LateLoad(p) => Control'
    BY <1>0, LoadControl DEF LateLoad
  <2> QED
    BY <1>0, <1>4, <2>1, LateStartControl, LateStartData, LateKeysControl, LateKeysData,
       LateLoadData, LateCommitControl, LateCommitData, LateFloorControl, LateFloorData,
       LateWatermarkControl, LateWatermarkData DEF LateScan, IInv
<1>5. CASE Chunks(p)
  <2>1. ChunkLoad(p) => Control'
    BY <1>0, LoadControl DEF ChunkLoad
  <2> QED
    BY <1>0, <1>5, <2>1, PlanControl, PlanData, ChunkLoadData, ChunkCommitControl,
       ChunkCommitData DEF Chunks, IInv
<1>6. CASE EndTick(p) \/ TickFails(p)
  BY <1>0, <1>6, EndsControl, EndsData DEF IInv
<1> QED
  BY <1>1, <1>2, <1>3, <1>4, <1>5, <1>6 DEF ProjectorStep

LEMMA StepHolds ==
  ASSUME ProjectorAssumption, OneBackend, NoStartCrash, IInv, [Next]_vars
  PROVE  IInv'
<1>0. Control /\ Data
  BY DEF IInv
<1>1. CASE Tick
  BY <1>0, <1>1, TickControl, TickData DEF IInv
<1>2. ASSUME NEW w \in AllWriters, CommitWrite(w) PROVE IInv'
  BY <1>0, <1>2, CommitWriteControl, CommitWriteData DEF IInv
<1>3. ASSUME NEW w \in AllWriters, NEW b \in Blocks, BeginWrite(w, b) PROVE IInv'
  BY <1>0, <1>3, BeginWriteControl, BeginWriteData DEF IInv
<1>4. ASSUME NEW p \in Projectors, ProjectorStep(p) \/ TickFails(p) PROVE IInv'
  BY <1>4, ProjectorStepHolds
<1>5. CASE UNCHANGED vars
  <2>1. Control'
    BY <1>0, <1>5 DEF Control, TypeOK, Clocks, Stage, vars, ingest, progress
  <2>2. Data'
    BY <1>0, <1>5, QuietData DEF vars, ingest, progress
  <2> QED
    BY <2>1, <2>2 DEF IInv
<1> QED
  BY <1>1, <1>2, <1>3, <1>4, <1>5 DEF Next

-----------------------------------------------------------------------------
\* The invariant says what the model's properties say.
LEMMA IInvImplies ==
  ASSUME ProjectorAssumption, IInv
  PROVE  TypeOK /\ FoldedOrDue /\ FloorFollows
<1>1. ASSUME through # None, NEW k \in Keys
      PROVE  /\ folded[k] = Fold(k, through) \/ Due(k)
             /\ folded[k] # Nothing => floor <= CreateBlock(k) \/ Due(k)
  <2>1. folded[k] # Nothing => rows[CreateBlock(k)] > 0
    BY DEF IInv, Data, Unborn, Created
  <2>2. CASE watermark # None
    <3>1. FoldedTo(folded, watermark, through, k) /\ FloorOrSeen(floor, watermark, through, k)
      BY <2>2 DEF IInv, Data, RestInv
    <3>2. SeenAfter(watermark, through, k) => Due(k)
      BY <2>2, ScannedIsStamped DEF Due, DueAfter
    <3> QED
      BY <2>1, <3>1, <3>2, FoldIsHistory
  <2>3. CASE watermark = None
    <3>1. PICK p \in Projectors : pc[p] = "setWatermark"
      BY <1>1, <2>3 DEF IInv, Control, Stage
    <3>2. FoldedTo(folded, now[p], through, k) /\ FloorOrSeen(floor, now[p], through, k)
      BY <3>1 DEF IInv, Data, RestInv
    <3>3. SeenAfter(now[p], through, k) => Due(k)
      BY <2>3, <3>1, ScannedIsStamped DEF Due, DueAfter
    <3> QED
      BY <2>1, <3>2, <3>3, FoldIsHistory
  <2> QED
    BY <2>2, <2>3
<1> QED
  BY <1>1 DEF IInv, Control, FoldedOrDue, FloorFollows

\* The index at rest: what lies at or below the fold point is folded, or due.
LEMMA RestImplies ==
  ASSUME ProjectorAssumption, IInv PROVE NothingForgotten
<1>1. FoldedOrDue
  BY IInvImplies
<1> QED
  BY <1>1 DEF FoldedOrDue, NothingForgotten

\* No step takes the fold point or the watermark back, or the floor up.
LEMMA StepForward ==
  ASSUME ProjectorAssumption, OneBackend, IInv, [Next]_vars
  PROVE  [ForwardStep]_progress
<1>0. /\ Control /\ Blocks \subseteq Nat
      /\ floor # None => floor \in Nat
      /\ through # None => through \in Int
      /\ watermark # None => watermark \in Int
  BY SMT DEF IInv, Control, TypeOK, Blocks, ProjectorAssumption
<1>1. ASSUME NEW p \in Projectors, SetFloor(p) \/ SetThrough(p) \/ SetWatermark(p)
      PROVE  ForwardStep
  BY <1>0, <1>1 DEF Control, Stage, SetFloor, SetThrough, SetWatermark, ForwardStep
<1>2. ASSUME NEW p \in Projectors, LateStart(p) PROVE ForwardStep
  BY <1>0, <1>2, SMT DEF LateStart, ForwardStep
<1>3. ASSUME NEW p \in Projectors, LateFloor(p) PROVE ForwardStep
  <2>1. flr[p] = floor /\ floor # None
    BY <1>0, <1>3 DEF Control, Stage, LateFloor
  <2>2. UNCHANGED <<through, watermark>>
    BY <1>3 DEF LateFloor
  <2>3. floor' <= floor
    BY <1>0, <1>3, <2>1, SMT DEF LateFloor
  <2> QED
    BY <1>0, <2>2, <2>3, SMT DEF ForwardStep
<1>4. ASSUME NEW p \in Projectors, LateWatermark(p) PROVE ForwardStep
  <2>1. now[p] \in Int /\ watermark <= now[p]
    BY <1>0, <1>4, SMT DEF Control, TypeOK, Clocks, LateWatermark
  <2>2. UNCHANGED <<floor, through>> /\ watermark' = now[p]
    BY <1>4 DEF LateWatermark
  <2> QED
    BY <1>0, <2>1, <2>2, SMT DEF ForwardStep
<1>5. ASSUME NEW p \in Projectors, ChunkCommit(p) PROVE ForwardStep
  <2>1. end[p] \in Int /\ thr[p] = through /\ thr[p] < end[p] /\ Started
    <3>1. thr[p] = through /\ thr[p] < end[p] /\ Started /\ end[p] # None
      BY <1>0, <1>5 DEF Control, Stage, ChunkCommit
    <3>2. end[p] \in Blocks
      BY <1>0, <3>1 DEF Control, TypeOK
    <3>3. end[p] \in Int
      BY <3>2, SMT DEF Blocks, ProjectorAssumption
    <3> QED
      BY <3>1, <3>3, Zenon
  <2>2. UNCHANGED <<floor, watermark>> /\ through' = end[p]
    BY <1>5 DEF ChunkCommit
  <2> QED
    BY <1>0, <2>1, <2>2, SMT DEF ForwardStep
<1>6. \/ UNCHANGED progress
      \/ \E p \in Projectors :
           \/ SetFloor(p) \/ SetThrough(p) \/ SetWatermark(p) \/ LateStart(p) \/ LateFloor(p)
           \/ LateWatermark(p) \/ ChunkCommit(p)
  BY Zenon DEF Next, vars, progress, Tick, CommitWrite, BeginWrite, ProjectorStep, BeginTick,
     ReadProgress, Start, DetectFloor, ReadStartClock, LateScan, LateKeys, LateLoad, Load,
     LateCommit, Chunks, Plan, ChunkLoad, EndTick, TickFails
<1> QED
  BY <1>1, <1>2, <1>3, <1>4, <1>5, <1>6

-----------------------------------------------------------------------------
\* With one backend whose first start is not cut short, nothing that is stored is ever
\* forgotten: what the index holds of a key is the fold of its stored operations, or the
\* next late scan comes across the key; and the floor follows the creates down.
THEOREM IndexComplete ==
  ASSUME ProjectorAssumption, OneBackend, NoStartCrash
  PROVE  Spec => [](TypeOK /\ FoldedOrDue /\ FloorFollows /\ NothingForgotten)
<1>1. Init => IInv
  BY InitHolds
<1>2. IInv /\ [Next]_vars => IInv'
  BY StepHolds
<1>3. IInv => TypeOK /\ FoldedOrDue /\ FloorFollows /\ NothingForgotten
  BY IInvImplies, RestImplies
<1> QED
  BY <1>1, <1>2, <1>3, PTL DEF Spec

\* The block the index answers at never runs back, nor the watermark, and the floor only
\* goes down.
THEOREM ProgressOnlyForward ==
  ASSUME ProjectorAssumption, OneBackend, NoStartCrash
  PROVE  Spec => ProgressAdvances
<1>1. Init => IInv
  BY InitHolds
<1>2. IInv /\ [Next]_vars => IInv' /\ [ForwardStep]_progress
  BY StepHolds, StepForward
<1> QED
  BY <1>1, <1>2, PTL DEF Spec, ProgressAdvances
=============================================================================
