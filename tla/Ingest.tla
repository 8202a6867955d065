------------------------------- MODULE Ingest -------------------------------
(***************************************************************************)
(* The three writers that move blocks from the chain into PostgreSQL:      *)
(*                                                                         *)
(*   near  the near-head scanner, optionally with a backfill phase         *)
(*   back  the backfill-only scanner, a container of its own               *)
(*   gap   the gap filler, which re-scans the internal holes it can see    *)
(*                                                                         *)
(* They share nothing but the database: the `blocks' table and the two     *)
(* cursors kept in `scanner_state'.  A block is read from the node first   *)
(* and saved later, in one transaction with the cursor; between the two    *)
(* any other writer, a crash or a chain reorganisation may come.           *)
(*                                                                         *)
(* A row is abstracted to whether it still describes the canonical chain.  *)
(***************************************************************************)
EXTENDS Integers, FiniteSets

CONSTANTS
  None,               \* "no value stored"
  MaxHead,            \* bound: the chain grows to this height
  OldestBlock,        \* SCANNER_OLDEST_BACKFILL_BLOCK
  ConfirmationDepth,  \* SCANNER_CONFIRMATION_DEPTH
  ReorgDepth,         \* environment: how many top blocks a reorg replaces
  NodeLag,            \* environment: how far behind an answering node may be
  NearBackfills,      \* near runs without SCANNER_DISABLE_BACKFILL
  BackfillProcess,    \* a backfill-only scanner runs beside it
  MaxBlocksPerCycle,  \* gap filler: blocks per cycle
  MaxRetries,         \* gap filler: attempts per block and cycle
  MaxCrashes          \* bound: process crashes in a behaviour

ASSUME BoundsAssumption ==
  /\ MaxHead \in Nat /\ OldestBlock \in Nat
  /\ ConfirmationDepth \in Nat /\ ReorgDepth \in Nat /\ NodeLag \in Nat
  /\ MaxBlocksPerCycle \in Nat \ {0} /\ MaxRetries \in Nat \ {0}
  /\ MaxCrashes \in Nat

ASSUME NoneAssumption == None \notin Int

\* Operators choose a confirmation depth no reorg reaches, and run one
\* backfill loop: in the near-head scanner or in its own container.
ASSUME DeploymentAssumption ==
  /\ ReorgDepth <= ConfirmationDepth
  /\ NearBackfills \in BOOLEAN /\ BackfillProcess \in BOOLEAN
  /\ ~(NearBackfills /\ BackfillProcess)

VARIABLES
  head,                 \* chain: height of the canonical head
  blocks,               \* database: row of each block number
  lastSuccessfulBlock,  \* database: scanner_state, forward cursor
  backfillNextBlock,    \* database: scanner_state, backfill cursor
  safeHeadBlock,        \* database: scanner_state, the head /sync reports
  pc, safeHead, next, lowest, fetched,          \* the two scanners' locals
  gapPc, gapTodo, gapAttempt, gapFetched,       \* the gap filler's locals
  recorded,             \* how often each block was counted by the guzzlers
  firstForward,         \* history: the block the forward scan started at
  crashes

chain    == <<head>>
database == <<blocks, lastSuccessfulBlock, backfillNextBlock>>
locals   == <<pc, safeHead, next, lowest, fetched>>
gapVars  == <<gapPc, gapTodo, gapAttempt, gapFetched>>
vars == <<head, blocks, lastSuccessfulBlock, backfillNextBlock, safeHeadBlock,
          pc, safeHead, next, lowest, fetched,
          gapPc, gapTodo, gapAttempt, gapFetched,
          recorded, firstForward, crashes>>

Blocks == 0..MaxHead
Procs  == {"near", "back"}
Rows   == {"canonical", "orphaned"}
ScannerPCs == {"top", "planBackfill", "backfillFetch", "backfillSave",
               "forwardHead", "planForward", "forwardFetch", "forwardSave",
               "record"}

Stored == {b \in Blocks : blocks[b] # "missing"}

\* findBlockGaps: the absent numbers between two stored ones; what lies below
\* the lowest or above the highest stored block is not reported.
Gaps == {b \in Blocks \ Stored : \E lo, hi \in Stored : lo < b /\ b < hi}

\* expandGaps: the first MaxBlocksPerCycle of them, ascending.
FirstGaps ==
  {b \in Gaps : Cardinality({c \in Gaps : c < b}) < MaxBlocksPerCycle}

\* The block of the cycle's list the gap filler is working on.
IsNextGap(b) == b \in gapTodo /\ \A c \in gapTodo : b <= c

\* Mutant of computeSafeHead: one confirmation too few.
ShallowSafeHead(latest) ==
  IF latest > ConfirmationDepth THEN latest - ConfirmationDepth + 1 ELSE 0

computeSafeHead(latest) ==
  IF latest > ConfirmationDepth THEN latest - ConfirmationDepth ELSE 0

-----------------------------------------------------------------------------
Init ==
  /\ head \in Blocks
  /\ blocks = [b \in Blocks |-> "missing"]
  /\ lastSuccessfulBlock = None
  /\ backfillNextBlock = None
  /\ safeHeadBlock = None
  /\ pc = [p \in Procs |-> "top"]
  /\ safeHead = [p \in Procs |-> 0]
  /\ next = [p \in Procs |-> 0]
  /\ lowest = [p \in Procs |-> None]
  /\ fetched = [p \in Procs |-> "missing"]
  /\ gapPc = "idle"
  /\ gapTodo = {}
  /\ gapAttempt = 1
  /\ gapFetched = "missing"
  /\ recorded = [b \in Blocks |-> 0]
  /\ firstForward = None
  /\ crashes = 0

-----------------------------------------------------------------------------
(* The chain (external). *)

NewBlock ==
  /\ head < MaxHead
  /\ head' = head + 1
  /\ UNCHANGED <<database, safeHeadBlock, locals, gapVars, recorded,
                 firstForward, crashes>>

\* Would a reorg now replace block b?  Never the genesis block.
Replaced(b) == b > 0 /\ b > head - ReorgDepth

Stale(row, b) == IF row = "canonical" /\ Replaced(b) THEN "orphaned" ELSE row

\* The top ReorgDepth blocks are replaced: what was read or stored of them
\* describes an abandoned branch.
Reorg ==
  /\ ReorgDepth > 0
  /\ blocks' = [b \in Blocks |-> Stale(blocks[b], b)]
  /\ fetched' = [p \in Procs |-> Stale(fetched[p], next[p])]
  /\ gapFetched' = IF \E b \in gapTodo : IsNextGap(b) /\ Replaced(b)
                      /\ gapFetched = "canonical"
                   THEN "orphaned" ELSE gapFetched
  /\ UNCHANGED <<head, lastSuccessfulBlock, backfillNextBlock, safeHeadBlock,
                 pc, safeHead, next, lowest, gapPc, gapTodo, gapAttempt,
                 recorded, firstForward, crashes>>

-----------------------------------------------------------------------------
(* Steps of the two scanners. *)

\* readSafeHeadWithRetry: the answering node may lag; the head is stored for
\* /sync, best effort.
ReadSafeHead(p, to) ==
  /\ \E latest \in Blocks :
       /\ head - NodeLag <= latest /\ latest <= head
       /\ safeHead' = [safeHead EXCEPT ![p] = computeSafeHead(latest)]
       /\ safeHeadBlock' \in {safeHeadBlock, computeSafeHead(latest)}
  /\ pc' = [pc EXCEPT ![p] = to]
  /\ UNCHANGED <<chain, database, next, lowest, fetched, gapVars, recorded,
                 firstForward, crashes>>

\* Which scanners have a backfill phase.
Backfills(p) == IF p = "near" THEN NearBackfills ELSE BackfillProcess

StartBackfill(p) ==
  /\ pc[p] = "top" /\ Backfills(p)
  /\ ReadSafeHead(p, "planBackfill")

AfterBackfill(p) == IF p = "near" THEN "forwardHead" ELSE "top"

\* Mutants of PlanBackfill: the stored cursor is ignored; the oldest block is
\* left out; one block too many is scanned.
PlanBackfillWith(p, from, enough) ==
  /\ pc[p] = "planBackfill"
  /\ next' = [next EXCEPT ![p] = from]
  /\ lowest' = [lowest EXCEPT ![p] = None]
  /\ pc' = [pc EXCEPT ![p] = IF enough THEN "backfillFetch"
                             ELSE IF p = "near" THEN "forwardHead" ELSE "top"]
  /\ UNCHANGED <<chain, database, safeHeadBlock, safeHead, fetched, gapVars,
                 recorded, firstForward, crashes>>
ResumePoint(p) ==
  IF backfillNextBlock = None \/ backfillNextBlock > safeHead[p]
  THEN safeHead[p] ELSE backfillNextBlock
RestartingBackfill(p) ==
  PlanBackfillWith(p, safeHead[p], safeHead[p] >= OldestBlock)
ExclusiveBackfill(p) ==
  PlanBackfillWith(p, ResumePoint(p), ResumePoint(p) > OldestBlock)
OverrunningBackfill(p) ==
  PlanBackfillWith(p, ResumePoint(p), ResumePoint(p) >= OldestBlock - 1)

\* backfillDownForSlice, up to its loop: the cursor is read once; a cursor
\* above the safe head of this moment starts over from the safe head.
PlanBackfill(p) ==
  /\ pc[p] = "planBackfill"
  /\ next' = [next EXCEPT ![p] =
       IF backfillNextBlock = None THEN safeHead[p]
       ELSE IF backfillNextBlock > safeHead[p] THEN safeHead[p]
       ELSE backfillNextBlock]
  /\ lowest' = [lowest EXCEPT ![p] = None]
  /\ pc' = [pc EXCEPT ![p] = IF next'[p] >= OldestBlock THEN "backfillFetch"
                             ELSE AfterBackfill(p)]
  /\ UNCHANGED <<chain, database, safeHeadBlock, safeHead, fetched, gapVars,
                 recorded, firstForward, crashes>>

\* scanOneBlock up to the transaction: block, previous block, receipts,
\* decoded operations, balances.  A failure anywhere retries from the start.
Fetch(p, from, to) ==
  /\ pc[p] = from
  /\ fetched' = [fetched EXCEPT ![p] = "canonical"]
  /\ pc' = [pc EXCEPT ![p] = to]
  /\ UNCHANGED <<chain, database, safeHeadBlock, safeHead, next, lowest,
                 gapVars, recorded, firstForward, crashes>>

BackfillFetch(p) == Fetch(p, "backfillFetch", "backfillSave")
ForwardFetch(p)  == Fetch(p, "forwardFetch", "forwardSave")

\* saveBlockMetrics: the row (an upsert) and the cursor in one transaction.
SaveBlock(b, row) == blocks' = [blocks EXCEPT ![b] = row]

\* A slice continues while blocks are left and its 20 seconds are not over;
\* the deadline is read between blocks, so any number of blocks may pass.
BackfillCommit(p) ==
  /\ pc[p] = "backfillSave"
  /\ SaveBlock(next[p], fetched[p])
  /\ backfillNextBlock' = next[p] - 1
  /\ lowest' = [lowest EXCEPT ![p] = next[p]]
  /\ next' = [next EXCEPT ![p] = next[p] - 1]
  /\ \/ /\ next[p] - 1 >= OldestBlock
        /\ pc' = [pc EXCEPT ![p] = "backfillFetch"]
     \/ pc' = [pc EXCEPT ![p] = AfterBackfill(p)]
  /\ fetched' = [fetched EXCEPT ![p] = "missing"]
  /\ UNCHANGED <<chain, lastSuccessfulBlock, safeHeadBlock, safeHead, gapVars,
                 recorded, firstForward, crashes>>

StartForward(p) ==
  /\ p = "near"
  /\ \/ pc[p] = "forwardHead"
     \/ pc[p] = "top" /\ ~Backfills(p)
  /\ ReadSafeHead(p, "planForward")

\* Mutant of PlanForward: a scanner that fell behind jumps to the head.
SkippingForward(p) ==
  /\ pc[p] = "planForward"
  /\ next' = [next EXCEPT ![p] = safeHead[p]]
  /\ pc' = [pc EXCEPT ![p] = "forwardFetch"]
  /\ UNCHANGED <<chain, database, safeHeadBlock, safeHead, lowest, fetched,
                 gapVars, recorded, firstForward, crashes>>

\* scanForwardToSafeHead, up to its loop: resume behind the cursor, or on a
\* cold start at the lowest block this slice filled, else at the safe head.
PlanForward(p) ==
  /\ pc[p] = "planForward"
  /\ next' = [next EXCEPT ![p] =
       IF lastSuccessfulBlock # None THEN lastSuccessfulBlock + 1
       ELSE IF lowest[p] # None THEN lowest[p] ELSE safeHead[p]]
  /\ pc' = [pc EXCEPT ![p] = IF next'[p] <= safeHead[p] THEN "forwardFetch"
                             ELSE "top"]
  /\ UNCHANGED <<chain, database, safeHeadBlock, safeHead, lowest, fetched,
                 gapVars, recorded, firstForward, crashes>>

ForwardCommit(p) ==
  /\ pc[p] = "forwardSave"
  /\ SaveBlock(next[p], fetched[p])
  /\ lastSuccessfulBlock' = next[p]
  /\ firstForward' = IF firstForward = None THEN next[p] ELSE firstForward
  /\ pc' = [pc EXCEPT ![p] = "record"]
  /\ fetched' = [fetched EXCEPT ![p] = "missing"]
  /\ UNCHANGED <<chain, backfillNextBlock, safeHeadBlock, safeHead, next,
                 lowest, gapVars, recorded, crashes>>

\* recordGuzzlerTransactions, after the commit; its errors are swallowed.
RecordGuzzlers(p) ==
  /\ pc[p] = "record"
  /\ recorded' \in {recorded, [recorded EXCEPT ![next[p]] = @ + 1]}
  /\ next' = [next EXCEPT ![p] = next[p] + 1]
  /\ pc' = [pc EXCEPT ![p] = IF next'[p] <= safeHead[p] THEN "forwardFetch"
                             ELSE "top"]
  /\ UNCHANGED <<chain, database, safeHeadBlock, safeHead, lowest, fetched,
                 gapVars, firstForward, crashes>>

\* Mutant of BackfillSaveFails: the cursor is written outside the transaction
\* and survives its failure.
CursorOutlivesRollback(p) ==
  /\ pc[p] = "backfillSave"
  /\ backfillNextBlock' = next[p] - 1
  /\ pc' = [pc EXCEPT ![p] = "backfillFetch"]
  /\ fetched' = [fetched EXCEPT ![p] = "missing"]
  /\ UNCHANGED <<chain, blocks, lastSuccessfulBlock, safeHeadBlock, safeHead,
                 next, lowest, gapVars, recorded, firstForward, crashes>>

\* Mutant of ForwardSaveFails: a block is counted on every attempt.
CountEveryAttempt(p) ==
  /\ pc[p] = "forwardSave"
  /\ recorded' = [recorded EXCEPT ![next[p]] = @ + 1]
  /\ pc' = [pc EXCEPT ![p] = "forwardFetch"]
  /\ fetched' = [fetched EXCEPT ![p] = "missing"]
  /\ UNCHANGED <<chain, database, safeHeadBlock, safeHead, next, lowest,
                 gapVars, firstForward, crashes>>

\* The transaction fails, or its commit succeeds but the answer is lost:
\* scanBlockWithRetry reads and saves the same block again either way.
BackfillSaveFails(p) ==
  /\ pc[p] = "backfillSave"
  /\ \/ UNCHANGED <<blocks, backfillNextBlock>>
     \/ /\ SaveBlock(next[p], fetched[p])
        /\ backfillNextBlock' = next[p] - 1
  /\ pc' = [pc EXCEPT ![p] = "backfillFetch"]
  /\ fetched' = [fetched EXCEPT ![p] = "missing"]
  /\ UNCHANGED <<chain, lastSuccessfulBlock, safeHeadBlock, safeHead, next,
                 lowest, gapVars, recorded, firstForward, crashes>>

ForwardSaveFails(p) ==
  /\ pc[p] = "forwardSave"
  /\ \/ UNCHANGED <<blocks, lastSuccessfulBlock, firstForward>>
     \/ /\ SaveBlock(next[p], fetched[p])
        /\ lastSuccessfulBlock' = next[p]
        /\ firstForward' = IF firstForward = None THEN next[p]
                           ELSE firstForward
  /\ pc' = [pc EXCEPT ![p] = "forwardFetch"]
  /\ fetched' = [fetched EXCEPT ![p] = "missing"]
  /\ UNCHANGED <<chain, backfillNextBlock, safeHeadBlock, safeHead, next,
                 lowest, gapVars, recorded, crashes>>

\* The process dies and its container restarts it: only the database is left.
Crash(p) ==
  /\ crashes < MaxCrashes
  /\ crashes' = crashes + 1
  /\ pc' = [pc EXCEPT ![p] = "top"]
  /\ safeHead' = [safeHead EXCEPT ![p] = 0]
  /\ next' = [next EXCEPT ![p] = 0]
  /\ lowest' = [lowest EXCEPT ![p] = None]
  /\ fetched' = [fetched EXCEPT ![p] = "missing"]
  /\ UNCHANGED <<chain, database, safeHeadBlock, gapVars, recorded,
                 firstForward>>

-----------------------------------------------------------------------------
(* Steps of the gap filler. *)

\* runCycle: list the gaps once, then work the list off.
FindGaps ==
  /\ gapPc = "idle" /\ Gaps # {}
  /\ gapTodo' = FirstGaps
  /\ gapAttempt' = 1
  /\ gapPc' = "fetch"
  /\ UNCHANGED <<chain, database, safeHeadBlock, locals, gapFetched, recorded,
                 firstForward, crashes>>

GapFetch ==
  /\ gapPc = "fetch"
  /\ gapFetched' = "canonical"
  /\ gapPc' = "save"
  /\ UNCHANGED <<chain, database, safeHeadBlock, locals, gapTodo, gapAttempt,
                 recorded, firstForward, crashes>>

\* On to the next block of the list, or to the end of the cycle.
Advance(b) ==
  /\ gapTodo' = gapTodo \ {b}
  /\ gapAttempt' = 1
  /\ gapPc' = IF gapTodo' = {} THEN "idle" ELSE "fetch"

\* saveBlockMetrics with progress kind "none": no cursor moves.
GapCommit ==
  /\ gapPc = "save"
  /\ \E b \in Blocks : IsNextGap(b) /\ SaveBlock(b, gapFetched) /\ Advance(b)
  /\ gapFetched' = "missing"
  /\ UNCHANGED <<chain, lastSuccessfulBlock, backfillNextBlock, safeHeadBlock,
                 locals, recorded, firstForward, crashes>>

\* An attempt fails while reading or saving (possibly after its commit): it is
\* repeated up to MaxRetries times, then the block is left for a later cycle.
GapAttemptFails ==
  /\ gapPc \in {"fetch", "save"}
  /\ \E b \in Blocks :
       /\ IsNextGap(b)
       /\ \/ UNCHANGED blocks
          \/ gapPc = "save" /\ SaveBlock(b, gapFetched)
       /\ \/ /\ gapAttempt < MaxRetries
             /\ gapAttempt' = gapAttempt + 1
             /\ gapPc' = "fetch"
             /\ UNCHANGED gapTodo
          \/ gapAttempt >= MaxRetries /\ Advance(b)
  /\ gapFetched' = "missing"
  /\ UNCHANGED <<chain, lastSuccessfulBlock, backfillNextBlock, safeHeadBlock,
                 locals, recorded, firstForward, crashes>>

\* Killed, or stopped by a signal between two blocks.
GapCrash ==
  /\ gapPc # "idle"
  /\ crashes < MaxCrashes
  /\ crashes' = crashes + 1
  /\ gapPc' = "idle" /\ gapTodo' = {} /\ gapAttempt' = 1
  /\ gapFetched' = "missing"
  /\ UNCHANGED <<chain, database, safeHeadBlock, locals, recorded,
                 firstForward>>

-----------------------------------------------------------------------------
ScannerStep(p) ==
  \/ StartBackfill(p) \/ PlanBackfill(p) \/ BackfillFetch(p)
  \/ StartForward(p) \/ PlanForward(p) \/ ForwardFetch(p) \/ RecordGuzzlers(p)

Next ==
  \/ NewBlock \/ Reorg
  \/ \E p \in Procs :
       \/ StartBackfill(p) \/ PlanBackfill(p) \/ BackfillFetch(p)
       \/ BackfillCommit(p) \/ BackfillSaveFails(p)
       \/ StartForward(p) \/ PlanForward(p) \/ ForwardFetch(p)
       \/ ForwardCommit(p) \/ ForwardSaveFails(p) \/ RecordGuzzlers(p)
       \/ Crash(p)
  \/ FindGaps \/ GapFetch \/ GapCommit \/ GapAttemptFails \/ GapCrash

Spec == Init /\ [][Next]_vars

\* The loops keep running, and a transaction that is tried again and again
\* commits in the end: every loop retries a failed block for ever.
Fairness ==
  /\ \A p \in Procs : /\ WF_vars(ScannerStep(p))
                      /\ SF_vars(BackfillCommit(p))
                      /\ SF_vars(ForwardCommit(p))
  /\ WF_vars(FindGaps) /\ SF_vars(GapFetch) /\ SF_vars(GapCommit)

FairSpec == Spec /\ Fairness

-----------------------------------------------------------------------------
\* The canonical rows as a set, and what the tables promise (IndexedChain).
Chain == INSTANCE IndexedChain WITH
  height <- head,
  indexed <- {b \in Blocks : blocks[b] = "canonical"},
  forward <- lastSuccessfulBlock,
  backfill <- backfillNextBlock,
  Confirmations <- ConfirmationDepth,
  Oldest <- OldestBlock

-----------------------------------------------------------------------------
\* Types of the variables.
TypeOK ==
  /\ head \in Blocks
  /\ blocks \in [Blocks -> Rows \cup {"missing"}]
  /\ lastSuccessfulBlock \in Blocks \cup {None}
  /\ backfillNextBlock \in (-1)..MaxHead \cup {None}
  /\ safeHeadBlock \in Blocks \cup {None}
  /\ pc \in [Procs -> ScannerPCs]
  /\ safeHead \in [Procs -> Blocks]
  /\ next \in [Procs -> (-1)..(MaxHead + 1)]
  /\ lowest \in [Procs -> Blocks \cup {None}]
  /\ fetched \in [Procs -> Rows \cup {"missing"}]
  /\ gapPc \in {"idle", "fetch", "save"}
  /\ gapTodo \subseteq Blocks
  /\ gapAttempt \in 1..MaxRetries
  /\ gapFetched \in Rows \cup {"missing"}
  /\ recorded \in [Blocks -> Nat]
  /\ firstForward \in Blocks \cup {None}
  /\ crashes \in 0..MaxCrashes

\* "We never silently skip blocks near the head": everything between the
\* block the forward scan once started at and its cursor is stored, whatever
\* crashed, failed or was retried in between.
ForwardContiguous ==
  lastSuccessfulBlock # None =>
    /\ firstForward # None
    /\ firstForward <= lastSuccessfulBlock
    /\ firstForward..lastSuccessfulBlock \subseteq Stored

\* No row of the database describes an abandoned branch of the chain: the
\* scanners never check a parent hash, the confirmation depth alone has to
\* keep every block they read out of a reorg's reach.
StoredIsFinal == \A b \in Blocks : blocks[b] # "orphaned"

\* No block is lost: above the backfill cursor and below the forward cursor
\* a block is stored or lies in a hole that findBlockGaps reports, however
\* the backfill restarted, was reset by a lagging node or missed the start
\* of the forward scan.
NoLostBlock ==
  lastSuccessfulBlock # None /\ backfillNextBlock # None =>
    \A b \in Blocks :
      backfillNextBlock < b /\ b <= lastSuccessfulBlock =>
        b \in Stored \cup Gaps

\* The guzzler buckets count no block twice, although a block is saved again
\* after a lost commit answer, a cold start over backfilled blocks or a gap
\* fill.
RecordedAtMostOnce == \A b \in Blocks : recorded[b] <= 1

\* The cursors never run back and no stored row disappears: the forward
\* cursor moves one block at a time, the backfill cursor only down.
AdvancingStep ==
  /\ Stored \subseteq Stored'
  /\ lastSuccessfulBlock # None =>
       lastSuccessfulBlock' \in {lastSuccessfulBlock, lastSuccessfulBlock + 1}
  /\ backfillNextBlock # None => backfillNextBlock' <= backfillNextBlock

CursorsAdvance == [][AdvancingStep]_database

\* Three writers that know nothing of each other keep the promise of one
\* indexed chain: a reader never loses a block, never gets one that is not
\* final, and a cursor moves only together with its block, whoever crashes,
\* repeats a block or works off an old list of gaps.
ImplementsIndexedChain == Chain!Spec

\* With a backfill configured, every block from OldestBlock on is stored once
\* it is deep enough for every node to report it as safe.
EventuallyStored ==
  \A b \in OldestBlock..(MaxHead - ConfirmationDepth - NodeLag) :
    (head >= b + ConfirmationDepth + NodeLag) ~> (b \in Stored)
=============================================================================
