------------------------- MODULE Background_proofs -------------------------
(***************************************************************************)
(* Proofs about the loops that work without a request, for every constant: *)
(* the scanner, the range aggregator, the precomputed response and the     *)
(* pool of keys.  None of their properties is inductive by itself; each    *)
(* section says what its inductive invariant adds.                         *)
(***************************************************************************)
EXTENDS Background, FiniteSetTheorems, FunctionTheorems, SequenceTheorems,
        WellFoundedInduction, TLAPS

-----------------------------------------------------------------------------
(* The scanner, for every chain length, confirmation depth and deployment. *)
(* IInv adds what the two scanners' locals promise about the database      *)
(* between the read of a cursor and the transaction that moves it: the     *)
(* block in hand is final, the forward scanner's is the cursor or its      *)
(* successor, the backfill's is not above its cursor's successor.          *)

\* No reorg reaches block b any more.
Final(b) == b = 0 \/ b <= head - ConfirmationDepth

BackfillPCs == {"backfillFetch", "backfillSave"}
ForwardPCs  == {"forwardFetch", "forwardSave", "record"}
SavePCs     == {"backfillSave", "forwardSave"}

\* What is stored is final and canonical.
FinalInv ==
  /\ \A b \in Blocks : blocks[b] # "missing" => Final(b)
  /\ \A b \in Blocks : blocks[b] # "orphaned"

\* What the scanners hold in memory.
LocalInv ==
  \A p \in Procs :
    /\ Final(safeHead[p])
    /\ fetched[p] = IF pc[p] \in SavePCs THEN "canonical" ELSE "missing"
    /\ pc[p] \in BackfillPCs => Backfills(p) /\ OldestBlock <= next[p]
    /\ pc[p] \in BackfillPCs \cup ForwardPCs => 0 <= next[p] /\ next[p] <= safeHead[p]
    /\ pc[p] = "planBackfill" => Backfills(p)
    /\ pc[p] \in ForwardPCs \cup {"forwardHead", "planForward"} => p = "near"

\* The gap filler only works on final blocks.
GapInv ==
  /\ \A b \in gapTodo : Final(b)
  /\ gapFetched = IF gapPc = "save" THEN "canonical" ELSE "missing"

\* The forward cursor, the block in hand and the stored run behind them.
ForwardInv ==
  /\ (lastSuccessfulBlock = None) <=> (firstForward = None)
  /\ ForwardContiguous
  /\ pc["near"] \in {"forwardFetch", "forwardSave"} /\ lastSuccessfulBlock # None =>
       next["near"] \in {lastSuccessfulBlock, lastSuccessfulBlock + 1}
  /\ pc["near"] = "record" => next["near"] = lastSuccessfulBlock

\* The backfill cursor points just below a stored block.
BackfillInv ==
  backfillNextBlock # None =>
    /\ backfillNextBlock + 1 \in Stored
    /\ \A p \in Procs :
         pc[p] \in BackfillPCs => next[p] <= backfillNextBlock + 1

\* Blocks the forward scan has yet to record were not recorded.
RecordInv ==
  /\ RecordedAtMostOnce
  /\ \A b \in Blocks : lastSuccessfulBlock = None => recorded[b] = 0
  /\ \A b \in Blocks : lastSuccessfulBlock # None /\ b > lastSuccessfulBlock
                         => recorded[b] = 0
  /\ pc["near"] \in ForwardPCs => recorded[next["near"]] = 0

IInv == TypeOK /\ FinalInv /\ LocalInv /\ GapInv /\ ForwardInv /\ BackfillInv
        /\ RecordInv

-----------------------------------------------------------------------------
(* Facts several steps use. *)

\* Saving a row adds its number to the stored ones and nothing else.
LEMMA SaveBlockStored ==
  ASSUME TypeOK, NEW b \in Blocks, NEW row \in Rows, SaveBlock(b, row)
  PROVE  /\ blocks' \in [Blocks -> Rows \cup {"missing"}]
         /\ Stored' = Stored \cup {b}
  BY DEF TypeOK, SaveBlock, Stored, Rows

\* Saving a canonical, final row keeps the stored rows canonical and final.
LEMMA SaveBlockFinal ==
  ASSUME TypeOK, FinalInv, NEW b \in Blocks, Final(b), UNCHANGED head,
         SaveBlock(b, "canonical")
  PROVE  FinalInv'
  BY DEF TypeOK, SaveBlock, FinalInv, Final

\* The block a scanner has in hand is a final one.
LEMMA BlockInHand ==
  ASSUME IInv, NEW p \in Procs, pc[p] \in BackfillPCs \cup ForwardPCs
  PROVE  next[p] \in Blocks /\ Final(next[p]) /\ next[p] <= safeHead[p]
<1>1. /\ Final(safeHead[p]) /\ 0 <= next[p] /\ next[p] <= safeHead[p]
      /\ safeHead[p] \in Blocks /\ next[p] \in Int
  BY BoundsAssumption DEF IInv, LocalInv, TypeOK, Blocks
<1> QED
  BY <1>1, BoundsAssumption DEF Final, Blocks, IInv, TypeOK

\* So is the block the gap filler has in hand.
LEMMA GapInHand ==
  ASSUME IInv, NEW b \in Blocks, IsNextGap(b)
  PROVE  Final(b)
  BY DEF IInv, GapInv, IsNextGap

\* The forward cursor stands on a stored block.
LEMMA CursorStored ==
  ASSUME IInv, lastSuccessfulBlock # None
  PROVE  /\ firstForward \in Blocks /\ lastSuccessfulBlock \in Blocks
         /\ lastSuccessfulBlock \in Stored
<1>1. /\ firstForward \in Blocks /\ lastSuccessfulBlock \in Blocks
      /\ firstForward <= lastSuccessfulBlock
      /\ firstForward..lastSuccessfulBlock \subseteq Stored
  BY DEF IInv, ForwardInv, ForwardContiguous, TypeOK
<1> QED
  BY <1>1 DEF Blocks

\* The forward run and the backfill cursor survive what only adds rows.
LEMMA ForwardFrame ==
  ASSUME IInv, Stored \subseteq Stored',
         UNCHANGED <<lastSuccessfulBlock, firstForward, pc["near"], next["near"]>>
  PROVE  ForwardInv'
  BY DEF IInv, ForwardInv, ForwardContiguous

\* The backfill cursor survives a step that adds rows and starts no backfill.
LEMMA BackfillFrame ==
  ASSUME IInv, Stored \subseteq Stored', UNCHANGED backfillNextBlock,
         \A p \in Procs : pc'[p] \in BackfillPCs =>
                            pc[p] \in BackfillPCs /\ next'[p] = next[p]
  PROVE  BackfillInv'
  BY DEF IInv, BackfillInv

-----------------------------------------------------------------------------
\* The inductive invariant holds of an empty database.
LEMMA InitIInv == Init => IInv
<1> SUFFICES ASSUME Init PROVE IInv
  OBVIOUS
<1> USE BoundsAssumption, NoneAssumption, DeploymentAssumption
<1>1. TypeOK
  BY DEF Init, TypeOK, Blocks, Procs, Rows, ScannerPCs
<1>2. FinalInv /\ LocalInv /\ GapInv /\ ForwardInv /\ BackfillInv /\ RecordInv
  BY DEF Init, FinalInv, LocalInv, GapInv, ForwardInv, BackfillInv, RecordInv,
         Final, SavePCs, BackfillPCs, ForwardPCs, ForwardContiguous, Procs,
         RecordedAtMostOnce
<1> QED
  BY <1>1, <1>2 DEF IInv

-----------------------------------------------------------------------------
(* One lemma per action. *)

\* A new head makes no final block less final.
LEMMA NewBlockStep ==
  ASSUME IInv, NewBlock
  PROVE  IInv'
<1> USE BoundsAssumption, NoneAssumption, DeploymentAssumption
<1> USE DEF IInv, Blocks, Procs, Rows, ScannerPCs, chain, database, locals, gapVars
<1>1. TypeOK'
  BY DEF NewBlock, TypeOK
<1>2. FinalInv'
  BY DEF NewBlock, TypeOK, FinalInv, Final, LocalInv, Backfills, SavePCs,
         BackfillPCs, ForwardPCs, GapInv
<1>3. LocalInv'
  BY DEF NewBlock, TypeOK, LocalInv, Final, Backfills, SavePCs, BackfillPCs,
         ForwardPCs
<1>4. GapInv'
  BY DEF NewBlock, TypeOK, GapInv, Final, FinalInv
<1>5. ForwardInv'
  BY DEF NewBlock, TypeOK, ForwardInv, ForwardContiguous, Stored, LocalInv,
         Final, Backfills, SavePCs, BackfillPCs, ForwardPCs
<1>6. BackfillInv'
  BY DEF NewBlock, TypeOK, BackfillInv, Stored, BackfillPCs, LocalInv, Final,
         Backfills, SavePCs, ForwardPCs
<1>7. RecordInv'
  BY DEF NewBlock, TypeOK, RecordInv, RecordedAtMostOnce, ForwardPCs,
         LocalInv, Final, Backfills, SavePCs, BackfillPCs, ForwardInv,
         ForwardContiguous, Stored
<1> QED
  BY <1>1, <1>2, <1>3, <1>4, <1>5, <1>6, <1>7

\* A reorg replaces only blocks nobody has read: they are not final.
LEMMA ReorgStep ==
  ASSUME IInv, Reorg
  PROVE  IInv'
<1> USE BoundsAssumption, NoneAssumption, DeploymentAssumption
<1> USE DEF IInv, Blocks, Procs, Rows, ScannerPCs, chain, database, locals, gapVars
<1>1. TypeOK'
  BY DEF Reorg, Replaced, Stale, IsNextGap, TypeOK
<1>2. FinalInv'
  BY DEF Reorg, Replaced, Stale, IsNextGap, TypeOK, FinalInv, Final,
         LocalInv, Backfills, SavePCs, BackfillPCs, ForwardPCs, GapInv
<1>3. LocalInv'
  BY DEF Reorg, Replaced, Stale, IsNextGap, TypeOK, LocalInv, Final,
         Backfills, SavePCs, BackfillPCs, ForwardPCs
<1>4. GapInv'
  BY DEF Reorg, Replaced, Stale, IsNextGap, TypeOK, GapInv, Final, FinalInv
<1>5. ForwardInv'
  BY DEF Reorg, Replaced, Stale, IsNextGap, TypeOK, ForwardInv,
         ForwardContiguous, Stored, LocalInv, Final, Backfills, SavePCs,
         BackfillPCs, ForwardPCs
<1>6. BackfillInv'
  BY DEF Reorg, Replaced, Stale, IsNextGap, TypeOK, BackfillInv, Stored,
         BackfillPCs, LocalInv, Final, Backfills, SavePCs, ForwardPCs
<1>7. RecordInv'
  BY DEF Reorg, Replaced, Stale, IsNextGap, TypeOK, RecordInv,
         RecordedAtMostOnce, ForwardPCs, LocalInv, Final, Backfills, SavePCs,
         BackfillPCs, ForwardInv, ForwardContiguous, Stored
<1> QED
  BY <1>1, <1>2, <1>3, <1>4, <1>5, <1>6, <1>7

\* Reading the head yields a final safe head.
LEMMA StartBackfillStep ==
  ASSUME IInv, NEW p \in Procs, StartBackfill(p)
  PROVE  IInv'
<1> USE BoundsAssumption, NoneAssumption, DeploymentAssumption
<1> USE DEF IInv, Blocks, Procs, Rows, ScannerPCs, chain, database, locals, gapVars
<1>1. TypeOK'
  BY DEF StartBackfill, ReadSafeHead, computeSafeHead, TypeOK
<1>2. FinalInv'
  BY DEF StartBackfill, ReadSafeHead, computeSafeHead, TypeOK, FinalInv,
         Final, LocalInv, Backfills, SavePCs, BackfillPCs, ForwardPCs, GapInv
<1>3. LocalInv'
  BY DEF StartBackfill, ReadSafeHead, computeSafeHead, TypeOK, LocalInv,
         Final, Backfills, SavePCs, BackfillPCs, ForwardPCs
<1>4. GapInv'
  BY DEF StartBackfill, ReadSafeHead, computeSafeHead, TypeOK, GapInv, Final,
         FinalInv
<1>5. ForwardInv'
  BY DEF StartBackfill, ReadSafeHead, computeSafeHead, TypeOK, ForwardInv,
         ForwardContiguous, Stored, LocalInv, Final, Backfills, SavePCs,
         BackfillPCs, ForwardPCs
<1>6. BackfillInv'
  BY DEF StartBackfill, ReadSafeHead, computeSafeHead, TypeOK, BackfillInv,
         Stored, BackfillPCs, LocalInv, Final, Backfills, SavePCs, ForwardPCs
<1>7. RecordInv'
  BY DEF StartBackfill, ReadSafeHead, computeSafeHead, TypeOK, RecordInv,
         RecordedAtMostOnce, ForwardPCs, LocalInv, Final, Backfills, SavePCs,
         BackfillPCs, ForwardInv, ForwardContiguous, Stored
<1> QED
  BY <1>1, <1>2, <1>3, <1>4, <1>5, <1>6, <1>7

\* The clamp to the safe head keeps the backfill on final blocks.
LEMMA PlanBackfillStep ==
  ASSUME IInv, NEW p \in Procs, PlanBackfill(p)
  PROVE  IInv'
<1> USE BoundsAssumption, NoneAssumption, DeploymentAssumption
<1> USE DEF IInv, Blocks, Procs, Rows, ScannerPCs, chain, database, locals, gapVars
<1>1. TypeOK'
  <2>1. next' \in [Procs -> (-1)..(MaxHead + 1)]
    BY DEF PlanBackfill, TypeOK
  <2>2. pc' \in [Procs -> ScannerPCs]
    BY DEF PlanBackfill, AfterBackfill, TypeOK
  <2> QED
    BY <2>1, <2>2 DEF PlanBackfill, TypeOK
<1>2. FinalInv'
  BY DEF PlanBackfill, AfterBackfill, TypeOK, FinalInv, Final, LocalInv,
         Backfills, SavePCs, BackfillPCs, ForwardPCs, GapInv
<1>3. LocalInv'
  <2> SUFFICES ASSUME NEW q \in Procs
               PROVE  /\ Final(safeHead[q])'
                      /\ (fetched[q] = IF pc[q] \in SavePCs THEN "canonical" ELSE "missing")'
                      /\ (pc[q] \in BackfillPCs => Backfills(q) /\ OldestBlock <= next[q])'
                      /\ (pc[q] \in BackfillPCs \cup ForwardPCs =>
                            0 <= next[q] /\ next[q] <= safeHead[q])'
                      /\ (pc[q] = "planBackfill" => Backfills(q))'
                      /\ (pc[q] \in ForwardPCs \cup {"forwardHead", "planForward"}
                            => q = "near")'
    BY Zenon DEF LocalInv
  <2>1. CASE q = p
    <3>1. Backfills(p) /\ safeHead[p] \in Blocks /\ Final(safeHead[p])
      BY DEF PlanBackfill, LocalInv, TypeOK
    <3>2. fetched[p] = "missing"
      BY DEF PlanBackfill, LocalInv, SavePCs
    <3>3. next'[p] \in Int /\ next'[p] <= safeHead[p]
      BY <3>1 DEF PlanBackfill, TypeOK
    <3>4. pc'[p] = IF next'[p] >= OldestBlock THEN "backfillFetch"
                   ELSE AfterBackfill(p)
      BY DEF PlanBackfill, TypeOK
    <3>5. safeHead' = safeHead /\ head' = head /\ fetched' = fetched
      BY DEF PlanBackfill
    <3> QED
      BY <2>1, <3>1, <3>2, <3>3, <3>4, <3>5
         DEF Final, Backfills, AfterBackfill, SavePCs, BackfillPCs, ForwardPCs
  <2>2. CASE q # p
    BY <2>2 DEF PlanBackfill, TypeOK, LocalInv, Final, Backfills
  <2> QED
    BY <2>1, <2>2
<1>4. GapInv'
  BY DEF PlanBackfill, AfterBackfill, TypeOK, GapInv, Final, FinalInv
<1>5. ForwardInv'
  BY DEF PlanBackfill, AfterBackfill, TypeOK, ForwardInv, ForwardContiguous,
         Stored, LocalInv, Final, Backfills, SavePCs, BackfillPCs, ForwardPCs
<1>6. BackfillInv'
  BY DEF PlanBackfill, AfterBackfill, TypeOK, BackfillInv, Stored,
         BackfillPCs, LocalInv, Final, Backfills, SavePCs, ForwardPCs
<1>7. RecordInv'
  BY DEF PlanBackfill, AfterBackfill, TypeOK, RecordInv, RecordedAtMostOnce,
         ForwardPCs, LocalInv, Final, Backfills, SavePCs, BackfillPCs,
         ForwardInv, ForwardContiguous, Stored
<1> QED
  BY <1>1, <1>2, <1>3, <1>4, <1>5, <1>6, <1>7

\* Reading a final block yields the canonical one.
LEMMA BackfillFetchStep ==
  ASSUME IInv, NEW p \in Procs, BackfillFetch(p)
  PROVE  IInv'
<1> USE BoundsAssumption, NoneAssumption, DeploymentAssumption
<1> USE DEF IInv, Blocks, Procs, Rows, ScannerPCs, chain, database, locals, gapVars
<1>1. TypeOK'
  BY DEF BackfillFetch, Fetch, TypeOK
<1>2. FinalInv'
  BY DEF BackfillFetch, Fetch, TypeOK, FinalInv, Final, LocalInv, Backfills,
         SavePCs, BackfillPCs, ForwardPCs, GapInv
<1>3. LocalInv'
  BY DEF BackfillFetch, Fetch, TypeOK, LocalInv, Final, Backfills, SavePCs,
         BackfillPCs, ForwardPCs
<1>4. GapInv'
  BY DEF BackfillFetch, Fetch, TypeOK, GapInv, Final, FinalInv
<1>5. ForwardInv'
  BY DEF BackfillFetch, Fetch, TypeOK, ForwardInv, ForwardContiguous, Stored,
         LocalInv, Final, Backfills, SavePCs, BackfillPCs, ForwardPCs
<1>6. BackfillInv'
  BY DEF BackfillFetch, Fetch, TypeOK, BackfillInv, Stored, BackfillPCs,
         LocalInv, Final, Backfills, SavePCs, ForwardPCs
<1>7. RecordInv'
  BY DEF BackfillFetch, Fetch, TypeOK, RecordInv, RecordedAtMostOnce,
         ForwardPCs, LocalInv, Final, Backfills, SavePCs, BackfillPCs,
         ForwardInv, ForwardContiguous, Stored
<1> QED
  BY <1>1, <1>2, <1>3, <1>4, <1>5, <1>6, <1>7

\* The row and the backfill cursor move together.
LEMMA BackfillCommitStep ==
  ASSUME IInv, NEW p \in Procs, BackfillCommit(p)
  PROVE  IInv'
<1> USE BoundsAssumption, NoneAssumption, DeploymentAssumption
<1> USE DEF IInv, Blocks, Procs, Rows, ScannerPCs, chain, database, locals, gapVars
<1>a. next[p] \in Blocks /\ Final(next[p]) /\ next[p] <= safeHead[p]
  BY BlockInHand DEF BackfillCommit, BackfillPCs
<1>b. fetched[p] = "canonical"
  BY DEF IInv, LocalInv, SavePCs, BackfillCommit
<1>c. /\ blocks' \in [Blocks -> Rows \cup {"missing"}]
      /\ Stored' = Stored \cup {next[p]} /\ FinalInv'
  BY <1>a, <1>b, SaveBlockStored, SaveBlockFinal DEF BackfillCommit, Rows, IInv, chain
<1>1. TypeOK'
  <2>1. next' \in [Procs -> (-1)..(MaxHead + 1)]
    BY <1>a DEF BackfillCommit, TypeOK
  <2>2. pc' \in [Procs -> ScannerPCs]
    BY DEF BackfillCommit, AfterBackfill, TypeOK
  <2>3. backfillNextBlock' \in (-1)..MaxHead /\ lowest' \in [Procs -> Blocks \cup {None}]
    BY <1>a DEF BackfillCommit, TypeOK
  <2> QED
    BY <1>c, <2>1, <2>2, <2>3 DEF BackfillCommit, TypeOK
<1>2. FinalInv'
  BY <1>c
<1>3. LocalInv'
  <2> SUFFICES ASSUME NEW q \in Procs
               PROVE  /\ Final(safeHead[q])'
                      /\ (fetched[q] = IF pc[q] \in SavePCs THEN "canonical" ELSE "missing")'
                      /\ (pc[q] \in BackfillPCs => Backfills(q) /\ OldestBlock <= next[q])'
                      /\ (pc[q] \in BackfillPCs \cup ForwardPCs =>
                            0 <= next[q] /\ next[q] <= safeHead[q])'
                      /\ (pc[q] = "planBackfill" => Backfills(q))'
                      /\ (pc[q] \in ForwardPCs \cup {"forwardHead", "planForward"}
                            => q = "near")'
    BY Zenon DEF LocalInv
  <2>1. CASE q = p
    <3>1. Backfills(p) /\ safeHead[p] \in Blocks /\ Final(safeHead[p])
      BY DEF BackfillCommit, LocalInv, BackfillPCs, TypeOK
    <3>2. CASE next[p] - 1 >= OldestBlock /\ pc' = [pc EXCEPT ![p] = "backfillFetch"]
      <4>1. /\ pc'[p] = "backfillFetch" /\ fetched'[p] = "missing"
            /\ next'[p] = next[p] - 1
        BY <3>2 DEF BackfillCommit, TypeOK
      <4>2. safeHead' = safeHead /\ head' = head
        BY DEF BackfillCommit
      <4> QED
        BY <1>a, <2>1, <3>1, <3>2, <4>1, <4>2
           DEF Final, Backfills, SavePCs, BackfillPCs, ForwardPCs
    <3>3. CASE pc' = [pc EXCEPT ![p] = AfterBackfill(p)]
      BY <2>1, <3>1, <3>3 DEF BackfillCommit, AfterBackfill, TypeOK, Final,
            Backfills, SavePCs, BackfillPCs, ForwardPCs
    <3> QED
      BY <3>2, <3>3 DEF BackfillCommit
  <2>2. CASE q # p
    BY <2>2 DEF BackfillCommit, TypeOK, LocalInv, Final, Backfills
  <2> QED
    BY <2>1, <2>2
<1>4. GapInv'
  BY DEF BackfillCommit, SaveBlock, AfterBackfill, TypeOK, GapInv, Final,
         FinalInv
<1>5. ForwardInv'
  BY <1>c DEF BackfillCommit, AfterBackfill, TypeOK, LocalInv, Backfills,
         BackfillPCs, ForwardInv, ForwardContiguous
<1>6. BackfillInv'
  <2>1. \A q \in Procs : pc'[q] \in BackfillPCs => q = p
    BY DEF BackfillCommit, AfterBackfill, TypeOK, LocalInv, Backfills, BackfillPCs
  <2>2. backfillNextBlock' + 1 = next[p] /\ next'[p] = next[p] - 1 /\ next[p] \in Stored'
    BY <1>a, <1>c DEF BackfillCommit, TypeOK
  <2> QED
    BY <1>a, <2>1, <2>2 DEF BackfillInv
<1>7. RecordInv'
  BY <1>a DEF BackfillCommit, AfterBackfill, TypeOK, LocalInv, Backfills,
         BackfillPCs, RecordInv, RecordedAtMostOnce, ForwardPCs
<1> QED
  BY <1>1, <1>2, <1>3, <1>4, <1>5, <1>6, <1>7

\* A lost commit answer leaves the block in hand one above the cursor.
LEMMA BackfillSaveFailsStep ==
  ASSUME IInv, NEW p \in Procs, BackfillSaveFails(p)
  PROVE  IInv'
<1> USE BoundsAssumption, NoneAssumption, DeploymentAssumption
<1> USE DEF IInv, Blocks, Procs, Rows, ScannerPCs, chain, database, locals, gapVars
<1>a. next[p] \in Blocks /\ Final(next[p]) /\ next[p] <= safeHead[p]
  BY BlockInHand DEF BackfillSaveFails, BackfillPCs
<1>b. fetched[p] = "canonical"
  BY DEF IInv, LocalInv, SavePCs, BackfillSaveFails
<1>c. /\ blocks' \in [Blocks -> Rows \cup {"missing"}]
      /\ FinalInv' /\ (Stored' = Stored \/ Stored' = Stored \cup {next[p]})
  <2>1. CASE SaveBlock(next[p], fetched[p])
    BY <2>1, <1>a, <1>b, SaveBlockStored, SaveBlockFinal DEF BackfillSaveFails, Rows, IInv, chain
  <2>2. CASE UNCHANGED blocks
    BY <2>2 DEF BackfillSaveFails, IInv, TypeOK, FinalInv, Final, Stored, chain
  <2> QED
    BY <2>1, <2>2 DEF BackfillSaveFails
<1>1. TypeOK'
  <2>1. backfillNextBlock' \in (-1)..MaxHead \cup {None}
    <3>1. backfillNextBlock' \in {backfillNextBlock, next[p] - 1}
      BY DEF BackfillSaveFails
    <3> QED
      BY <1>a, <3>1 DEF TypeOK
  <2> QED
    BY <1>c, <2>1 DEF BackfillSaveFails, TypeOK
<1>2. FinalInv'
  BY <1>c
<1>3. LocalInv'
  BY <1>a, <1>c DEF BackfillSaveFails, SaveBlock, TypeOK, LocalInv, Final,
         Backfills, SavePCs, BackfillPCs, ForwardPCs
<1>4. GapInv'
  BY <1>a, <1>c DEF BackfillSaveFails, SaveBlock, TypeOK, GapInv, Final,
         FinalInv
<1>5. ForwardInv'
  BY <1>c DEF BackfillSaveFails, TypeOK, ForwardInv, ForwardContiguous
<1>6. BackfillInv'
  <2>1. \A q \in Procs : pc'[q] \in BackfillPCs => q = p
    BY DEF BackfillSaveFails, TypeOK, LocalInv, Backfills, BackfillPCs
  <2>2. next' = next /\ pc[p] \in BackfillPCs
    BY DEF BackfillSaveFails, BackfillPCs
  <2>3. CASE UNCHANGED <<blocks, backfillNextBlock>>
    BY <1>a, <2>1, <2>2, <2>3 DEF BackfillInv, Stored
  <2>4. CASE SaveBlock(next[p], fetched[p]) /\ backfillNextBlock' = next[p] - 1
    <3>1. Stored' = Stored \cup {next[p]}
      BY <1>a, <1>b, <2>4, SaveBlockStored DEF Rows
    <3> QED
      BY <1>a, <2>1, <2>2, <2>4, <3>1 DEF BackfillInv
  <2> QED
    BY <2>3, <2>4 DEF BackfillSaveFails
<1>7. RecordInv'
  BY <1>a, <1>c DEF BackfillSaveFails, SaveBlock, TypeOK, RecordInv,
         RecordedAtMostOnce, ForwardPCs, LocalInv, Final, Backfills, SavePCs,
         BackfillPCs, ForwardInv, ForwardContiguous
<1> QED
  BY <1>1, <1>2, <1>3, <1>4, <1>5, <1>6, <1>7

\* The forward scan, too, starts from a final safe head.
LEMMA StartForwardStep ==
  ASSUME IInv, NEW p \in Procs, StartForward(p)
  PROVE  IInv'
<1> USE BoundsAssumption, NoneAssumption, DeploymentAssumption
<1> USE DEF IInv, Blocks, Procs, Rows, ScannerPCs, chain, database, locals, gapVars
<1>1. TypeOK'
  BY DEF StartForward, ReadSafeHead, computeSafeHead, TypeOK
<1>2. FinalInv'
  BY DEF StartForward, ReadSafeHead, computeSafeHead, TypeOK, FinalInv,
         Final, LocalInv, Backfills, SavePCs, BackfillPCs, ForwardPCs, GapInv
<1>3. LocalInv'
  BY DEF StartForward, ReadSafeHead, computeSafeHead, TypeOK, LocalInv,
         Final, Backfills, SavePCs, BackfillPCs, ForwardPCs
<1>4. GapInv'
  BY DEF StartForward, ReadSafeHead, computeSafeHead, TypeOK, GapInv, Final,
         FinalInv
<1>5. ForwardInv'
  BY DEF StartForward, ReadSafeHead, computeSafeHead, TypeOK, ForwardInv,
         ForwardContiguous, Stored, LocalInv, Final, Backfills, SavePCs,
         BackfillPCs, ForwardPCs
<1>6. BackfillInv'
  BY DEF StartForward, ReadSafeHead, computeSafeHead, TypeOK, BackfillInv,
         Stored, BackfillPCs, LocalInv, Final, Backfills, SavePCs, ForwardPCs
<1>7. RecordInv'
  BY DEF StartForward, ReadSafeHead, computeSafeHead, TypeOK, RecordInv,
         RecordedAtMostOnce, ForwardPCs, LocalInv, Final, Backfills, SavePCs,
         BackfillPCs, ForwardInv, ForwardContiguous, Stored
<1> QED
  BY <1>1, <1>2, <1>3, <1>4, <1>5, <1>6, <1>7

\* The forward scan resumes right behind its cursor.
LEMMA PlanForwardStep ==
  ASSUME IInv, NEW p \in Procs, PlanForward(p)
  PROVE  IInv'
<1> USE BoundsAssumption, NoneAssumption, DeploymentAssumption
<1> USE DEF IInv, Blocks, Procs, Rows, ScannerPCs, chain, database, locals, gapVars
<1>1. TypeOK'
  <2>1. next' \in [Procs -> (-1)..(MaxHead + 1)]
    BY DEF PlanForward, TypeOK
  <2>2. pc' \in [Procs -> ScannerPCs]
    BY DEF PlanForward, TypeOK
  <2> QED
    BY <2>1, <2>2 DEF PlanForward, TypeOK
<1>2. FinalInv'
  BY DEF PlanForward, TypeOK, FinalInv, Final, LocalInv, Backfills, SavePCs,
         BackfillPCs, ForwardPCs, GapInv
<1>3. LocalInv'
  <2> SUFFICES ASSUME NEW q \in Procs
               PROVE  /\ Final(safeHead[q])'
                      /\ (fetched[q] = IF pc[q] \in SavePCs THEN "canonical" ELSE "missing")'
                      /\ (pc[q] \in BackfillPCs => Backfills(q) /\ OldestBlock <= next[q])'
                      /\ (pc[q] \in BackfillPCs \cup ForwardPCs =>
                            0 <= next[q] /\ next[q] <= safeHead[q])'
                      /\ (pc[q] = "planBackfill" => Backfills(q))'
                      /\ (pc[q] \in ForwardPCs \cup {"forwardHead", "planForward"}
                            => q = "near")'
    BY Zenon DEF LocalInv
  <2>1. CASE q = p
    <3>1. p = "near" /\ Final(safeHead[p]) /\ fetched[p] = "missing"
      BY DEF PlanForward, LocalInv, SavePCs
    <3>2. 0 <= next'[p] /\ next'[p] \in Int
      BY DEF PlanForward, TypeOK
    <3>3. pc'[p] = IF next'[p] <= safeHead[p] THEN "forwardFetch" ELSE "top"
      BY DEF PlanForward, TypeOK
    <3>4. safeHead' = safeHead /\ head' = head /\ fetched' = fetched
      BY DEF PlanForward
    <3> QED
      BY <2>1, <3>1, <3>2, <3>3, <3>4
         DEF Final, SavePCs, BackfillPCs, ForwardPCs
  <2>2. CASE q # p
    BY <2>2 DEF PlanForward, TypeOK, LocalInv, Final, Backfills
  <2> QED
    BY <2>1, <2>2
<1>4. GapInv'
  BY DEF PlanForward, TypeOK, GapInv, Final, FinalInv
<1>5. ForwardInv'
  BY DEF PlanForward, TypeOK, ForwardInv, ForwardContiguous, Stored,
         LocalInv, Final, Backfills, SavePCs, BackfillPCs, ForwardPCs
<1>6. BackfillInv'
  BY DEF PlanForward, TypeOK, BackfillInv, Stored, BackfillPCs, LocalInv,
         Final, Backfills, SavePCs, ForwardPCs
<1>7. RecordInv'
  BY DEF PlanForward, TypeOK, RecordInv, RecordedAtMostOnce, ForwardPCs,
         LocalInv, Final, Backfills, SavePCs, BackfillPCs, ForwardInv,
         ForwardContiguous, Stored
<1> QED
  BY <1>1, <1>2, <1>3, <1>4, <1>5, <1>6, <1>7

\* Reading the next forward block keeps the cursor in place.
LEMMA ForwardFetchStep ==
  ASSUME IInv, NEW p \in Procs, ForwardFetch(p)
  PROVE  IInv'
<1> USE BoundsAssumption, NoneAssumption, DeploymentAssumption
<1> USE DEF IInv, Blocks, Procs, Rows, ScannerPCs, chain, database, locals, gapVars
<1>1. TypeOK'
  BY DEF ForwardFetch, Fetch, TypeOK
<1>2. FinalInv'
  BY DEF ForwardFetch, Fetch, TypeOK, FinalInv, Final, LocalInv, Backfills,
         SavePCs, BackfillPCs, ForwardPCs, GapInv
<1>3. LocalInv'
  BY DEF ForwardFetch, Fetch, TypeOK, LocalInv, Final, Backfills, SavePCs,
         BackfillPCs, ForwardPCs
<1>4. GapInv'
  BY DEF ForwardFetch, Fetch, TypeOK, GapInv, Final, FinalInv
<1>5. ForwardInv'
  BY DEF ForwardFetch, Fetch, TypeOK, ForwardInv, ForwardContiguous, Stored,
         LocalInv, Final, Backfills, SavePCs, BackfillPCs, ForwardPCs
<1>6. BackfillInv'
  BY DEF ForwardFetch, Fetch, TypeOK, BackfillInv, Stored, BackfillPCs,
         LocalInv, Final, Backfills, SavePCs, ForwardPCs
<1>7. RecordInv'
  BY DEF ForwardFetch, Fetch, TypeOK, RecordInv, RecordedAtMostOnce,
         ForwardPCs, LocalInv, Final, Backfills, SavePCs, BackfillPCs,
         ForwardInv, ForwardContiguous, Stored
<1> QED
  BY <1>1, <1>2, <1>3, <1>4, <1>5, <1>6, <1>7

\* The row and the forward cursor move together, one block on.
LEMMA ForwardCommitStep ==
  ASSUME IInv, NEW p \in Procs, ForwardCommit(p)
  PROVE  IInv'
<1> USE BoundsAssumption, NoneAssumption, DeploymentAssumption
<1> USE DEF IInv, Blocks, Procs, Rows, ScannerPCs, chain, database, locals, gapVars
<1>a. next[p] \in Blocks /\ Final(next[p]) /\ next[p] <= safeHead[p]
  BY BlockInHand DEF ForwardCommit, ForwardPCs
<1>b. fetched[p] = "canonical"
  BY DEF IInv, LocalInv, SavePCs, ForwardCommit
<1>c. /\ blocks' \in [Blocks -> Rows \cup {"missing"}]
      /\ Stored' = Stored \cup {next[p]} /\ FinalInv'
  BY <1>a, <1>b, SaveBlockStored, SaveBlockFinal DEF ForwardCommit, Rows, IInv, chain
<1>d. p = "near"
  BY DEF IInv, LocalInv, ForwardPCs, ForwardCommit
<1>1. TypeOK'
  BY <1>a, <1>c DEF ForwardCommit, TypeOK
<1>2. FinalInv'
  BY <1>c
<1>3. LocalInv'
  BY DEF ForwardCommit, SaveBlock, TypeOK, LocalInv, Final, Backfills,
         SavePCs, BackfillPCs, ForwardPCs
<1>4. GapInv'
  BY DEF ForwardCommit, SaveBlock, TypeOK, GapInv, Final, FinalInv
<1>5. ForwardInv'
  <2>1. ForwardContiguous' /\ firstForward' # None
    <3>1. CASE lastSuccessfulBlock = None
      <4>1. firstForward' = next[p]
        BY <3>1 DEF ForwardInv, ForwardCommit
      <4> QED
        BY <1>a, <1>c, <4>1 DEF ForwardContiguous, ForwardCommit
    <3>2. CASE lastSuccessfulBlock # None
      <4>1. /\ firstForward \in Blocks /\ lastSuccessfulBlock \in Blocks
            /\ firstForward <= lastSuccessfulBlock /\ firstForward # None
            /\ firstForward..lastSuccessfulBlock \subseteq Stored
            /\ next[p] \in {lastSuccessfulBlock, lastSuccessfulBlock + 1}
        BY <1>d, <3>2 DEF ForwardInv, ForwardContiguous, TypeOK, ForwardCommit
      <4> QED
        BY <1>a, <1>c, <3>2, <4>1 DEF ForwardContiguous, ForwardCommit
    <3> QED
      BY <3>1, <3>2
  <2> QED
    BY <1>a, <1>d, <2>1 DEF ForwardCommit, TypeOK, ForwardInv
<1>6. BackfillInv'
  BY <1>c, BackfillFrame DEF ForwardCommit, TypeOK, BackfillPCs
<1>7. RecordInv'
  <2>1. lastSuccessfulBlock' = next[p] /\ next[p] # None /\ recorded' = recorded /\ next' = next
    BY <1>a DEF ForwardCommit
  <2>2. \A b \in Blocks : b > next[p] => recorded[b] = 0
    BY <1>a, <1>d DEF ForwardCommit, TypeOK, ForwardInv, RecordInv
  <2>3. recorded[next[p]] = 0
    BY <1>d DEF ForwardCommit, RecordInv, ForwardPCs
  <2> QED
    BY <1>d, <2>1, <2>2, <2>3 DEF RecordInv, RecordedAtMostOnce
<1> QED
  BY <1>1, <1>2, <1>3, <1>4, <1>5, <1>6, <1>7

\* A lost commit answer leaves the block in hand on the cursor.
LEMMA ForwardSaveFailsStep ==
  ASSUME IInv, NEW p \in Procs, ForwardSaveFails(p)
  PROVE  IInv'
<1> USE BoundsAssumption, NoneAssumption, DeploymentAssumption
<1> USE DEF IInv, Blocks, Procs, Rows, ScannerPCs, chain, database, locals, gapVars
<1>a. next[p] \in Blocks /\ Final(next[p]) /\ next[p] <= safeHead[p]
  BY BlockInHand DEF ForwardSaveFails, ForwardPCs
<1>b. fetched[p] = "canonical"
  BY DEF IInv, LocalInv, SavePCs, ForwardSaveFails
<1>c. /\ blocks' \in [Blocks -> Rows \cup {"missing"}]
      /\ FinalInv' /\ (Stored' = Stored \/ Stored' = Stored \cup {next[p]})
  <2>1. CASE SaveBlock(next[p], fetched[p])
    BY <2>1, <1>a, <1>b, SaveBlockStored, SaveBlockFinal DEF ForwardSaveFails, Rows, IInv, chain
  <2>2. CASE UNCHANGED blocks
    BY <2>2 DEF ForwardSaveFails, IInv, TypeOK, FinalInv, Final, Stored, chain
  <2> QED
    BY <2>1, <2>2 DEF ForwardSaveFails
<1>d. p = "near"
  BY DEF IInv, LocalInv, ForwardPCs, ForwardSaveFails
<1>1. TypeOK'
  BY <1>a, <1>c DEF ForwardSaveFails, TypeOK
<1>2. FinalInv'
  BY <1>c
<1>3. LocalInv'
  BY <1>a, <1>c DEF ForwardSaveFails, SaveBlock, TypeOK, LocalInv, Final,
         Backfills, SavePCs, BackfillPCs, ForwardPCs
<1>4. GapInv'
  BY <1>a, <1>c DEF ForwardSaveFails, SaveBlock, TypeOK, GapInv, Final,
         FinalInv
<1>5. ForwardInv'
  <2>1. CASE UNCHANGED <<blocks, lastSuccessfulBlock, firstForward>>
    <3>1. Stored' = Stored
      BY <2>1 DEF Stored
    <3> QED
      BY <1>d, <2>1, <3>1 DEF ForwardSaveFails, TypeOK, ForwardInv, ForwardContiguous
  <2>2. CASE /\ SaveBlock(next[p], fetched[p])
             /\ lastSuccessfulBlock' = next[p]
             /\ firstForward' = IF firstForward = None THEN next[p] ELSE firstForward
    <3>1. Stored' = Stored \cup {next[p]}
      BY <1>a, <1>b, <2>2, SaveBlockStored DEF Rows
    <3>2. ForwardContiguous' /\ firstForward' # None
      <4>1. CASE lastSuccessfulBlock = None
        <5>1. firstForward' = next[p]
          BY <2>2, <4>1 DEF ForwardInv
        <5> QED
          BY <1>a, <3>1, <2>2, <5>1 DEF ForwardContiguous
      <4>2. CASE lastSuccessfulBlock # None
        <5>1. /\ firstForward \in Blocks /\ lastSuccessfulBlock \in Blocks
              /\ firstForward <= lastSuccessfulBlock /\ firstForward # None
              /\ firstForward..lastSuccessfulBlock \subseteq Stored
              /\ next[p] \in {lastSuccessfulBlock, lastSuccessfulBlock + 1}
          BY <1>d, <4>2 DEF ForwardInv, ForwardContiguous, TypeOK, ForwardSaveFails
        <5> QED
          BY <1>a, <3>1, <2>2, <4>2, <5>1 DEF ForwardContiguous
      <4> QED
        BY <4>1, <4>2
    <3> QED
      BY <1>a, <1>d, <2>2, <3>2 DEF ForwardSaveFails, TypeOK, ForwardInv
  <2> QED
    BY <2>1, <2>2 DEF ForwardSaveFails
<1>6. BackfillInv'
  BY <1>c, BackfillFrame DEF ForwardSaveFails, TypeOK, BackfillPCs
<1>7. RecordInv'
  BY <1>a, <1>d DEF ForwardSaveFails, TypeOK, ForwardInv, RecordInv,
         RecordedAtMostOnce, ForwardPCs
<1> QED
  BY <1>1, <1>2, <1>3, <1>4, <1>5, <1>6, <1>7

\* Only a block not counted before is counted.
LEMMA RecordGuzzlersStep ==
  ASSUME IInv, NEW p \in Procs, RecordGuzzlers(p)
  PROVE  IInv'
<1> USE BoundsAssumption, NoneAssumption, DeploymentAssumption
<1> USE DEF IInv, Blocks, Procs, Rows, ScannerPCs, chain, database, locals, gapVars
<1>a. next[p] \in Blocks /\ Final(next[p]) /\ next[p] <= safeHead[p]
  BY BlockInHand DEF RecordGuzzlers, ForwardPCs
<1>d. p = "near" /\ next[p] = lastSuccessfulBlock
  BY DEF IInv, LocalInv, ForwardInv, ForwardPCs, RecordGuzzlers
<1>e. \/ recorded' = recorded
      \/ recorded' = [recorded EXCEPT ![next[p]] = @ + 1]
  BY DEF RecordGuzzlers
<1>1. TypeOK'
  <2>1. next' \in [Procs -> (-1)..(MaxHead + 1)]
    <3>1. next' = [next EXCEPT ![p] = next[p] + 1]
      BY DEF RecordGuzzlers
    <3> QED
      BY <1>a, <3>1 DEF TypeOK
  <2>3. recorded' \in [Blocks -> Nat]
    <3>1. recorded \in [Blocks -> Nat]
      BY DEF TypeOK
    <3>2. recorded[next[p]] + 1 \in Nat
      BY <1>a, <3>1
    <3> QED
      BY <1>e, <3>1, <3>2
  <2>2. pc' \in [Procs -> ScannerPCs]
    BY DEF RecordGuzzlers, TypeOK
  <2> QED
    <3>1. UNCHANGED <<chain, database, safeHeadBlock, safeHead, lowest, fetched,
                      gapVars, firstForward, crashes>>
      BY DEF RecordGuzzlers
    <3> QED
      BY <2>1, <2>2, <2>3, <3>1 DEF TypeOK
<1>2. FinalInv'
  BY DEF RecordGuzzlers, TypeOK, FinalInv, Final, LocalInv, Backfills,
         SavePCs, BackfillPCs, ForwardPCs, GapInv
<1>3. LocalInv'
  BY <1>a, <1>d DEF RecordGuzzlers, TypeOK, LocalInv, Final, Backfills,
         SavePCs, BackfillPCs, ForwardPCs
<1>4. GapInv'
  BY DEF RecordGuzzlers, TypeOK, GapInv, Final, FinalInv
<1>5. ForwardInv'
  BY <1>d DEF RecordGuzzlers, TypeOK, ForwardInv, ForwardContiguous, Stored
<1>6. BackfillInv'
  BY DEF RecordGuzzlers, TypeOK, BackfillInv, Stored, BackfillPCs, LocalInv,
         Final, Backfills, SavePCs, ForwardPCs
<1>7. RecordInv'
  <2>1. /\ UNCHANGED lastSuccessfulBlock
        /\ pc'[p] \in ForwardPCs => next'[p] = lastSuccessfulBlock + 1
        /\ next'[p] <= MaxHead \/ pc'[p] \notin ForwardPCs
    BY <1>a, <1>d DEF RecordGuzzlers, TypeOK, ForwardPCs
  <2>2. /\ recorded[next[p]] = 0
        /\ \A b \in Blocks : recorded[b] <= 1 /\ (b > lastSuccessfulBlock => recorded[b] = 0)
    BY <1>a, <1>d DEF RecordInv, RecordedAtMostOnce, ForwardPCs, RecordGuzzlers
  <2>3. \A b \in Blocks : recorded'[b] <= 1 /\ (b > lastSuccessfulBlock => recorded'[b] = 0)
    <3>1. recorded \in [Blocks -> Nat]
      BY DEF TypeOK
    <3>2. \A b \in Blocks : recorded'[b] = IF b = next[p] THEN recorded'[b] ELSE recorded[b]
      BY <1>e, <3>1
    <3>3. recorded'[next[p]] \in {0, 1}
      BY <1>a, <1>e, <2>2, <3>1
    <3> QED
      BY <1>a, <1>d, <2>2, <3>2, <3>3
  <2>4. lastSuccessfulBlock # None /\ lastSuccessfulBlock \in Blocks
    BY <1>a, <1>d
  <2>5. pc'["near"] \in ForwardPCs => recorded'[next'["near"]] = 0
    BY <1>d, <2>1, <2>3, <2>4
  <2> QED
    BY <2>1, <2>3, <2>4, <2>5 DEF RecordInv, RecordedAtMostOnce
<1> QED
  BY <1>1, <1>2, <1>3, <1>4, <1>5, <1>6, <1>7

\* What the database holds does not depend on a scanner's memory.
LEMMA CrashStep ==
  ASSUME IInv, NEW p \in Procs, Crash(p)
  PROVE  IInv'
<1> USE BoundsAssumption, NoneAssumption, DeploymentAssumption
<1> USE DEF IInv, Blocks, Procs, Rows, ScannerPCs, chain, database, locals, gapVars
<1>1. TypeOK'
  BY DEF Crash, TypeOK
<1>2. FinalInv'
  BY DEF Crash, TypeOK, FinalInv, Final, LocalInv, Backfills, SavePCs,
         BackfillPCs, ForwardPCs, GapInv
<1>3. LocalInv'
  BY DEF Crash, TypeOK, LocalInv, Final, Backfills, SavePCs, BackfillPCs,
         ForwardPCs
<1>4. GapInv'
  BY DEF Crash, TypeOK, GapInv, Final, FinalInv
<1>5. ForwardInv'
  BY DEF Crash, TypeOK, ForwardInv, ForwardContiguous, Stored, LocalInv,
         Final, Backfills, SavePCs, BackfillPCs, ForwardPCs
<1>6. BackfillInv'
  BY DEF Crash, TypeOK, BackfillInv, Stored, BackfillPCs, LocalInv, Final,
         Backfills, SavePCs, ForwardPCs
<1>7. RecordInv'
  BY DEF Crash, TypeOK, RecordInv, RecordedAtMostOnce, ForwardPCs, LocalInv,
         Final, Backfills, SavePCs, BackfillPCs, ForwardInv,
         ForwardContiguous, Stored
<1> QED
  BY <1>1, <1>2, <1>3, <1>4, <1>5, <1>6, <1>7

\* A reported gap lies below a stored block and is final.
LEMMA FindGapsStep ==
  ASSUME IInv, FindGaps
  PROVE  IInv'
<1> USE BoundsAssumption, NoneAssumption, DeploymentAssumption
<1> USE DEF IInv, Blocks, Procs, Rows, ScannerPCs, chain, database, locals, gapVars
<1>1. TypeOK'
  BY DEF FindGaps, Gaps, FirstGaps, Stored, TypeOK
<1>2. FinalInv'
  BY DEF FindGaps, Gaps, FirstGaps, Stored, TypeOK, FinalInv, Final,
         LocalInv, Backfills, SavePCs, BackfillPCs, ForwardPCs, GapInv
<1>3. LocalInv'
  BY DEF FindGaps, Gaps, FirstGaps, Stored, TypeOK, LocalInv, Final,
         Backfills, SavePCs, BackfillPCs, ForwardPCs
<1>4. GapInv'
  BY DEF FindGaps, Gaps, FirstGaps, Stored, TypeOK, GapInv, Final, FinalInv
<1>5. ForwardInv'
  BY DEF FindGaps, Gaps, FirstGaps, Stored, TypeOK, ForwardInv,
         ForwardContiguous, LocalInv, Final, Backfills, SavePCs, BackfillPCs,
         ForwardPCs
<1>6. BackfillInv'
  BY DEF FindGaps, Gaps, FirstGaps, Stored, TypeOK, BackfillInv, BackfillPCs,
         LocalInv, Final, Backfills, SavePCs, ForwardPCs
<1>7. RecordInv'
  BY DEF FindGaps, Gaps, FirstGaps, Stored, TypeOK, RecordInv,
         RecordedAtMostOnce, ForwardPCs, LocalInv, Final, Backfills, SavePCs,
         BackfillPCs, ForwardInv, ForwardContiguous
<1> QED
  BY <1>1, <1>2, <1>3, <1>4, <1>5, <1>6, <1>7

\* The gap filler, too, reads canonical blocks.
LEMMA GapFetchStep ==
  ASSUME IInv, GapFetch
  PROVE  IInv'
<1> USE BoundsAssumption, NoneAssumption, DeploymentAssumption
<1> USE DEF IInv, Blocks, Procs, Rows, ScannerPCs, chain, database, locals, gapVars
<1>1. TypeOK'
  BY DEF GapFetch, TypeOK
<1>2. FinalInv'
  BY DEF GapFetch, TypeOK, FinalInv, Final, LocalInv, Backfills, SavePCs,
         BackfillPCs, ForwardPCs, GapInv
<1>3. LocalInv'
  BY DEF GapFetch, TypeOK, LocalInv, Final, Backfills, SavePCs, BackfillPCs,
         ForwardPCs
<1>4. GapInv'
  BY DEF GapFetch, TypeOK, GapInv, Final, FinalInv
<1>5. ForwardInv'
  BY DEF GapFetch, TypeOK, ForwardInv, ForwardContiguous, Stored, LocalInv,
         Final, Backfills, SavePCs, BackfillPCs, ForwardPCs
<1>6. BackfillInv'
  BY DEF GapFetch, TypeOK, BackfillInv, Stored, BackfillPCs, LocalInv, Final,
         Backfills, SavePCs, ForwardPCs
<1>7. RecordInv'
  BY DEF GapFetch, TypeOK, RecordInv, RecordedAtMostOnce, ForwardPCs,
         LocalInv, Final, Backfills, SavePCs, BackfillPCs, ForwardInv,
         ForwardContiguous, Stored
<1> QED
  BY <1>1, <1>2, <1>3, <1>4, <1>5, <1>6, <1>7

\* Filling a gap adds a row and moves no cursor.
LEMMA GapCommitStep ==
  ASSUME IInv, GapCommit
  PROVE  IInv'
<1> USE BoundsAssumption, NoneAssumption, DeploymentAssumption
<1> USE DEF IInv, Blocks, Procs, Rows, ScannerPCs, chain, database, locals, gapVars
<1>a. /\ blocks' \in [Blocks -> Rows \cup {"missing"}]
      /\ FinalInv' /\ Stored \subseteq Stored'
  <2> PICK b \in Blocks : IsNextGap(b) /\ SaveBlock(b, gapFetched)
    BY DEF GapCommit
  <2>1. Final(b) /\ gapFetched = "canonical"
    BY GapInHand DEF GapInv, GapCommit
  <2> QED
    BY <2>1, SaveBlockStored, SaveBlockFinal DEF GapCommit, Rows
<1>1. TypeOK'
  BY <1>a DEF GapCommit, Advance, TypeOK
<1>2. FinalInv'
  BY <1>a
<1>3. LocalInv'
  BY DEF GapCommit, SaveBlock, Advance, IsNextGap, TypeOK, LocalInv, Final,
         Backfills, SavePCs, BackfillPCs, ForwardPCs
<1>4. GapInv'
  BY DEF GapCommit, SaveBlock, Advance, IsNextGap, TypeOK, GapInv, Final,
         FinalInv
<1>5. ForwardInv'
  BY <1>a, ForwardFrame DEF GapCommit
<1>6. BackfillInv'
  BY <1>a, BackfillFrame DEF GapCommit
<1>7. RecordInv'
  BY DEF GapCommit, SaveBlock, Advance, IsNextGap, TypeOK, RecordInv,
         RecordedAtMostOnce, ForwardPCs, LocalInv, Final, Backfills, SavePCs,
         BackfillPCs, ForwardInv, ForwardContiguous, Stored
<1> QED
  BY <1>1, <1>2, <1>3, <1>4, <1>5, <1>6, <1>7

\* A failed attempt adds a row or nothing.
LEMMA GapAttemptFailsStep ==
  ASSUME IInv, GapAttemptFails
  PROVE  IInv'
<1> USE BoundsAssumption, NoneAssumption, DeploymentAssumption
<1> USE DEF IInv, Blocks, Procs, Rows, ScannerPCs, chain, database, locals, gapVars
<1>a. /\ blocks' \in [Blocks -> Rows \cup {"missing"}]
      /\ FinalInv' /\ Stored \subseteq Stored'
  <2> PICK b \in Blocks :
        IsNextGap(b) /\ (UNCHANGED blocks \/ (gapPc = "save" /\ SaveBlock(b, gapFetched)))
    BY Zenon DEF GapAttemptFails
  <2>1. CASE UNCHANGED blocks
    BY <2>1 DEF GapAttemptFails, TypeOK, FinalInv, Final, Stored
  <2>2. CASE gapPc = "save" /\ SaveBlock(b, gapFetched)
    <3>1. Final(b) /\ gapFetched = "canonical"
      BY <2>2, GapInHand DEF GapInv
    <3> QED
      BY <2>2, <3>1, SaveBlockStored, SaveBlockFinal DEF GapAttemptFails, Rows
  <2> QED
    BY <2>1, <2>2
<1>1. TypeOK'
  <2>1. /\ gapTodo' \subseteq Blocks /\ gapAttempt' \in 1..MaxRetries
        /\ gapPc' \in {"idle", "fetch", "save"}
    <3> PICK b \in Blocks :
          \/ /\ gapAttempt < MaxRetries
             /\ gapAttempt' = gapAttempt + 1
             /\ gapPc' = "fetch"
             /\ UNCHANGED gapTodo
          \/ gapAttempt >= MaxRetries /\ Advance(b)
      BY Zenon DEF GapAttemptFails
    <3>1. CASE gapAttempt < MaxRetries /\ gapAttempt' = gapAttempt + 1
               /\ gapPc' = "fetch" /\ UNCHANGED gapTodo
      BY <3>1 DEF TypeOK
    <3>2. CASE Advance(b)
      BY <3>2 DEF Advance, TypeOK
    <3> QED
      BY <3>1, <3>2
  <2> QED
    BY <1>a, <2>1 DEF GapAttemptFails, TypeOK
<1>2. FinalInv'
  BY <1>a
<1>3. LocalInv'
  BY DEF GapAttemptFails, SaveBlock, Advance, IsNextGap, TypeOK, LocalInv,
         Final, Backfills, SavePCs, BackfillPCs, ForwardPCs
<1>4. GapInv'
  BY DEF GapAttemptFails, SaveBlock, Advance, IsNextGap, TypeOK, GapInv,
         Final, FinalInv
<1>5. ForwardInv'
  BY <1>a, ForwardFrame DEF GapAttemptFails
<1>6. BackfillInv'
  BY <1>a, BackfillFrame DEF GapAttemptFails
<1>7. RecordInv'
  BY DEF GapAttemptFails, SaveBlock, Advance, IsNextGap, TypeOK, RecordInv,
         RecordedAtMostOnce, ForwardPCs, LocalInv, Final, Backfills, SavePCs,
         BackfillPCs, ForwardInv, ForwardContiguous, Stored
<1> QED
  BY <1>1, <1>2, <1>3, <1>4, <1>5, <1>6, <1>7

\* A killed gap filler leaves the database alone.
LEMMA GapCrashStep ==
  ASSUME IInv, GapCrash
  PROVE  IInv'
<1> USE BoundsAssumption, NoneAssumption, DeploymentAssumption
<1> USE DEF IInv, Blocks, Procs, Rows, ScannerPCs, chain, database, locals, gapVars
<1>1. TypeOK'
  BY DEF GapCrash, TypeOK
<1>2. FinalInv'
  BY DEF GapCrash, TypeOK, FinalInv, Final, LocalInv, Backfills, SavePCs,
         BackfillPCs, ForwardPCs, GapInv
<1>3. LocalInv'
  BY DEF GapCrash, TypeOK, LocalInv, Final, Backfills, SavePCs, BackfillPCs,
         ForwardPCs
<1>4. GapInv'
  BY DEF GapCrash, TypeOK, GapInv, Final, FinalInv
<1>5. ForwardInv'
  BY DEF GapCrash, TypeOK, ForwardInv, ForwardContiguous, Stored, LocalInv,
         Final, Backfills, SavePCs, BackfillPCs, ForwardPCs
<1>6. BackfillInv'
  BY DEF GapCrash, TypeOK, BackfillInv, Stored, BackfillPCs, LocalInv, Final,
         Backfills, SavePCs, ForwardPCs
<1>7. RecordInv'
  BY DEF GapCrash, TypeOK, RecordInv, RecordedAtMostOnce, ForwardPCs,
         LocalInv, Final, Backfills, SavePCs, BackfillPCs, ForwardInv,
         ForwardContiguous, Stored
<1> QED
  BY <1>1, <1>2, <1>3, <1>4, <1>5, <1>6, <1>7

-----------------------------------------------------------------------------
\* Nothing changes in a stuttering step.
LEMMA StutterStep ==
  ASSUME IInv, UNCHANGED vars
  PROVE  IInv'
  BY DEF vars, IInv, TypeOK, FinalInv, LocalInv, GapInv, ForwardInv,
         BackfillInv, RecordInv, Final, ForwardContiguous, Stored,
         RecordedAtMostOnce, Backfills

\* Every step keeps the inductive invariant.
LEMMA NextStep == IInv /\ [Next]_vars => IInv'
<1> SUFFICES ASSUME IInv, [Next]_vars PROVE IInv'
  OBVIOUS
<1>1. CASE UNCHANGED vars
  BY <1>1, StutterStep
<1>2. CASE NewBlock \/ Reorg
  BY <1>2, NewBlockStep, ReorgStep
<1>3. ASSUME NEW p \in Procs,
             \/ StartBackfill(p) \/ PlanBackfill(p) \/ BackfillFetch(p)
             \/ BackfillCommit(p) \/ BackfillSaveFails(p)
      PROVE  IInv'
  BY <1>3, StartBackfillStep, PlanBackfillStep, BackfillFetchStep,
     BackfillCommitStep, BackfillSaveFailsStep
<1>4. ASSUME NEW p \in Procs,
             \/ StartForward(p) \/ PlanForward(p) \/ ForwardFetch(p)
             \/ ForwardCommit(p) \/ ForwardSaveFails(p) \/ RecordGuzzlers(p)
             \/ Crash(p)
      PROVE  IInv'
  BY <1>4, StartForwardStep, PlanForwardStep, ForwardFetchStep,
     ForwardCommitStep, ForwardSaveFailsStep, RecordGuzzlersStep, CrashStep
<1>5. CASE FindGaps \/ GapFetch \/ GapCommit \/ GapAttemptFails \/ GapCrash
  BY <1>5, FindGapsStep, GapFetchStep, GapCommitStep, GapAttemptFailsStep,
     GapCrashStep
<1> QED
  BY <1>1, <1>2, <1>3, <1>4, <1>5 DEF Next

\* The inductive invariant holds of every reachable state.
THEOREM Invariance == Spec => []IInv
  BY InitIInv, NextStep, PTL DEF Spec

-----------------------------------------------------------------------------
(* What it establishes. *)

\* Every variable keeps its type: no cursor leaves the chain's numbers.
THEOREM TypeCorrect == Spec => []TypeOK
  BY Invariance, PTL DEF IInv

\* The forward scan never skips a block: scanForwardToSafeHead resumes behind
\* the cursor, and the cursor only moves with the row of its block.
THEOREM ForwardNeverSkips == Spec => []ForwardContiguous
<1>1. IInv => ForwardContiguous
  BY DEF IInv, ForwardInv
<1> QED
  BY <1>1, Invariance, PTL

\* No stored row is orphaned by a reorg: the confirmation depth of
\* computeSafeHead suffices for all three writers.
THEOREM OnlyFinalBlocksStored == Spec => []StoredIsFinal
<1>1. IInv => StoredIsFinal
  BY DEF IInv, FinalInv, StoredIsFinal
<1> QED
  BY <1>1, Invariance, PTL

\* Between the two cursors every block is stored or visible to findBlockGaps.
THEOREM NoBlockLost == Spec => []NoLostBlock
<1>1. IInv => NoLostBlock
  <2> SUFFICES ASSUME IInv, lastSuccessfulBlock # None, backfillNextBlock # None,
                      NEW b \in Blocks,
                      backfillNextBlock < b, b <= lastSuccessfulBlock,
                      b \notin Stored
               PROVE  b \in Gaps
    BY DEF NoLostBlock
  <2>1. backfillNextBlock + 1 \in Stored /\ backfillNextBlock \in Int
    BY BoundsAssumption DEF IInv, BackfillInv, TypeOK
  <2>2. lastSuccessfulBlock \in Stored /\ lastSuccessfulBlock \in Int
    BY CursorStored DEF Blocks
  <2>3. backfillNextBlock + 1 < b /\ b < lastSuccessfulBlock
    BY <2>1, <2>2 DEF Blocks
  <2> QED
    BY <2>1, <2>2, <2>3 DEF Gaps
<1> QED
  BY <1>1, Invariance, PTL

\* The guzzler recorder sees no block twice.
THEOREM NeverRecordedTwice == Spec => []RecordedAtMostOnce
<1>1. IInv => RecordedAtMostOnce
  BY DEF IInv, RecordInv
<1> QED
  BY <1>1, Invariance, PTL

\* No step takes a cursor back or a row away, and the forward cursor moves by
\* one block at most: CursorsAdvance, the action property of the runs.
LEMMA AdvancesInNext ==
  ASSUME IInv, [Next]_vars
  PROVE  [AdvancingStep]_database
<1> USE BoundsAssumption, NoneAssumption
<1> USE DEF AdvancingStep, database
<1>1. \A b \in Blocks, row \in Rows : SaveBlock(b, row) => Stored \subseteq Stored'
  BY SaveBlockStored DEF IInv
<1>2. ASSUME NEW p \in Procs, pc[p] \in BackfillPCs \cup ForwardPCs
      PROVE  next[p] \in Blocks
  BY <1>2, BlockInHand
<1>3. ASSUME NEW p \in Procs, pc[p] \in SavePCs
      PROVE  fetched[p] \in Rows
  BY <1>3 DEF IInv, LocalInv, Rows
<1>4. ASSUME NEW p \in Procs, BackfillCommit(p) \/ BackfillSaveFails(p)
      PROVE  [AdvancingStep]_database
  <2>1. pc[p] = "backfillSave"
    BY <1>4 DEF BackfillCommit, BackfillSaveFails
  <2>2. next[p] \in Blocks /\ fetched[p] \in Rows
    BY <1>2, <1>3, <2>1 DEF BackfillPCs, SavePCs
  <2>3. backfillNextBlock # None => next[p] <= backfillNextBlock + 1
    BY <2>1 DEF IInv, BackfillInv, BackfillPCs
  <2>4. Stored \subseteq Stored'
    BY <1>1, <1>4, <2>2 DEF BackfillCommit, BackfillSaveFails, Stored
  <2>5. backfillNextBlock # None => backfillNextBlock' <= backfillNextBlock
    <3>1. backfillNextBlock' \in {backfillNextBlock, next[p] - 1}
      BY <1>4 DEF BackfillCommit, BackfillSaveFails
    <3> QED
      BY <2>2, <2>3, <3>1 DEF IInv, TypeOK, Blocks
  <2> QED
    BY <1>4, <2>4, <2>5 DEF BackfillCommit, BackfillSaveFails
<1>5. ASSUME NEW p \in Procs, ForwardCommit(p) \/ ForwardSaveFails(p)
      PROVE  [AdvancingStep]_database
  <2>1. pc[p] = "forwardSave"
    BY <1>5 DEF ForwardCommit, ForwardSaveFails
  <2>2. next[p] \in Blocks /\ fetched[p] \in Rows
    BY <1>2, <1>3, <2>1 DEF ForwardPCs, SavePCs
  <2>6. p = "near"
    BY <2>1 DEF ForwardPCs, IInv, LocalInv
  <2>3. lastSuccessfulBlock # None =>
          next[p] \in {lastSuccessfulBlock, lastSuccessfulBlock + 1}
    BY <2>1, <2>6 DEF IInv, ForwardInv
  <2>4. Stored \subseteq Stored'
    BY <1>1, <1>5, <2>2 DEF ForwardCommit, ForwardSaveFails, Stored
  <2>5. UNCHANGED backfillNextBlock
        /\ lastSuccessfulBlock' \in {lastSuccessfulBlock, next[p]}
    BY <1>5 DEF ForwardCommit, ForwardSaveFails
  <2> QED
    BY <2>2, <2>3, <2>4, <2>5 DEF IInv, TypeOK
<1>6. CASE Reorg
  <2>1. Stored = Stored'
    BY <1>6 DEF Reorg, Stale, Stored
  <2> QED
    BY <1>6, <2>1 DEF Reorg, IInv, TypeOK
<1>7. CASE GapCommit \/ GapAttemptFails
  <2>1. gapFetched \in Rows \/ gapPc # "save"
    BY DEF IInv, GapInv, Rows
  <2>2. Stored \subseteq Stored'
    BY <1>1, <1>7, <2>1 DEF GapCommit, GapAttemptFails, Stored
  <2> QED
    BY <1>7, <2>2 DEF GapCommit, GapAttemptFails, IInv, TypeOK
<1>8. CASE UNCHANGED database
  BY <1>8
<1> QED
  BY <1>4, <1>5, <1>6, <1>7, <1>8
  DEF Next, vars, NewBlock, StartBackfill, PlanBackfill, BackfillFetch,
      StartForward, PlanForward, ForwardFetch, RecordGuzzlers, Crash, FindGaps,
      GapFetch, GapCrash, ReadSafeHead, Fetch

\* The action property holds of every behaviour.
THEOREM CursorsNeverRunBack == Spec => CursorsAdvance
  BY Invariance, AdvancesInNext, PTL DEF Spec, CursorsAdvance

-----------------------------------------------------------------------------
(***************************************************************************)
(* Ingest implements IndexedChain: three writers that share nothing but    *)
(* two cursors and a table of rows keep the promise of one indexed chain.  *)
(* A commit maps to the one action of IndexedChain that moves its cursor,  *)
(* or, when it repeats a block whose first commit was reported as failed,  *)
(* to a stuttering step; everything else stutters.  Beyond IInv, which     *)
(* says what the writers have in hand, the gap filler's action needs that  *)
(* its list, read once per cycle, still names only numbers between two     *)
(* stored blocks (HoleInv).                                                *)
(***************************************************************************)

\* The rows a reader of IndexedChain finds.
Indexed == {b \in Blocks : blocks[b] = "canonical"}

InHole(b) == \E lo, hi \in Stored : lo < b /\ b < hi

\* The gap filler's list names numbers between two stored blocks.
HoleInv == \A b \in gapTodo : InHole(b)

-----------------------------------------------------------------------------
\* Every stored row is a canonical one, so the two sets are the same.
LEMMA IndexedIsStored ==
  ASSUME IInv
  PROVE  Indexed = Stored
  BY DEF IInv, FinalInv, TypeOK, Rows, Indexed, Stored

\* What is final for Ingest is final for IndexedChain.
LEMMA FinalForBoth ==
  ASSUME IInv, NEW b \in Blocks, Final(b)
  PROVE  Chain!Final(b)
  BY BoundsAssumption DEF Final, Chain!Final, Blocks, IInv, TypeOK

\* A step takes no row away.
LEMMA StoredGrows ==
  ASSUME IInv, [Next]_vars
  PROVE  Stored \subseteq Stored'
<1>1. CASE AdvancingStep
  BY <1>1 DEF AdvancingStep
<1>2. CASE UNCHANGED database
  BY <1>2 DEF database, Stored
<1> QED
  BY <1>1, <1>2, AdvancesInNext

\* The list is filled with numbers in holes, and otherwise only worked off.
LEMMA HoleStep ==
  ASSUME IInv, HoleInv, [Next]_vars
  PROVE  HoleInv'
<1>1. Stored \subseteq Stored'
  BY StoredGrows
<1>2. gapTodo' \subseteq gapTodo \cup Gaps
  <2>1. CASE FindGaps
    BY <2>1 DEF FindGaps, FirstGaps
  <2>2. CASE GapCommit \/ GapAttemptFails \/ GapCrash
    BY <2>2 DEF GapCommit, GapAttemptFails, GapCrash, Advance
  <2>3. CASE UNCHANGED gapTodo
    BY <2>3
  <2> QED
    BY <2>1, <2>2, <2>3
    DEF Next, vars, gapVars, NewBlock, Reorg, StartBackfill, PlanBackfill,
        BackfillFetch, BackfillCommit, BackfillSaveFails, StartForward,
        PlanForward, ForwardFetch, ForwardCommit, ForwardSaveFails,
        RecordGuzzlers, Crash, GapFetch, ReadSafeHead, Fetch
<1>3. \A b \in gapTodo \cup Gaps : InHole(b)
  BY DEF HoleInv, InHole, Gaps
<1> QED
  BY <1>1, <1>2, <1>3 DEF HoleInv, InHole

-----------------------------------------------------------------------------
(* The steps that write, one by one. *)

\* The forward scanner's commit appends the next block, or repeats the last.
LEMMA ForwardRefines ==
  ASSUME IInv, NEW p \in Procs, ForwardCommit(p) \/ ForwardSaveFails(p)
  PROVE  Chain!IndexForward \/ UNCHANGED Chain!vars
<1>1. pc[p] = "forwardSave" /\ p = "near"
  BY DEF ForwardCommit, ForwardSaveFails, IInv, LocalInv, ForwardPCs
<1>2. next[p] \in Blocks /\ Final(next[p])
  BY <1>1, BlockInHand DEF ForwardPCs
<1>3. fetched[p] = "canonical"
  BY <1>1 DEF IInv, LocalInv, SavePCs
<1>4. lastSuccessfulBlock # None =>
        next[p] \in {lastSuccessfulBlock, lastSuccessfulBlock + 1}
  BY <1>1 DEF IInv, ForwardInv
<1>5. UNCHANGED <<head, backfillNextBlock>>
  BY DEF ForwardCommit, ForwardSaveFails, chain
<1>6. CASE SaveBlock(next[p], fetched[p]) /\ lastSuccessfulBlock' = next[p]
  <2>1. Indexed' = Indexed \cup {next[p]}
    BY <1>2, <1>3, <1>6 DEF SaveBlock, Indexed, IInv, TypeOK
  <2>2. CASE next[p] = lastSuccessfulBlock
    <3>1. next[p] \in Indexed
      BY <1>2, <2>2, CursorStored, IndexedIsStored, NoneAssumption DEF Blocks
    <3> QED
      BY <1>5, <1>6, <2>1, <2>2, <3>1 DEF Chain!vars, Indexed
  <2>3. CASE next[p] # lastSuccessfulBlock
    <3>1. next[p] # None /\ Chain!Final(next[p])
      BY <1>2, FinalForBoth, NoneAssumption DEF Blocks
    <3> QED
      BY <1>4, <1>5, <1>6, <2>1, <2>3, <3>1 DEF Chain!IndexForward, Indexed
  <2> QED
    BY <2>2, <2>3
<1>7. CASE UNCHANGED <<blocks, lastSuccessfulBlock>>
  BY <1>5, <1>7 DEF Chain!vars
<1> QED
  BY <1>6, <1>7 DEF ForwardCommit, ForwardSaveFails

\* The backfill's commit goes one block further down, starts over below the
\* lowest it has reached, or repeats its last block.
LEMMA BackwardRefines ==
  ASSUME IInv, NEW p \in Procs, BackfillCommit(p) \/ BackfillSaveFails(p)
  PROVE  Chain!IndexBackward \/ UNCHANGED Chain!vars
<1>1. pc[p] = "backfillSave"
  BY DEF BackfillCommit, BackfillSaveFails
<1>2. next[p] \in Blocks /\ Final(next[p]) /\ OldestBlock <= next[p]
  BY <1>1, BlockInHand DEF BackfillPCs, IInv, LocalInv
<1>3. fetched[p] = "canonical"
  BY <1>1 DEF IInv, LocalInv, SavePCs
<1>4. backfillNextBlock # None =>
        /\ next[p] <= backfillNextBlock + 1
        /\ backfillNextBlock \in Int /\ backfillNextBlock + 1 \in Stored
  BY <1>1, BoundsAssumption DEF IInv, BackfillInv, BackfillPCs, TypeOK
<1>5. UNCHANGED <<head, lastSuccessfulBlock>>
  BY DEF BackfillCommit, BackfillSaveFails, chain
<1>6. CASE SaveBlock(next[p], fetched[p]) /\ backfillNextBlock' = next[p] - 1
  <2>1. Indexed' = Indexed \cup {next[p]}
    BY <1>2, <1>3, <1>6 DEF SaveBlock, Indexed, IInv, TypeOK
  <2>2. next[p] \in Int /\ next[p] - 1 # None /\ backfillNextBlock' + 1 = next[p]
    BY <1>2, <1>6, NoneAssumption DEF Blocks
  <2>3. CASE backfillNextBlock # None /\ next[p] = backfillNextBlock + 1
    <3>1. next[p] \in Indexed /\ backfillNextBlock' = backfillNextBlock
      BY <1>4, <1>6, <2>2, <2>3, IndexedIsStored
    <3> QED
      BY <1>5, <2>1, <3>1 DEF Chain!vars, Indexed
  <2>4. CASE backfillNextBlock = None \/ next[p] # backfillNextBlock + 1
    <3>1. backfillNextBlock # None => backfillNextBlock' < backfillNextBlock
      BY <1>4, <1>6, <2>2, <2>4
    <3>2. Chain!Final(next[p])
      BY <1>2, FinalForBoth
    <3> QED
      BY <1>2, <1>5, <1>6, <2>1, <2>2, <3>1, <3>2 DEF Chain!IndexBackward, Indexed
  <2> QED
    BY <2>3, <2>4
<1>7. CASE UNCHANGED <<blocks, backfillNextBlock>>
  BY <1>5, <1>7 DEF Chain!vars
<1> QED
  BY <1>6, <1>7 DEF BackfillCommit, BackfillSaveFails

\* The gap filler stores a block in a hole, or one that another writer, or a
\* commit whose answer was lost, has stored since the list was read.
LEMMA GapRefines ==
  ASSUME IInv, HoleInv, GapCommit \/ GapAttemptFails
  PROVE  Chain!FillHole \/ UNCHANGED Chain!vars
<1>1. UNCHANGED <<head, lastSuccessfulBlock, backfillNextBlock>>
  BY DEF GapCommit, GapAttemptFails, chain
<1>2. ASSUME NEW b \in Blocks, IsNextGap(b), gapPc = "save", SaveBlock(b, gapFetched)
      PROVE  Chain!FillHole
  <2>1. gapFetched = "canonical"
    BY <1>2 DEF IInv, GapInv
  <2>2. Indexed' = Indexed \cup {b}
    BY <1>2, <2>1 DEF SaveBlock, Indexed, IInv, TypeOK
  <2>3. Chain!Final(b)
    BY <1>2, GapInHand, FinalForBoth
  <2>4. Chain!Internal(b)
    BY <1>2, IndexedIsStored DEF HoleInv, InHole, IsNextGap, Chain!Internal, Indexed
  <2> QED
    BY <1>1, <2>2, <2>3, <2>4 DEF Chain!FillHole, Indexed
<1>3. CASE UNCHANGED blocks
  BY <1>1, <1>3 DEF Chain!vars
<1> QED
  BY <1>2, <1>3 DEF GapCommit, GapAttemptFails

\* A reorg within the confirmation depth is nothing a reader can see.
LEMMA ReorgRefines ==
  ASSUME IInv, Reorg
  PROVE  UNCHANGED Chain!vars
<1>1. \A b \in Blocks : Stale(blocks[b], b) = blocks[b]
  BY BoundsAssumption, DeploymentAssumption
  DEF IInv, TypeOK, FinalInv, Final, Stale, Replaced, Blocks, Rows
<1>2. blocks' = blocks
  BY <1>1 DEF Reorg, IInv, TypeOK
<1> QED
  BY <1>2 DEF Reorg, Chain!vars

-----------------------------------------------------------------------------
\* Every step of the three writers is a step of IndexedChain or a stutter.
LEMMA StepRefines ==
  ASSUME IInv, HoleInv, [Next]_vars
  PROVE  [Chain!Next]_(Chain!vars)
<1>1. CASE NewBlock
  BY <1>1 DEF NewBlock, database, Chain!Next, Chain!Grow
<1>2. CASE Reorg
  BY <1>2, ReorgRefines
<1>3. CASE \E p \in Procs : ForwardCommit(p) \/ ForwardSaveFails(p)
  BY <1>3, ForwardRefines DEF Chain!Next
<1>4. CASE \E p \in Procs : BackfillCommit(p) \/ BackfillSaveFails(p)
  BY <1>4, BackwardRefines DEF Chain!Next
<1>5. CASE GapCommit \/ GapAttemptFails
  BY <1>5, GapRefines DEF Chain!Next
<1>6. CASE UNCHANGED <<head, database>>
  BY <1>6 DEF database, Chain!vars
<1> QED
  BY <1>1, <1>2, <1>3, <1>4, <1>5, <1>6
  DEF Next, vars, chain, database, StartBackfill, PlanBackfill, BackfillFetch,
      StartForward, PlanForward, ForwardFetch, RecordGuzzlers, Crash, FindGaps,
      GapFetch, GapCrash, ReadSafeHead, Fetch

\* The list of the gap filler never names a number outside a hole.
THEOREM GapsStayInternal == Spec => []HoleInv
<1>1. Init => HoleInv
  BY DEF Init, HoleInv
<1>2. IInv /\ HoleInv /\ [Next]_vars => HoleInv'
  BY HoleStep
<1> QED
  BY <1>1, <1>2, Invariance, PTL DEF Spec

\* The ingest is one indexed chain to its readers: rows are only added, each
\* of them final, and a cursor moves only together with the row of its block.
THEOREM OneChain == Spec => ImplementsIndexedChain
<1>1. Init => Chain!Init
  BY BoundsAssumption DEF Init, Chain!Init, Blocks
<1>2. IInv /\ HoleInv /\ [Next]_vars => [Chain!Next]_(Chain!vars)
  BY StepRefines
<1> QED
  BY <1>1, <1>2, Invariance, GapsStayInternal, PTL
  DEF Spec, ImplementsIndexedChain, Chain!Spec

-----------------------------------------------------------------------------
(* Arithmetic of the windows: multiples of a size.                         *)

\* Quotient and remainder.
LEMMA DivMod ==
  ASSUME NEW s \in Nat \ {0}, NEW b \in Nat
  PROVE  /\ b \div s \in Nat
         /\ b % s \in 0..(s - 1)
         /\ b = s * (b \div s) + (b % s)
  BY SMT

\* A product has no remainder.
LEMMA ModOfMultiple ==
  ASSUME NEW s \in Nat \ {0}, NEW k \in Nat
  PROVE  (s * k) % s = 0
  BY SMT

\* The order of two multiples is that of their factors, and they lie s apart.
LEMMA Spacing ==
  ASSUME NEW s \in Nat \ {0}, NEW j \in Nat, NEW k \in Nat, s * j < s * k
  PROVE  j < k /\ s * j + s <= s * k
<1>1. j < k
  BY SMT
<1> QED
  BY <1>1, SMT

LEMMA Below ==
  ASSUME NEW s \in Nat \ {0}, NEW k \in Nat
  PROVE  k <= s * k /\ s * k \in Nat
  BY SMT

\* The multiples of s.
LEMMA MultipleIs ==
  ASSUME NEW s \in Nat \ {0}, NEW b \in Nat
  PROVE  b % s = 0 <=> \E k \in Nat : b = s * k
<1>1. b % s = 0 => b = s * (b \div s) /\ b \div s \in Nat
  BY DivMod, SMT
<1>2. ASSUME NEW k \in Nat, b = s * k PROVE b % s = 0
  BY <1>2, ModOfMultiple
<1> QED
  BY <1>1, <1>2, Zenon

\* The multiple at or below b.
LEMMA MultipleBelow ==
  ASSUME NEW s \in Nat \ {0}, NEW b \in Nat
  PROVE  /\ b - (b % s) \in 0..b
         /\ b - (b % s) > b - s
         /\ (b - (b % s)) % s = 0
<1>1. b \div s \in Nat /\ b % s \in 0..(s - 1) /\ b = s * (b \div s) + (b % s)
  BY DivMod
<1> DEFINE q == b \div s
           r == b % s
<1> HIDE DEF q, r
<1>2. q \in Nat /\ r \in 0..(s - 1) /\ b = s * q + r
  BY <1>1 DEF q, r
<1>3. s * q \in Nat
  BY <1>2, Below
<1>4. b - r = s * q
  BY <1>2, <1>3, SMT
<1>5. (b - r) % s = 0
  BY <1>2, <1>4, ModOfMultiple
<1>6. b - r \in 0..b /\ b - r > b - s
  BY <1>2, <1>3, <1>4, SMT
<1> QED
  BY <1>5, <1>6 DEF r

\* The one after it.
LEMMA NextMultiple ==
  ASSUME NEW s \in Nat \ {0}, NEW a \in Nat, a % s = 0
  PROVE  (a + s) % s = 0
<1>1. PICK j \in Nat : a = s * j
  BY MultipleIs
<1>2. a + s = s * (j + 1) /\ j + 1 \in Nat
  BY <1>1, SMT
<1> QED
  BY <1>2, ModOfMultiple

LEMMA MultiplesApart ==
  ASSUME NEW s \in Nat \ {0}, NEW a \in Nat, NEW b \in Nat, a % s = 0, b % s = 0, a < b
  PROVE  a + s <= b
<1>1. PICK j \in Nat : a = s * j
  BY MultipleIs
<1>2. PICK k \in Nat : b = s * k
  BY MultipleIs
<1> QED
  BY <1>1, <1>2, Spacing

-----------------------------------------------------------------------------
\* A non-empty set of naturals has a least element.
LEMMA Least ==
  ASSUME NEW T \in SUBSET Nat, T # {}
  PROVE  \E m \in T : \A k \in T : m <= k
<1>1. PICK m \in T : \A k \in T : <<k, m>> \notin OpToRel(<, Nat)
  BY WFMin, NatLessThanWellFounded, Zenon
<1>2. \A k, l \in Nat : k < l => <<k, l>> \in OpToRel(<, Nat)
  BY Zenon DEF OpToRel
<1>3. ASSUME NEW k \in T PROVE m <= k
  <2>1. k \in Nat /\ m \in Nat /\ ~(k < m)
    BY <1>1, <1>2
  <2> QED
    BY <2>1, SMT
<1> QED
  BY <1>3

LEMMA SizeIs ==
  ASSUME NEW i \in Aggregator!SizeIndex
  PROVE  Sizes[i] \in Nat \ {0}
<1>1. Sizes \in Seq(Nat \ {0})
  BY AggregatorBounds DEF Aggregator!AggregatorAssumption
<1> QED
  BY <1>1, SMT DEF Aggregator!SizeIndex

\* The window at which a sweep goes on: it lies on the grid, and every one before it
\* has its row.
LEMMA ResumeIs ==
  ASSUME NEW i \in Aggregator!SizeIndex, NEW f \in Aggregator!Blocks, f % Sizes[i] = 0,
         ranges[i] \subseteq Aggregator!Blocks
  PROVE  LET r == Aggregator!ResumeAfter(f, i)
         IN  /\ r \in Nat /\ r % Sizes[i] = 0 /\ f <= r
             /\ \A q \in Aggregator!Starts(Sizes[i]) : f <= q /\ q < r => q \in ranges[i]
<1> DEFINE s == Sizes[i]
           R == ranges[i]
           T == {k \in Nat : f + k * s \notin R}
           Good(r) == /\ r \notin R
                      /\ \A q \in Aggregator!Starts(s) : f <= q /\ q < r => q \in R
           r == Aggregator!ResumeAfter(f, i)
<1>1. s \in Nat \ {0} /\ MaxBlock \in Nat /\ f \in Nat /\ f <= MaxBlock
  BY SizeIs, AggregatorBounds DEF Aggregator!Blocks, Aggregator!AggregatorAssumption
<1>2. R \subseteq Aggregator!Blocks /\ f % s = 0
  OBVIOUS
<1>3. r = CHOOSE x \in {f + k * s : k \in 0..(MaxBlock + 1)} : Good(x)
  BY DEF Aggregator!ResumeAfter
<1> HIDE DEF s, R, r
<1>4. MaxBlock + 1 \in T
  <2>1. MaxBlock + 1 <= s * (MaxBlock + 1) /\ s * (MaxBlock + 1) \in Nat
    BY <1>1, Below
  <2>2. f + (MaxBlock + 1) * s > MaxBlock
    BY <1>1, <2>1, SMT
  <2> QED
    BY <1>1, <1>2, <2>2 DEF Aggregator!Blocks
<1>5. PICK m \in T : \A k \in T : m <= k
  BY <1>4, Least, T \in SUBSET Nat
<1>6. m \in 0..(MaxBlock + 1)
  <2>1. m <= MaxBlock + 1 /\ m \in Nat
    BY <1>4, <1>5
  <2> QED
    BY <1>1, <2>1, SMT
<1>7. f + m * s \notin R
  BY <1>5
<1>8. ASSUME NEW q \in Aggregator!Starts(s), f <= q, q < f + m * s
      PROVE  q \in R
  <2>1. q \in Nat /\ q % s = 0
    BY DEF Aggregator!Starts, Aggregator!Blocks
  <2>2. PICK a \in Nat : f = s * a
    BY <1>1, <1>2, MultipleIs
  <2>3. PICK b \in Nat : q = s * b
    BY <1>1, <2>1, MultipleIs
  <2>4. a <= b
    <3>1. CASE f = q
      BY <1>1, <2>2, <2>3, <3>1, SMT
    <3>2. CASE f < q
      BY <1>1, <2>2, <2>3, <3>2, Spacing
    <3> QED
      BY <1>1, <1>8, <2>1, <3>1, <3>2, SMT
  <2>5. m \in Nat /\ a + m \in Nat /\ s * (a + m) = f + m * s
    BY <1>1, <1>6, <2>2, SMT
  <2>6. b < a + m
    BY <1>1, <1>8, <2>3, <2>5, Spacing
  <2> DEFINE k == b - a
  <2>7. k \in Nat /\ k < m /\ a + k = b
    BY <2>4, <2>5, <2>6, SMT
  <2> HIDE DEF k
  <2>8. f + k * s = q
    BY <1>1, <2>2, <2>3, <2>7, SMT
  <2>9. k \notin T
    BY <1>5, <2>5, <2>7, SMT
  <2> QED
    BY <2>7, <2>8, <2>9
<1>9. Good(f + m * s)
  BY <1>7, <1>8
<1>10. \E x \in {f + k * s : k \in 0..(MaxBlock + 1)} : Good(x)
  BY <1>6, <1>9
<1>11. r \in {f + k * s : k \in 0..(MaxBlock + 1)} /\ Good(r)
  <2> HIDE DEF Good
  <2> QED
    BY <1>3, <1>10, Zenon
<1>12. PICK k \in 0..(MaxBlock + 1) : r = f + k * s
  BY <1>11
<1>13. r \in Nat /\ f <= r /\ r % s = 0
  <2>1. PICK a \in Nat : f = s * a
    BY <1>1, <1>2, MultipleIs
  <2>2. k \in Nat /\ s * k \in Nat /\ k * s = s * k
    BY <1>1, Below, SMT
  <2>3. a + k \in Nat /\ r = s * (a + k)
    BY <1>1, <1>12, <2>1, <2>2, SMT
  <2>4. r % s = 0
    BY <1>1, <2>3, ModOfMultiple
  <2> QED
    BY <1>1, <1>12, <2>2, <2>4, SMT
<1>14. \A q \in Aggregator!Starts(s) : f <= q /\ q < r => q \in R
  BY <1>11
<1> QED
  BY <1>13, <1>14 DEF s, R, r
-----------------------------------------------------------------------------
(* The range aggregator.  Between the count of a window and the upsert of  *)
(* its row the window is known to be stored, and blocks are never removed; *)
(* the window in hand lies on the grid of its size, so that the next one   *)
(* jumps over nothing.                                                     *)

WindowPCs == {"window", "save"}

SweepLocals ==
  /\ aggPc = "max" => minBlock \in Aggregator!Blocks
  /\ aggPc \in WindowPCs \cup {"resume"} => first \in Aggregator!Starts(Sizes[size])
  /\ aggPc \in WindowPCs => at \in Nat /\ at % Sizes[size] = 0
  /\ aggPc = "save" => Aggregator!Window(at, Sizes[size]) \subseteq stored

AggregatorInv ==
  /\ Aggregator!TypeOK /\ Aggregator!CompleteOnly /\ Aggregator!NoWindowLeftBehind
  /\ SweepLocals

LEMMA StartsAreBlocks ==
  ASSUME NEW i \in Aggregator!SizeIndex
  PROVE  /\ Sizes[i] \in Nat \ {0}
         /\ \A b : b \in Aggregator!Starts(Sizes[i]) <=> b \in Aggregator!Blocks /\ b % Sizes[i] = 0
  BY SizeIs DEF Aggregator!Starts

LEMMA AggregatorStarts ==
  Aggregator!Init => AggregatorInv
<1> SUFFICES ASSUME Aggregator!Init PROVE AggregatorInv
  OBVIOUS
<1>1. 1 \in Aggregator!SizeIndex /\ MaxSweepFailures \in Nat
  BY AggregatorBounds, EmptySeq, SMT DEF Aggregator!AggregatorAssumption, Aggregator!SizeIndex
<1>2. Aggregator!TypeOK
  BY <1>1 DEF Aggregator!Init, Aggregator!TypeOK
<1>3. Aggregator!CompleteOnly /\ Aggregator!NoWindowLeftBehind /\ SweepLocals
  BY DEF Aggregator!Init, Aggregator!CompleteOnly, Aggregator!NoWindowLeftBehind, SweepLocals,
     WindowPCs
<1> QED
  BY <1>2, <1>3 DEF AggregatorInv

\* The steps that leave the loop between two windows: nothing is promised there.
LEMMA SweepMovesOn ==
  ASSUME AggregatorInv, UNCHANGED <<stored, ranges>>, Aggregator!Forget,
         aggFailures' \in 0..MaxSweepFailures, size' \in Aggregator!SizeIndex,
         aggPc' \in {"min", "idle"}
  PROVE  AggregatorInv'
<1>1. Aggregator!TypeOK'
  BY DEF AggregatorInv, Aggregator!TypeOK, Aggregator!Forget
<1>2. Aggregator!CompleteOnly'
  BY DEF AggregatorInv, Aggregator!CompleteOnly
<1>3. Aggregator!NoWindowLeftBehind' /\ SweepLocals'
  BY DEF Aggregator!NoWindowLeftBehind, SweepLocals, WindowPCs
<1> QED
  BY <1>1, <1>2, <1>3 DEF AggregatorInv

LEMMA NextSizeHolds ==
  ASSUME AggregatorInv, UNCHANGED <<stored, ranges, aggFailures>>, Aggregator!NextSize
  PROVE  AggregatorInv'
<1>1. size \in Aggregator!SizeIndex /\ Len(Sizes) \in Nat
  BY AggregatorBounds, LenProperties
  DEF AggregatorInv, Aggregator!TypeOK, Aggregator!AggregatorAssumption
<1>2. size' \in Aggregator!SizeIndex /\ aggPc' \in {"min", "idle"} /\ Aggregator!Forget
  BY <1>1, SMT DEF Aggregator!NextSize, Aggregator!SizeIndex
<1> QED
  BY <1>2, SweepMovesOn DEF AggregatorInv, Aggregator!TypeOK

LEMMA SweepFailsHolds ==
  ASSUME AggregatorInv, Aggregator!SweepFails
  PROVE  AggregatorInv'
<1>1. aggFailures' \in 0..MaxSweepFailures
  BY AggregatorBounds, SMT DEF AggregatorInv, Aggregator!TypeOK, Aggregator!SweepFails,
     Aggregator!AggregatorAssumption
<1>2. 1 \in Aggregator!SizeIndex
  BY AggregatorBounds, EmptySeq, SMT DEF Aggregator!AggregatorAssumption, Aggregator!SizeIndex
<1> QED
  BY <1>1, <1>2, SweepMovesOn DEF Aggregator!SweepFails

LEMMA StoreBlockHolds ==
  ASSUME AggregatorInv, NEW b \in Aggregator!Blocks, Aggregator!StoreBlock(b)
  PROVE  AggregatorInv'
<1> USE DEF Aggregator!StoreBlock, Aggregator!locals
<1>1. Aggregator!TypeOK'
  BY DEF AggregatorInv, Aggregator!TypeOK
<1>2. Aggregator!CompleteOnly'
  BY DEF AggregatorInv, Aggregator!CompleteOnly
<1>3. Aggregator!NoWindowLeftBehind'
  BY DEF AggregatorInv, Aggregator!NoWindowLeftBehind
<1>4. SweepLocals'
  BY DEF AggregatorInv, SweepLocals
<1> QED
  BY <1>1, <1>2, <1>3, <1>4 DEF AggregatorInv

LEMMA BeginSweepHolds ==
  ASSUME AggregatorInv, Aggregator!BeginSweep \/ Aggregator!ReadMin
  PROVE  AggregatorInv'
<1> USE DEF Aggregator!BeginSweep, Aggregator!ReadMin, Aggregator!locals
<1>1. Aggregator!TypeOK'
  BY DEF AggregatorInv, Aggregator!TypeOK
<1>2. Aggregator!CompleteOnly'
  BY DEF AggregatorInv, Aggregator!CompleteOnly
<1>3. Aggregator!NoWindowLeftBehind' /\ SweepLocals'
  BY DEF AggregatorInv, Aggregator!TypeOK, Aggregator!NoWindowLeftBehind, SweepLocals, WindowPCs
<1> QED
  BY <1>1, <1>2, <1>3 DEF AggregatorInv

LEMMA ReadMaxHolds ==
  ASSUME AggregatorInv, Aggregator!ReadMax
  PROVE  AggregatorInv'
<1>1. PICK max \in stored :
        IF Aggregator!FirstStart(minBlock, Sizes[size])
             > Aggregator!rangeStartFor(max, Sizes[size])
        THEN Aggregator!NextSize
        ELSE /\ maxBlock' = max
             /\ first' = Aggregator!FirstStart(minBlock, Sizes[size])
             /\ last' = Aggregator!rangeStartFor(max, Sizes[size])
             /\ aggPc' = "resume"
             /\ UNCHANGED <<size, minBlock, at>>
  BY DEF Aggregator!ReadMax
<1>2. UNCHANGED <<stored, ranges, aggFailures>> /\ aggPc = "max"
  BY DEF Aggregator!ReadMax
<1> DEFINE s == Sizes[size]
           f == Aggregator!FirstStart(minBlock, s)
           l == Aggregator!rangeStartFor(max, s)
<1>3. CASE f > l
  BY <1>1, <1>2, <1>3, NextSizeHolds
<1>4. CASE ~(f > l)
  <2>1. /\ maxBlock' = max /\ first' = f /\ last' = l /\ aggPc' = "resume"
        /\ UNCHANGED <<size, minBlock, at>>
    BY <1>1, <1>4
  <2>2. /\ size \in Aggregator!SizeIndex /\ max \in Aggregator!Blocks
        /\ minBlock \in Aggregator!Blocks
    BY <1>2 DEF AggregatorInv, Aggregator!TypeOK, SweepLocals
  <2>3. /\ s \in Nat \ {0} /\ MaxBlock \in Nat /\ max \in Nat /\ minBlock \in Nat
        /\ max <= MaxBlock
    BY <2>2, SizeIs, AggregatorBounds DEF Aggregator!Blocks, Aggregator!AggregatorAssumption
  <2>4. l \in 0..max
    BY <2>3, MultipleBelow DEF Aggregator!rangeStartFor
  <2> DEFINE m == Aggregator!rangeStartFor(minBlock, s)
  <2>5. m \in 0..minBlock /\ m % s = 0
    BY <2>3, MultipleBelow DEF Aggregator!rangeStartFor
  <2>6. f = IF m < minBlock THEN m + s ELSE m
    BY DEF Aggregator!FirstStart
  <2> HIDE DEF f, l, m, s
  <2>7. (m + s) % s = 0
    <3>1. m \in Nat /\ m % s = 0 /\ s \in Nat \ {0}
      BY <2>3, <2>5
    <3> QED
      BY <3>1, NextMultiple, Zenon
  <2>8. f % s = 0 /\ f \in Nat
    BY <2>3, <2>5, <2>6, <2>7
  <2>9. f \in Aggregator!Blocks /\ l \in Aggregator!Blocks
    BY <1>4, <2>3, <2>4, <2>8, SMT DEF Aggregator!Blocks
  <2>10. f \in Aggregator!Starts(s)
    BY <2>8, <2>9 DEF Aggregator!Starts
  <2>11. Aggregator!TypeOK'
    BY <1>2, <2>1, <2>2, <2>9 DEF AggregatorInv, Aggregator!TypeOK
  <2>12. Aggregator!CompleteOnly'
    BY <1>2 DEF AggregatorInv, Aggregator!CompleteOnly
  <2>13. Aggregator!NoWindowLeftBehind'
    BY <2>1 DEF Aggregator!NoWindowLeftBehind
  <2>14. SweepLocals'
    BY <2>1, <2>10 DEF SweepLocals, WindowPCs, s
  <2> QED
    BY <2>11, <2>12, <2>13, <2>14 DEF AggregatorInv
<1> QED
  BY <1>3, <1>4

LEMMA ResumeHolds ==
  ASSUME AggregatorInv, Aggregator!Resume
  PROVE  AggregatorInv'
<1> DEFINE s == Sizes[size]
           r == Aggregator!ResumeAfter(first, size)
<1>1. /\ aggPc = "resume" /\ at' = r /\ aggPc' = "window"
      /\ UNCHANGED <<stored, ranges, size, minBlock, maxBlock, first, last, aggFailures>>
  BY DEF Aggregator!Resume
<1>2. size \in Aggregator!SizeIndex /\ first \in Aggregator!Starts(s)
  BY <1>1 DEF AggregatorInv, Aggregator!TypeOK, SweepLocals, WindowPCs
<1>3. first \in Aggregator!Blocks /\ first % s = 0 /\ ranges[size] \subseteq Aggregator!Blocks
  BY <1>2 DEF AggregatorInv, Aggregator!TypeOK, Aggregator!Starts
<1>4. /\ r \in Nat /\ r % s = 0 /\ first <= r
      /\ \A q \in Aggregator!Starts(s) : first <= q /\ q < r => q \in ranges[size]
  BY <1>2, <1>3, ResumeIs
<1> HIDE DEF s, r
<1>5. Aggregator!TypeOK'
  BY <1>1, <1>4 DEF AggregatorInv, Aggregator!TypeOK
<1>6. Aggregator!CompleteOnly'
  BY <1>1 DEF AggregatorInv, Aggregator!CompleteOnly
<1>7. Aggregator!NoWindowLeftBehind'
  BY <1>1, <1>4 DEF Aggregator!NoWindowLeftBehind, s
<1>8. SweepLocals'
  BY <1>1, <1>2, <1>4 DEF SweepLocals, WindowPCs, s
<1> QED
  BY <1>5, <1>6, <1>7, <1>8 DEF AggregatorInv

\* A window counted in full is stored in full.
LEMMA FullWindow ==
  ASSUME NEW a \in Nat, NEW s \in Nat \ {0}, NEW S,
         Cardinality(Aggregator!Window(a, s) \cap S) = s
  PROVE  Aggregator!Window(a, s) \subseteq S
<1> DEFINE W == Aggregator!Window(a, s)
<1>1. W = a..(a + s - 1) /\ a \in Int /\ a + s - 1 \in Int /\ a <= a + s - 1
  BY DEF Aggregator!Window
<1>2. IsFiniteSet(W) /\ Cardinality(W) = s
  BY <1>1, FS_Interval
<1> HIDE DEF W
<1>3. W \cap S \in SUBSET W /\ Cardinality(W \cap S) = Cardinality(W)
  BY <1>2 DEF W
<1>4. W \cap S = W
  BY <1>2, <1>3, FS_Subset
<1> QED
  BY <1>4 DEF W

LEMMA SameCardinality ==
  ASSUME NEW S
  PROVE  Aggregator!Cardinality(S) = Cardinality(S)
  BY DEF Aggregator!Cardinality, Cardinality

LEMMA ReadWindowHolds ==
  ASSUME AggregatorInv, Aggregator!ReadWindow
  PROVE  AggregatorInv'
<1>1. /\ aggPc = "window" /\ aggPc' = "save"
      /\ UNCHANGED <<stored, ranges, size, minBlock, maxBlock, first, last, at, aggFailures>>
      /\ Cardinality(Aggregator!Window(at, Sizes[size]) \cap stored) = Sizes[size]
  <2>1. /\ aggPc = "window" /\ aggPc' = "save"
        /\ UNCHANGED <<stored, ranges, size, Aggregator!locals, aggFailures>>
        /\ Cardinality(Aggregator!Window(at, Sizes[size]) \cap stored) = Sizes[size]
    BY SameCardinality DEF Aggregator!ReadWindow
  <2> QED
    BY <2>1 DEF Aggregator!locals
<1>2. size \in Aggregator!SizeIndex /\ at \in Nat /\ at % Sizes[size] = 0
  BY <1>1 DEF AggregatorInv, Aggregator!TypeOK, SweepLocals, WindowPCs
<1>3. Aggregator!Window(at, Sizes[size]) \subseteq stored
  BY <1>1, <1>2, SizeIs, FullWindow
<1>4. Aggregator!TypeOK'
  BY <1>1 DEF AggregatorInv, Aggregator!TypeOK
<1>5. Aggregator!CompleteOnly'
  BY <1>1 DEF AggregatorInv, Aggregator!CompleteOnly
<1>6. Aggregator!NoWindowLeftBehind'
  BY <1>1 DEF AggregatorInv, Aggregator!NoWindowLeftBehind
<1>7. SweepLocals'
  BY <1>1, <1>3 DEF AggregatorInv, SweepLocals, WindowPCs
<1> QED
  BY <1>4, <1>5, <1>6, <1>7 DEF AggregatorInv

LEMMA SaveRangeHolds ==
  ASSUME AggregatorInv, Aggregator!SaveRange
  PROVE  AggregatorInv'
<1> DEFINE s == Sizes[size]
<1>1. /\ aggPc = "save" /\ aggPc' = "window"
      /\ ranges' = [ranges EXCEPT ![size] = @ \cup {at}] /\ at' = at + s
      /\ UNCHANGED <<stored, size, minBlock, maxBlock, first, last, aggFailures>>
  BY DEF Aggregator!SaveRange
<1>2. /\ size \in Aggregator!SizeIndex /\ at \in Nat /\ at % s = 0
      /\ Aggregator!Window(at, s) \subseteq stored /\ first \in Aggregator!Starts(s)
      /\ stored \subseteq Aggregator!Blocks
      /\ ranges \in [Aggregator!SizeIndex -> SUBSET Aggregator!Blocks]
  BY <1>1 DEF AggregatorInv, Aggregator!TypeOK, SweepLocals, WindowPCs
<1>3. s \in Nat \ {0}
  BY <1>2, SizeIs
<1>4. at \in Aggregator!Starts(s)
  <2>1. at \in Aggregator!Window(at, s)
    BY <1>2, <1>3, SMT DEF Aggregator!Window
  <2> QED
    BY <1>2, <2>1 DEF Aggregator!Starts
<1> HIDE DEF s
<1>5. \A i \in Aggregator!SizeIndex :
        ranges'[i] = IF i = size THEN ranges[i] \cup {at} ELSE ranges[i]
  BY <1>1, <1>2
<1>6. Aggregator!TypeOK'
  <2>1. ranges' \in [Aggregator!SizeIndex -> SUBSET Aggregator!Blocks]
    BY <1>1, <1>2, <1>4 DEF Aggregator!Starts
  <2>2. \A i \in Aggregator!SizeIndex : ranges'[i] \subseteq Aggregator!Starts(Sizes[i])
    BY <1>4, <1>5 DEF AggregatorInv, Aggregator!TypeOK, s
  <2> QED
    BY <1>1, <1>2, <1>3, <2>1, <2>2 DEF AggregatorInv, Aggregator!TypeOK
<1>7. Aggregator!CompleteOnly'
  BY <1>1, <1>2, <1>5 DEF AggregatorInv, Aggregator!CompleteOnly, s
<1>8. Aggregator!NoWindowLeftBehind'
  <2> SUFFICES ASSUME NEW q \in Aggregator!Starts(s), first <= q, q < at + s
               PROVE  q \in ranges'[size]
    BY <1>1 DEF Aggregator!NoWindowLeftBehind, s
  <2>1. q \in Nat /\ q % s = 0
    BY DEF Aggregator!Starts, Aggregator!Blocks
  <2>2. CASE q < at
    <3>1. q \in ranges[size]
      BY <1>1, <2>2 DEF AggregatorInv, Aggregator!NoWindowLeftBehind, s
    <3> QED
      BY <1>2, <1>5, <3>1
  <2>3. CASE ~(q < at)
    <3>1. at < q => at + s <= q
      BY <1>2, <1>3, <2>1, MultiplesApart
    <3>2. q = at
      BY <1>2, <1>3, <2>1, <2>3, <3>1, SMT
    <3> QED
      BY <1>2, <1>5, <3>2
  <2> QED
    BY <2>2, <2>3
<1>9. SweepLocals'
  <2>1. at + s \in Nat /\ (at + s) % s = 0
    <3>1. (at + s) % s = 0
      BY <1>2, <1>3, NextMultiple, Zenon
    <3> QED
      BY <1>2, <1>3, <3>1
  <2> QED
    BY <1>1, <1>2, <2>1 DEF SweepLocals, WindowPCs, s
<1> QED
  BY <1>6, <1>7, <1>8, <1>9 DEF AggregatorInv

LEMMA AggregatorStepHolds ==
  ASSUME AggregatorInv, [Aggregator!Next]_aggregatorVars
  PROVE  AggregatorInv'
<1>1. ASSUME Aggregator!SweepStep PROVE AggregatorInv'
  <2>1. ASSUME Aggregator!EndWindows PROVE AggregatorInv'
    BY <2>1, NextSizeHolds DEF Aggregator!EndWindows
  <2> QED
    BY <1>1, <2>1, BeginSweepHolds, ReadMaxHolds, ResumeHolds, ReadWindowHolds, SaveRangeHolds
    DEF Aggregator!SweepStep
<1>2. ASSUME UNCHANGED aggregatorVars PROVE AggregatorInv'
  <2> USE <1>2 DEF aggregatorVars
  <2>1. Aggregator!TypeOK'
    BY DEF AggregatorInv, Aggregator!TypeOK
  <2>2. Aggregator!CompleteOnly' /\ Aggregator!NoWindowLeftBehind'
    BY DEF AggregatorInv, Aggregator!CompleteOnly, Aggregator!NoWindowLeftBehind
  <2>3. SweepLocals'
    BY DEF AggregatorInv, SweepLocals
  <2> QED
    BY <2>1, <2>2, <2>3 DEF AggregatorInv
<1> QED
  BY <1>1, <1>2, SweepFailsHolds, StoreBlockHolds DEF Aggregator!Next
-----------------------------------------------------------------------------
(* The precomputed response.  A recompute that read too early always has   *)
(* the pending mark of the notification it missed, and an armed timer      *)
(* never runs beside a recompute: this is what survives the two ends of a  *)
(* recompute and of a coalescing window.                                   *)

\* Notifications are of stored blocks.
NoticesInv == notices <= data /\ told <= data

\* The recompute, the timers and the first response.
ComputeInv ==
  /\ read # None => computing
  /\ delayTimer => recent /\ ~computing
  /\ ~started => ~computing /\ ~delayTimer /\ ~refreshTimer

\* A recompute that has read the database before the last notification will run again.
ReadBehindInv == ~stopped /\ failures = 0 /\ read # None /\ read < told => pending

PrecomputedInv ==
  /\ Precomputed!TypeOK /\ Precomputed!NoWakeupLost /\ Precomputed!QuietOnceStopped
  /\ NoticesInv /\ ComputeInv /\ ReadBehindInv

LEMMA PrecomputedStarts ==
  Precomputed!Init => PrecomputedInv
<1> SUFFICES ASSUME Precomputed!Init PROVE PrecomputedInv
  OBVIOUS
<1>1. 0 \in Precomputed!Versions /\ 0 \in 0..MaxComputeFailures
  BY PrecomputedBounds DEF Precomputed!PrecomputedAssumption, Precomputed!Versions
<1>2. Precomputed!TypeOK
  BY <1>1 DEF Precomputed!Init, Precomputed!TypeOK
<1>3. Precomputed!NoWakeupLost /\ Precomputed!QuietOnceStopped
  BY Zenon DEF Precomputed!Init, Precomputed!NoWakeupLost, Precomputed!QuietOnceStopped
<1>4. NoticesInv /\ ComputeInv /\ ReadBehindInv
  BY DEF Precomputed!Init, NoticesInv, ComputeInv, ReadBehindInv
<1> QED
  BY <1>2, <1>3, <1>4 DEF PrecomputedInv

\* What the invariant says of the numbers.
LEMMA PrecomputedTypes ==
  ASSUME PrecomputedInv
  PROVE  /\ data \in Nat /\ data <= MaxVersion /\ told \in Nat /\ notices \in Nat
         /\ cached \in Nat \/ cached = None
         /\ read \in Nat \/ read = None
         /\ None \notin Nat /\ MaxVersion \in Nat /\ MaxComputeFailures \in Nat
         /\ failures \in 0..MaxComputeFailures
  BY PrecomputedBounds
  DEF PrecomputedInv, Precomputed!TypeOK, Precomputed!Versions, Precomputed!PrecomputedAssumption

LEMMA StoredHolds ==
  ASSUME PrecomputedInv, Precomputed!StoreBlock
  PROVE  PrecomputedInv'
<1>1. /\ data < MaxVersion /\ data' = data + 1 /\ notices' \in {notices, notices + 1}
      /\ UNCHANGED <<cached, computing, read, pending, recent, delayTimer, refreshTimer,
                     started, stopped, failures, told>>
  BY DEF Precomputed!StoreBlock, Precomputed!clocks
<1>2. NoticesInv /\ data \in Nat /\ notices \in Nat /\ told \in Nat /\ MaxVersion \in Nat
  BY PrecomputedTypes DEF PrecomputedInv
<1>3. data' \in Precomputed!Versions /\ notices' \in Precomputed!Versions /\ NoticesInv'
  BY <1>1, <1>2, SMT DEF NoticesInv, Precomputed!Versions
<1>4. Precomputed!TypeOK'
  BY <1>1, <1>3, Zenon DEF PrecomputedInv, Precomputed!TypeOK
<1>5. Precomputed!NoWakeupLost' /\ Precomputed!QuietOnceStopped' /\ ComputeInv' /\ ReadBehindInv'
  BY <1>1, Zenon DEF PrecomputedInv, Precomputed!NoWakeupLost, Precomputed!QuietOnceStopped,
     ComputeInv, ReadBehindInv
<1> QED
  BY <1>3, <1>4, <1>5 DEF PrecomputedInv

\* markDirty, for a notification that is told or for the refresh: whatever it finds, a
\* recompute that reads after it runs or is due.
LEMMA MarkDirtyHolds ==
  ASSUME PrecomputedInv, Precomputed!MarkDirty, started \/ stopped,
         UNCHANGED <<data, cached, refreshTimer, started, stopped, failures>>,
         told' \in {told, data}, notices' \in Precomputed!Versions, notices' <= notices
  PROVE  PrecomputedInv'
<1>1. data \in Nat /\ notices \in Nat /\ told \in Nat /\ None \notin Nat
  BY PrecomputedTypes
<1>2. NoticesInv'
  BY <1>1, SMT DEF PrecomputedInv, NoticesInv, Precomputed!Versions
<1>3. told' \in Precomputed!Versions
  BY DEF PrecomputedInv, Precomputed!TypeOK
<1>4. CASE stopped
  <2>1. UNCHANGED <<computing, read, pending, recent, delayTimer, refreshTimer>>
    BY <1>4 DEF Precomputed!MarkDirty, Precomputed!clocks
  <2>2. Precomputed!TypeOK'
    BY <1>3, <2>1, Zenon DEF PrecomputedInv, Precomputed!TypeOK
  <2>3. /\ stopped'
        /\ (started' <=> started) /\ (delayTimer' <=> delayTimer)
        /\ (refreshTimer' <=> refreshTimer) /\ (recent' <=> recent) /\ (computing' <=> computing)
        /\ read' = read
    BY <1>4, <2>1
  <2>4. Precomputed!NoWakeupLost' /\ ReadBehindInv'
    BY <2>3, Zenon DEF Precomputed!NoWakeupLost, ReadBehindInv
  <2>5. Precomputed!QuietOnceStopped'
    BY <1>4, <2>3, Zenon DEF PrecomputedInv, Precomputed!QuietOnceStopped
  <2>6. ComputeInv'
    BY <2>3, Zenon DEF PrecomputedInv, ComputeInv
  <2> QED
    BY <1>2, <2>2, <2>4, <2>5, <2>6 DEF PrecomputedInv
<1>5. CASE ~stopped /\ computing
  <2>1. pending' = TRUE /\ UNCHANGED <<computing, read, recent, delayTimer, refreshTimer>>
    BY <1>5 DEF Precomputed!MarkDirty, Precomputed!clocks
  <2>2. Precomputed!TypeOK'
    BY <1>3, <2>1, Zenon DEF PrecomputedInv, Precomputed!TypeOK
  <2>3. /\ Precomputed!NoWakeupLost' /\ Precomputed!QuietOnceStopped' /\ ComputeInv'
        /\ ReadBehindInv'
    BY <1>5, <2>1, Zenon DEF PrecomputedInv, Precomputed!NoWakeupLost,
       Precomputed!QuietOnceStopped, ComputeInv, ReadBehindInv
  <2> QED
    BY <1>2, <2>2, <2>3 DEF PrecomputedInv
<1>6. CASE ~stopped /\ ~computing /\ ~recent
  <2>1. /\ computing' = TRUE /\ read' = None /\ recent' = TRUE
        /\ UNCHANGED <<pending, delayTimer, refreshTimer>>
    BY <1>6 DEF Precomputed!MarkDirty, Precomputed!RunCompute, Precomputed!clocks
  <2>2. Precomputed!TypeOK'
    BY <1>3, <2>1, Zenon DEF PrecomputedInv, Precomputed!TypeOK
  <2>3. /\ Precomputed!NoWakeupLost' /\ Precomputed!QuietOnceStopped' /\ ComputeInv'
        /\ ReadBehindInv'
    BY <1>6, <2>1, Zenon DEF PrecomputedInv, Precomputed!NoWakeupLost,
       Precomputed!QuietOnceStopped, ComputeInv, ReadBehindInv
  <2> QED
    BY <1>2, <2>2, <2>3 DEF PrecomputedInv
<1>7. CASE ~stopped /\ ~computing /\ recent
  <2>1. delayTimer' = TRUE /\ UNCHANGED <<computing, read, pending, recent, refreshTimer>>
    BY <1>7 DEF Precomputed!MarkDirty
  <2>2. Precomputed!TypeOK'
    BY <1>3, <2>1, Zenon DEF PrecomputedInv, Precomputed!TypeOK
  <2>3. /\ Precomputed!NoWakeupLost' /\ Precomputed!QuietOnceStopped' /\ ComputeInv'
        /\ ReadBehindInv'
    BY <1>7, <2>1, Zenon DEF PrecomputedInv, Precomputed!NoWakeupLost,
       Precomputed!QuietOnceStopped, ComputeInv, ReadBehindInv
  <2> QED
    BY <1>2, <2>2, <2>3 DEF PrecomputedInv
<1> QED
  BY <1>4, <1>5, <1>6, <1>7, Zenon

LEMMA NotifiedHolds ==
  ASSUME PrecomputedInv, Precomputed!Notified \/ Precomputed!Refresh
  PROVE  PrecomputedInv'
<1>1. refreshTimer => started
  BY Zenon DEF PrecomputedInv, ComputeInv
<1>2. ASSUME Precomputed!Notified PROVE PrecomputedInv'
  <2>1. /\ notices > 0 /\ notices' = notices - 1 /\ told' = data /\ Precomputed!MarkDirty
        /\ UNCHANGED <<data, cached, started, stopped, failures>>
        /\ refreshTimer \/ stopped
    BY <1>2 DEF Precomputed!Notified
  <2>2. notices' \in Precomputed!Versions /\ notices' <= notices
    <3>1. notices \in Precomputed!Versions
      BY Zenon DEF PrecomputedInv, Precomputed!TypeOK
    <3> QED
      BY <2>1, <3>1, PrecomputedTypes, SMT DEF Precomputed!Versions
  <2>3. refreshTimer' = refreshTimer
    BY <2>1, Zenon DEF Precomputed!MarkDirty, Precomputed!clocks, Precomputed!RunCompute
  <2> QED
    BY <1>1, <2>1, <2>2, <2>3, MarkDirtyHolds, Zenon
<1>3. ASSUME Precomputed!Refresh PROVE PrecomputedInv'
  <2>1. /\ refreshTimer /\ Precomputed!MarkDirty
        /\ UNCHANGED <<data, notices, cached, started, stopped, failures, told>>
    BY <1>3 DEF Precomputed!Refresh
  <2>2. notices' \in Precomputed!Versions /\ notices' <= notices
    <3>1. notices \in Precomputed!Versions
      BY Zenon DEF PrecomputedInv, Precomputed!TypeOK
    <3> QED
      BY <2>1, <3>1, PrecomputedTypes, SMT DEF Precomputed!Versions
  <2>3. refreshTimer' = refreshTimer
    BY <2>1, Zenon DEF Precomputed!MarkDirty, Precomputed!clocks, Precomputed!RunCompute
  <2> QED
    BY <1>1, <2>1, <2>2, <2>3, MarkDirtyHolds, Zenon
<1> QED
  BY <1>2, <1>3

LEMMA StartHolds ==
  ASSUME PrecomputedInv, Precomputed!Start
  PROVE  PrecomputedInv'
<1>1. /\ ~started /\ started' = TRUE
      /\ computing' = TRUE /\ read' = None /\ recent' = TRUE
      /\ UNCHANGED <<data, notices, cached, pending, delayTimer, refreshTimer, stopped,
                     failures, told>>
  BY DEF Precomputed!Start, Precomputed!RunCompute, Precomputed!clocks
<1>2. Precomputed!TypeOK'
  BY <1>1, Zenon DEF PrecomputedInv, Precomputed!TypeOK
<1>3. Precomputed!NoWakeupLost' /\ Precomputed!QuietOnceStopped' /\ ComputeInv' /\ ReadBehindInv'
  BY <1>1, Zenon DEF PrecomputedInv, Precomputed!NoWakeupLost, Precomputed!QuietOnceStopped,
     ComputeInv, ReadBehindInv
<1>4. NoticesInv'
  BY <1>1, Zenon DEF PrecomputedInv, NoticesInv
<1> QED
  BY <1>2, <1>3, <1>4 DEF PrecomputedInv

LEMMA WindowEndsHolds ==
  ASSUME PrecomputedInv, Precomputed!WindowEnds
  PROVE  PrecomputedInv'
<1>1. /\ recent /\ delayTimer' = FALSE
      /\ UNCHANGED <<data, notices, cached, refreshTimer, started, stopped, failures, told>>
  BY DEF Precomputed!WindowEnds
<1>2. NoticesInv'
  BY <1>1, Zenon DEF PrecomputedInv, NoticesInv
<1>3. CASE delayTimer /\ ~stopped
  <2>1. ~computing /\ started
    BY <1>3, Zenon DEF PrecomputedInv, ComputeInv
  <2>2. computing' = TRUE /\ read' = None /\ recent' = TRUE /\ UNCHANGED pending
    BY <1>3, <2>1, Zenon DEF Precomputed!WindowEnds, Precomputed!RunCompute
  <2>3. Precomputed!TypeOK'
    BY <1>1, <2>2, Zenon DEF PrecomputedInv, Precomputed!TypeOK
  <2>4. /\ Precomputed!NoWakeupLost' /\ Precomputed!QuietOnceStopped' /\ ComputeInv'
        /\ ReadBehindInv'
    BY <1>1, <1>3, <2>1, <2>2, Zenon DEF PrecomputedInv, Precomputed!NoWakeupLost,
       Precomputed!QuietOnceStopped, ComputeInv, ReadBehindInv
  <2> QED
    BY <1>2, <2>3, <2>4 DEF PrecomputedInv
<1>4. CASE ~(delayTimer /\ ~stopped)
  <2>1. recent' = FALSE /\ UNCHANGED <<computing, read, pending>>
    BY <1>4, Zenon DEF Precomputed!WindowEnds
  <2>2. Precomputed!TypeOK'
    BY <1>1, <2>1, Zenon DEF PrecomputedInv, Precomputed!TypeOK
  <2>3. /\ Precomputed!NoWakeupLost' /\ Precomputed!QuietOnceStopped' /\ ComputeInv'
        /\ ReadBehindInv'
    BY <1>1, <1>4, <2>1, Zenon DEF PrecomputedInv, Precomputed!NoWakeupLost,
       Precomputed!QuietOnceStopped, ComputeInv, ReadBehindInv
  <2> QED
    BY <1>2, <2>2, <2>3 DEF PrecomputedInv
<1> QED
  BY <1>3, <1>4

LEMMA ReadDataHolds ==
  ASSUME PrecomputedInv, Precomputed!ReadData
  PROVE  PrecomputedInv'
<1>1. /\ computing /\ read' = data
      /\ UNCHANGED <<data, notices, cached, computing, pending, recent, delayTimer,
                     refreshTimer, started, stopped, failures, told>>
  BY DEF Precomputed!ReadData, Precomputed!clocks
<1>2. Precomputed!TypeOK'
  BY <1>1, Zenon DEF PrecomputedInv, Precomputed!TypeOK
<1>3. NoticesInv' /\ ComputeInv' /\ Precomputed!QuietOnceStopped'
  BY <1>1, Zenon DEF PrecomputedInv, NoticesInv, ComputeInv, Precomputed!QuietOnceStopped
<1>4. read' >= told' /\ ~(read' < told')
  BY <1>1, PrecomputedTypes, SMT DEF PrecomputedInv, NoticesInv
<1>5. Precomputed!NoWakeupLost' /\ ReadBehindInv'
  BY <1>1, <1>4, Zenon DEF Precomputed!NoWakeupLost, ReadBehindInv
<1> QED
  BY <1>2, <1>3, <1>5 DEF PrecomputedInv

\* The end of a recompute, whether it succeeded or not.
LEMMA EndComputeHolds ==
  ASSUME PrecomputedInv, Precomputed!EndCompute, computing,
         cached' \in Precomputed!Versions \cup {None},
         failures' \in 0..MaxComputeFailures,
         UNCHANGED <<data, notices, started, stopped, told>>,
         ~stopped /\ ~pending /\ failures' = 0 /\ cached' # None => ~(cached' < told)
  PROVE  PrecomputedInv'
<1>1. started /\ ~delayTimer
  BY Zenon DEF PrecomputedInv, ComputeInv
<1>2. refreshTimer' = ~stopped
  BY DEF Precomputed!EndCompute, Precomputed!FirstDone
<1>3. NoticesInv'
  BY Zenon DEF PrecomputedInv, NoticesInv
<1>4. CASE pending /\ ~stopped /\ recent
  <2>1. /\ pending' = FALSE /\ computing' = FALSE /\ read' = None /\ delayTimer' = TRUE
        /\ UNCHANGED recent
    BY <1>4, Zenon DEF Precomputed!EndCompute
  <2>2. Precomputed!TypeOK'
    BY <1>2, <2>1, Zenon DEF PrecomputedInv, Precomputed!TypeOK
  <2>3. /\ Precomputed!NoWakeupLost' /\ Precomputed!QuietOnceStopped' /\ ComputeInv'
        /\ ReadBehindInv'
    BY <1>1, <1>2, <1>4, <2>1, Zenon DEF Precomputed!NoWakeupLost,
       Precomputed!QuietOnceStopped, ComputeInv, ReadBehindInv
  <2> QED
    BY <1>3, <2>2, <2>3 DEF PrecomputedInv
<1>5. CASE pending /\ ~stopped /\ ~recent
  <2>1. /\ pending' = FALSE /\ computing' = TRUE /\ read' = None /\ recent' = TRUE
        /\ UNCHANGED delayTimer
    BY <1>5, Zenon DEF Precomputed!EndCompute, Precomputed!RunCompute
  <2>2. Precomputed!TypeOK'
    BY <1>2, <2>1, Zenon DEF PrecomputedInv, Precomputed!TypeOK
  <2>3. /\ Precomputed!NoWakeupLost' /\ Precomputed!QuietOnceStopped' /\ ComputeInv'
        /\ ReadBehindInv'
    BY <1>1, <1>2, <1>5, <2>1, Zenon DEF Precomputed!NoWakeupLost,
       Precomputed!QuietOnceStopped, ComputeInv, ReadBehindInv
  <2> QED
    BY <1>3, <2>2, <2>3 DEF PrecomputedInv
<1>6. CASE ~(pending /\ ~stopped)
  <2>1. computing' = FALSE /\ read' = None /\ UNCHANGED <<pending, recent, delayTimer>>
    BY <1>6, Zenon DEF Precomputed!EndCompute
  <2>2. Precomputed!TypeOK'
    BY <1>2, <2>1, Zenon DEF PrecomputedInv, Precomputed!TypeOK
  <2>3. /\ Precomputed!NoWakeupLost' /\ Precomputed!QuietOnceStopped' /\ ComputeInv'
        /\ ReadBehindInv'
    BY <1>1, <1>2, <1>6, <2>1, Zenon DEF Precomputed!NoWakeupLost,
       Precomputed!QuietOnceStopped, ComputeInv, ReadBehindInv
  <2> QED
    BY <1>3, <2>2, <2>3 DEF PrecomputedInv
<1> QED
  BY <1>4, <1>5, <1>6, Zenon

LEMMA ComputedHolds ==
  ASSUME PrecomputedInv, Precomputed!Computed
  PROVE  PrecomputedInv'
<1>1. /\ read # None /\ cached' = (IF stopped THEN cached ELSE read) /\ Precomputed!EndCompute
      /\ UNCHANGED <<data, notices, started, stopped, failures, told>>
  BY DEF Precomputed!Computed
<1>2. computing
  BY <1>1, Zenon DEF PrecomputedInv, ComputeInv
<1>3. cached' \in Precomputed!Versions \cup {None}
  BY <1>1, Zenon DEF PrecomputedInv, Precomputed!TypeOK
<1>4. failures' \in 0..MaxComputeFailures
  BY <1>1, Zenon DEF PrecomputedInv, Precomputed!TypeOK
<1>5. ~stopped /\ ~pending /\ failures' = 0 => ~(cached' < told)
  BY <1>1, Zenon DEF PrecomputedInv, ReadBehindInv
<1> QED
  BY <1>1, <1>2, <1>3, <1>4, <1>5, EndComputeHolds, Zenon

LEMMA ComputeFailsHolds ==
  ASSUME PrecomputedInv, Precomputed!ComputeFails
  PROVE  PrecomputedInv'
<1>1. /\ computing /\ failures < MaxComputeFailures /\ failures' = failures + 1
      /\ Precomputed!EndCompute
      /\ UNCHANGED <<data, notices, cached, started, stopped, told>>
  BY DEF Precomputed!ComputeFails
<1>2. failures' \in 0..MaxComputeFailures /\ failures' # 0
  BY <1>1, PrecomputedTypes, SMT
<1>3. cached' \in Precomputed!Versions \cup {None}
  BY <1>1, Zenon DEF PrecomputedInv, Precomputed!TypeOK
<1> QED
  BY <1>1, <1>2, <1>3, EndComputeHolds, Zenon

LEMMA StopHolds ==
  ASSUME PrecomputedInv, Precomputed!Stop
  PROVE  PrecomputedInv'
<1>1. /\ stopped' = TRUE /\ delayTimer' = FALSE /\ refreshTimer' = FALSE
      /\ UNCHANGED <<data, notices, cached, computing, read, pending, recent, started,
                     failures, told>>
  BY DEF Precomputed!Stop
<1>2. Precomputed!TypeOK'
  BY <1>1, Zenon DEF PrecomputedInv, Precomputed!TypeOK
<1>3. Precomputed!NoWakeupLost' /\ Precomputed!QuietOnceStopped' /\ ComputeInv' /\ ReadBehindInv'
  BY <1>1, Zenon DEF PrecomputedInv, Precomputed!NoWakeupLost, Precomputed!QuietOnceStopped,
     ComputeInv, ReadBehindInv
<1>4. NoticesInv'
  BY <1>1, Zenon DEF PrecomputedInv, NoticesInv
<1> QED
  BY <1>2, <1>3, <1>4 DEF PrecomputedInv

LEMMA PrecomputedStepHolds ==
  ASSUME PrecomputedInv, [Precomputed!Next]_precomputedVars
  PROVE  PrecomputedInv'
<1>1. ASSUME UNCHANGED precomputedVars PROVE PrecomputedInv'
  <2>1. UNCHANGED <<data, notices, cached, computing, read, pending, recent, delayTimer,
                    refreshTimer, started, stopped, failures, told>>
    BY <1>1 DEF precomputedVars
  <2>2. Precomputed!TypeOK' /\ Precomputed!NoWakeupLost' /\ Precomputed!QuietOnceStopped'
    BY <2>1, Zenon DEF PrecomputedInv, Precomputed!TypeOK, Precomputed!NoWakeupLost,
       Precomputed!QuietOnceStopped
  <2>3. NoticesInv' /\ ComputeInv' /\ ReadBehindInv'
    BY <2>1, Zenon DEF PrecomputedInv, NoticesInv, ComputeInv, ReadBehindInv
  <2> QED
    BY <2>2, <2>3 DEF PrecomputedInv
<1> QED
  BY <1>1, StoredHolds, NotifiedHolds, StartHolds, WindowEndsHolds, ReadDataHolds,
     ComputedHolds, ComputeFailsHolds, StopHolds, Zenon DEF Precomputed!Next
-----------------------------------------------------------------------------
(* The pool of keys.  A worker is queued at most once, a mint that is under *)
(* way is for a worker that has none yet, and what is written to the file  *)
(* is never behind what was minted.                                        *)

QueuedOnce == \A i, j \in DOMAIN mints : mints[i] = mints[j] => i = j

\* The mint at the head of the chain.
MintInv ==
  /\ minting \in {"posted", "writing"} => mints # << >>
  /\ minting = "posted" => minted[Head(mints)] = 0
  /\ \A w \in Workers : minted[w] > 0 => w \in cache

\* What the file has, or is about to have.
FileInv ==
  /\ ~unsaved => \A w \in Workers : minted[w] > 0 => w \in file \/ minting = "writing"
  /\ minting = "writing" => \A w \in Workers : minted[w] > 0 => w \in snapshot

\* The conjuncts of the type invariant but for the length of the chain.
PoolTypes ==
  /\ file \subseteq Workers /\ cache \subseteq Workers /\ snapshot \subseteq Workers
  /\ loaded \in BOOLEAN /\ reading \in BOOLEAN /\ unsaved \in BOOLEAN
  /\ mints \in Seq(Workers)
  /\ minting \in {"queued", "posted", "writing", "broken"}
  /\ call \in [Calls -> {"idle", "loading", "waiting", "served"}]
  /\ minted \in [Workers -> Nat]
  /\ mintFailures \in 0..MaxMintFailures /\ restarts \in 0..MaxRestarts

PoolInv == PoolTypes /\ Pool!MintedOnce /\ QueuedOnce /\ MintInv /\ FileInv

\* A sequence without repetitions is as long as the set of its elements.
LEMMA DistinctLength ==
  ASSUME NEW S, NEW q \in Seq(S), \A i, j \in DOMAIN q : q[i] = q[j] => i = j
  PROVE  Cardinality({q[i] : i \in DOMAIN q}) = Len(q)
<1> DEFINE T == {q[i] : i \in DOMAIN q}
           n == Len(q)
<1>1. n \in Nat /\ DOMAIN q = 1..n /\ q \in [1..n -> S]
  BY LenProperties
<1>2. IsFiniteSet(1..n) /\ Cardinality(1..n) = n
  BY <1>1, FS_Interval
<1>3. q \in [1..n -> T]
  BY <1>1
<1>4. \A t \in T : \E i \in 1..n : q[i] = t
  BY <1>1
<1> HIDE DEF T, n
<1>5. q \in Bijection(1..n, T)
  BY <1>1, <1>3, <1>4, Fun_IsBij
<1>6. ExistsBijection(1..n, T)
  BY <1>5 DEF ExistsBijection
<1>7. Cardinality(T) = n
  BY <1>2, <1>6, FS_Bijection
<1> QED
  BY <1>7 DEF T, n

LEMMA PoolInvImplies ==
  PoolInv => Pool!TypeOK /\ Pool!MintedOnce /\ Pool!MintsAreSaved
<1> SUFFICES ASSUME PoolInv PROVE Pool!TypeOK /\ Pool!MintsAreSaved
  BY DEF PoolInv
<1>1. Len(mints) = Pool!Cardinality(Pool!Queued)
  <2>1. Pool!Queued = {mints[i] : i \in DOMAIN mints}
    BY DEF Pool!Queued
  <2>2. Cardinality(Pool!Queued) = Len(mints)
    BY <2>1, DistinctLength DEF PoolInv, PoolTypes, QueuedOnce
  <2>3. Pool!Cardinality(Pool!Queued) = Cardinality(Pool!Queued)
    BY DEF Pool!Cardinality, Cardinality
  <2> QED
    BY <2>2, <2>3
<1>2. Pool!TypeOK
  BY <1>1 DEF PoolInv, PoolTypes, Pool!TypeOK
<1>3. Pool!MintsAreSaved
  BY DEF PoolInv, MintInv, FileInv, Pool!MintsAreSaved
<1> QED
  BY <1>2, <1>3

LEMMA PoolStarts ==
  Pool!Init => PoolInv
<1> SUFFICES ASSUME Pool!Init PROVE PoolInv
  OBVIOUS
<1>1. << >> \in Seq(Workers) /\ DOMAIN << >> = {}
  BY EmptySeq, SMT
<1>2. PoolTypes
  <2>1. mintFailures \in 0..MaxMintFailures /\ restarts \in 0..MaxRestarts
    BY PoolBounds DEF Pool!Init, Pool!PoolAssumption
  <2>2. /\ call \in [Calls -> {"idle", "loading", "waiting", "served"}]
        /\ minted \in [Workers -> Nat]
    BY DEF Pool!Init
  <2> QED
    BY <1>1, <2>1, <2>2 DEF Pool!Init, PoolTypes
<1>3. Pool!MintedOnce /\ QueuedOnce
  BY <1>1 DEF Pool!Init, Pool!MintedOnce, QueuedOnce
<1>4. \A w \in Workers : ~(minted[w] > 0)
  BY DEF Pool!Init
<1>5. MintInv /\ FileInv
  BY <1>4 DEF Pool!Init, MintInv, FileInv
<1> QED
  BY <1>2, <1>3, <1>5 DEF PoolInv

\* One caller more changes the chain at its end only.
LEMMA AskHolds ==
  ASSUME PoolInv, NEW c \in Calls, NEW keys, Pool!Ask(c, keys)
  PROVE  /\ call' \in [Calls -> {"idle", "loading", "waiting", "served"}]
         /\ mints' \in Seq(Workers)
         /\ QueuedOnce'
         /\ mints # << >> => mints' # << >> /\ Head(mints') = Head(mints)
<1>1. /\ mints \in Seq(Workers) /\ workerOf[c] \in Workers /\ QueuedOnce
      /\ call \in [Calls -> {"idle", "loading", "waiting", "served"}]
  BY PoolBounds DEF PoolInv, PoolTypes, Pool!PoolAssumption
<1>2. call' \in [Calls -> {"idle", "loading", "waiting", "served"}]
  BY <1>1 DEF Pool!Ask
<1> DEFINE w == workerOf[c]
<1>3. UNCHANGED mints \/ (w \notin Pool!Queued /\ mints' = Append(mints, w))
  BY DEF Pool!Ask
<1> HIDE DEF w
<1>4. CASE UNCHANGED mints
  BY <1>1, <1>2, <1>4 DEF QueuedOnce
<1>5. CASE w \notin Pool!Queued /\ mints' = Append(mints, w)
  <2> DEFINE n == Len(mints)
  <2>1. n \in Nat /\ DOMAIN mints = 1..n /\ (mints # << >> => n # 0)
    BY <1>1, LenProperties, EmptySeq
  <2>2. /\ mints' \in Seq(Workers) /\ Len(mints') = n + 1
        /\ \A i \in 1..n : mints'[i] = mints[i]
        /\ mints'[n + 1] = w
    BY <1>1, <1>5, <2>1, SMT DEF w
  <2>3. DOMAIN mints' = 1..(n + 1)
    BY <2>2, LenProperties
  <2> HIDE DEF n
  <2>4. \A i \in 1..n : mints[i] # w
    BY <1>5, <2>1 DEF Pool!Queued
  <2>5. QueuedOnce'
    <3> SUFFICES ASSUME NEW i \in 1..(n + 1), NEW j \in 1..(n + 1), mints'[i] = mints'[j]
                 PROVE  i = j
      BY <2>3 DEF QueuedOnce
    <3>1. CASE i \in 1..n /\ j \in 1..n
      BY <1>1, <2>1, <2>2, <3>1 DEF QueuedOnce
    <3>2. CASE ~(i \in 1..n /\ j \in 1..n)
      BY <2>1, <2>2, <2>4, <3>2, SMT
    <3> QED
      BY <3>1, <3>2
  <2>6. ASSUME mints # << >> PROVE mints' # << >> /\ Head(mints') = Head(mints)
    <3>1. Head(mints) = mints[1] /\ Head(mints') = mints'[1] /\ mints' # << >>
      BY <1>1, <2>1, <2>2, <2>6, EmptySeq
    <3> QED
      BY <2>1, <2>2, <2>6, <3>1, SMT
  <2> QED
    BY <1>2, <2>2, <2>5, <2>6
<1> QED
  BY <1>3, <1>4, <1>5

\* A caller comes, or the file is there: the pool only gains keys.
LEMMA CallHolds ==
  ASSUME PoolInv, NEW c \in Calls, Pool!KeyFor(c) \/ Pool!FileRead(c)
  PROVE  PoolInv'
<1>1. /\ UNCHANGED <<file, minting, snapshot, minted, unsaved, mintFailures, restarts>>
      /\ loaded' \in BOOLEAN /\ reading' \in BOOLEAN
      /\ cache \subseteq cache' /\ cache' \subseteq cache \cup file
      /\ (\E keys : Pool!Ask(c, keys))
           \/ (UNCHANGED mints /\ call' = [call EXCEPT ![c] = "loading"])
  <2>1. CASE Pool!KeyFor(c)
    BY <2>1 DEF Pool!KeyFor, PoolInv, PoolTypes
  <2>2. CASE Pool!FileRead(c)
    BY <2>2 DEF Pool!FileRead, PoolInv, PoolTypes
  <2> QED
    BY <2>1, <2>2
<1>2. /\ call' \in [Calls -> {"idle", "loading", "waiting", "served"}]
      /\ mints' \in Seq(Workers)
      /\ QueuedOnce'
      /\ mints # << >> => mints' # << >> /\ Head(mints') = Head(mints)
  <2>1. CASE UNCHANGED mints /\ call' = [call EXCEPT ![c] = "loading"]
    BY <2>1 DEF PoolInv, PoolTypes, QueuedOnce
  <2> QED
    BY <1>1, <2>1, AskHolds
<1>3. PoolTypes'
  BY <1>1, <1>2 DEF PoolInv, PoolTypes
<1>4. Pool!MintedOnce'
  BY <1>1 DEF PoolInv, Pool!MintedOnce
<1>5. MintInv'
  BY <1>1, <1>2 DEF PoolInv, MintInv
<1>6. FileInv'
  BY <1>1 DEF PoolInv, FileInv
<1> QED
  BY <1>2, <1>3, <1>4, <1>5, <1>6 DEF PoolInv

\* The mint at the head is over: the next one, if any, is queued.
LEMMA SettleHolds ==
  ASSUME PoolInv, mints # << >>, NEW outcome \in {"idle", "served"}, Pool!Settle(outcome),
         UNCHANGED <<loaded, reading, cache, minted, restarts>>,
         file' \subseteq Workers, unsaved' \in BOOLEAN,
         mintFailures' \in 0..MaxMintFailures,
         ~unsaved' => \A w \in Workers : minted[w] > 0 => w \in file'
  PROVE  PoolInv'
<1>1. mints' = Tail(mints) /\ minting' = "queued" /\ snapshot' = {}
  BY DEF Pool!Settle
<1>2. call' \in [Calls -> {"idle", "loading", "waiting", "served"}]
  BY DEF Pool!Settle, PoolInv, PoolTypes
<1>3. mints' \in Seq(Workers) /\ QueuedOnce'
  <2> DEFINE n == Len(mints)
             m == Len(mints')
  <2>1. mints \in Seq(Workers) /\ QueuedOnce /\ n \in Nat /\ DOMAIN mints = 1..n
    BY LenProperties DEF PoolInv, PoolTypes
  <2>2. /\ mints' \in Seq(Workers) /\ m = n - 1
        /\ \A i \in 1..m : mints'[i] = mints[i + 1]
    BY <1>1, <2>1, HeadTailProperties
  <2>3. m \in Nat /\ DOMAIN mints' = 1..m
    BY <2>2, LenProperties
  <2> HIDE DEF n, m
  <2>4. ASSUME NEW i \in 1..m, NEW j \in 1..m, mints'[i] = mints'[j] PROVE i = j
    <3>1. i + 1 \in 1..n /\ j + 1 \in 1..n
      BY <2>1, <2>2, <2>3, SMT
    <3>2. i + 1 = j + 1
      BY <2>1, <2>2, <2>4, <3>1 DEF QueuedOnce
    <3> QED
      BY <2>3, <3>2, SMT
  <2> QED
    BY <2>2, <2>3, <2>4 DEF QueuedOnce
<1>4. PoolTypes'
  BY <1>1, <1>2, <1>3 DEF PoolInv, PoolTypes
<1>5. Pool!MintedOnce' /\ MintInv' /\ FileInv'
  BY <1>1 DEF PoolInv, Pool!MintedOnce, MintInv, FileInv
<1> QED
  BY <1>3, <1>4, <1>5 DEF PoolInv

LEMMA StartMintHolds ==
  ASSUME PoolInv, Pool!StartMint
  PROVE  PoolInv'
<1>1. /\ mints # << >> /\ minting = "queued"
      /\ UNCHANGED <<file, loaded, reading, cache, minted, unsaved, mintFailures, restarts>>
  BY DEF Pool!StartMint
<1>2. CASE Head(mints) \in cache
  <2>1. Pool!Settle("served")
    BY <1>2 DEF Pool!StartMint
  <2>2. /\ file' \subseteq Workers /\ unsaved' \in BOOLEAN
        /\ mintFailures' \in 0..MaxMintFailures
        /\ ~unsaved' => \A w \in Workers : minted[w] > 0 => w \in file'
    BY <1>1 DEF PoolInv, PoolTypes, FileInv
  <2> QED
    BY <1>1, <2>1, <2>2, SettleHolds
<1>3. CASE Head(mints) \notin cache
  <2>1. minting' = "posted" /\ UNCHANGED <<mints, snapshot, call>>
    BY <1>3 DEF Pool!StartMint
  <2>2. PoolTypes'
    BY <1>1, <2>1 DEF PoolInv, PoolTypes
  <2>3. Head(mints) \in Workers
    BY <1>1, HeadTailProperties DEF PoolInv, PoolTypes
  <2>4. minted[Head(mints)] = 0
    BY <1>3, <2>3 DEF PoolInv, PoolTypes, MintInv
  <2>5. Pool!MintedOnce' /\ QueuedOnce'
    BY <1>1, <2>1 DEF PoolInv, Pool!MintedOnce, QueuedOnce
  <2>6. MintInv' /\ FileInv'
    BY <1>1, <2>1, <2>4 DEF PoolInv, MintInv, FileInv
  <2> QED
    BY <2>2, <2>5, <2>6 DEF PoolInv
<1> QED
  BY <1>2, <1>3

LEMMA MintedHolds ==
  ASSUME PoolInv, Pool!Minted
  PROVE  PoolInv'
<1> DEFINE h == Head(mints)
<1>1. /\ mints # << >> /\ minting = "posted" /\ minting' = "writing"
      /\ cache' = cache \cup {h} /\ snapshot' = cache'
      /\ minted' = [minted EXCEPT ![h] = @ + 1]
      /\ UNCHANGED <<file, loaded, reading, mints, call, unsaved, mintFailures, restarts>>
  BY DEF Pool!Minted
<1>2. h \in Workers
  BY <1>1, HeadTailProperties DEF PoolInv, PoolTypes
<1>3. minted[h] = 0 /\ minted \in [Workers -> Nat]
  BY <1>1 DEF PoolInv, PoolTypes, MintInv
<1> HIDE DEF h
<1>4. /\ minted' \in [Workers -> Nat]
      /\ \A w \in Workers : minted'[w] = IF w = h THEN 1 ELSE minted[w]
  BY <1>1, <1>2, <1>3
<1>5. PoolTypes'
  BY <1>1, <1>2, <1>4 DEF PoolInv, PoolTypes
<1>6. Pool!MintedOnce' /\ QueuedOnce'
  BY <1>1, <1>4 DEF PoolInv, Pool!MintedOnce, QueuedOnce
<1>7. \A w \in Workers : minted'[w] > 0 => w \in cache'
  BY <1>1, <1>4 DEF PoolInv, MintInv
<1>8. MintInv' /\ FileInv'
  BY <1>1, <1>7 DEF MintInv, FileInv
<1> QED
  BY <1>5, <1>6, <1>8 DEF PoolInv

LEMMA MintEndsHolds ==
  ASSUME PoolInv, Pool!MintFails \/ Pool!Written \/ Pool!WriteFails
  PROVE  PoolInv'
<1>1. mints # << >> /\ mintFailures \in 0..MaxMintFailures /\ MaxMintFailures \in Nat
  BY PoolBounds DEF PoolInv, PoolTypes, MintInv, Pool!MintFails, Pool!Written,
     Pool!WriteFails, Pool!PoolAssumption
<1>2. CASE Pool!MintFails
  <2>1. /\ minting = "posted" /\ mintFailures' = mintFailures + 1
        /\ mintFailures < MaxMintFailures /\ Pool!Settle("idle")
        /\ UNCHANGED <<file, loaded, reading, cache, minted, unsaved, restarts>>
    BY <1>2 DEF Pool!MintFails
  <2>2. mintFailures' \in 0..MaxMintFailures
    BY <1>1, <2>1, SMT
  <2>3. /\ file' \subseteq Workers /\ unsaved' \in BOOLEAN
        /\ ~unsaved' => \A w \in Workers : minted[w] > 0 => w \in file'
    BY <2>1 DEF PoolInv, PoolTypes, FileInv
  <2> QED
    BY <1>1, <2>1, <2>2, <2>3, SettleHolds
<1>3. CASE Pool!Written
  <2>1. /\ minting = "writing" /\ file' = snapshot /\ Pool!Settle("served")
        /\ UNCHANGED <<loaded, reading, cache, minted, unsaved, mintFailures, restarts>>
    BY <1>3 DEF Pool!Written
  <2>2. /\ file' \subseteq Workers /\ unsaved' \in BOOLEAN
        /\ ~unsaved' => \A w \in Workers : minted[w] > 0 => w \in file'
    BY <2>1 DEF PoolInv, PoolTypes, FileInv
  <2> QED
    BY <1>1, <2>1, <2>2, SettleHolds
<1>4. CASE Pool!WriteFails
  <2>1. /\ minting = "writing" /\ mintFailures' = mintFailures + 1
        /\ mintFailures < MaxMintFailures /\ unsaved' = TRUE /\ Pool!Settle("served")
        /\ UNCHANGED <<file, loaded, reading, cache, minted, restarts>>
    BY <1>4 DEF Pool!WriteFails
  <2>2. mintFailures' \in 0..MaxMintFailures
    BY <1>1, <2>1, SMT
  <2>3. file' \subseteq Workers
    BY <2>1 DEF PoolInv, PoolTypes
  <2> QED
    BY <1>1, <2>1, <2>2, <2>3, SettleHolds
<1> QED
  BY <1>2, <1>3, <1>4

LEMMA RestartHolds ==
  ASSUME PoolInv, Pool!Restart
  PROVE  PoolInv'
<1>1. /\ restarts < MaxRestarts /\ restarts' = restarts + 1
      /\ file' \in (IF minting = "writing" THEN {file, {}} ELSE {file})
      /\ loaded' = FALSE /\ reading' = FALSE
      /\ cache' = {} /\ mints' = << >> /\ minting' = "queued" /\ snapshot' = {}
      /\ call' = [c \in Calls |-> "idle"]
      /\ minted' = [w \in Workers |-> 0]
      /\ unsaved' = FALSE /\ UNCHANGED mintFailures
  BY DEF Pool!Restart
<1>2. << >> \in Seq(Workers) /\ DOMAIN << >> = {}
  BY EmptySeq, SMT
<1>3. restarts' \in 0..MaxRestarts
  BY <1>1, PoolBounds, SMT DEF PoolInv, PoolTypes, Pool!PoolAssumption
<1>4. file' \subseteq Workers
  BY <1>1 DEF PoolInv, PoolTypes
<1>5. PoolTypes'
  BY <1>1, <1>2, <1>3, <1>4 DEF PoolInv, PoolTypes
<1>6. Pool!MintedOnce' /\ QueuedOnce'
  BY <1>1, <1>2 DEF Pool!MintedOnce, QueuedOnce
<1>7. MintInv' /\ FileInv'
  BY <1>1 DEF MintInv, FileInv
<1> QED
  BY <1>5, <1>6, <1>7 DEF PoolInv

LEMMA PoolStepHolds ==
  ASSUME PoolInv, [Pool!Next]_poolVars
  PROVE  PoolInv'
<1>1. ASSUME UNCHANGED poolVars PROVE PoolInv'
  <2>1. PoolTypes'
    BY <1>1 DEF poolVars, PoolInv, PoolTypes
  <2>2. Pool!MintedOnce' /\ QueuedOnce'
    BY <1>1 DEF poolVars, PoolInv, Pool!MintedOnce, QueuedOnce
  <2>3. MintInv' /\ FileInv'
    BY <1>1 DEF poolVars, PoolInv, MintInv, FileInv
  <2> QED
    BY <2>1, <2>2, <2>3 DEF PoolInv
<1> QED
  BY <1>1, CallHolds, StartMintHolds, MintedHolds, MintEndsHolds, RestartHolds
  DEF Pool!Next
-----------------------------------------------------------------------------
(* The system: a step of it is a step of one component and a stutter of    *)
(* the others.                                                             *)

LEMMA StepOfEach ==
  ASSUME [AllNext]_<<part, vars, aggregatorVars, precomputedVars, poolVars>>
  PROVE  /\ [Aggregator!Next]_aggregatorVars
         /\ [Precomputed!Next]_precomputedVars
         /\ [Pool!Next]_poolVars
<1> HIDE DEF aggregatorVars, precomputedVars, poolVars
<1> QED
  BY Zenon DEF AllNext, IngestStep, AggregatorStep, PrecomputedStep, PoolStep

\* No row of block_ranges covers a block that is not stored, and a sweep leaves no window
\* behind that it could have written: for any sizes, blocks and order of storing them.
THEOREM AggregatesAreComplete == AllSpec => []WindowsComplete
<1>1. AllInit => AggregatorInv
  BY AggregatorStarts DEF AllInit
<1>2. AggregatorInv /\ [AllNext]_<<part, vars, aggregatorVars, precomputedVars, poolVars>>
        => AggregatorInv'
  BY AggregatorStepHolds, StepOfEach
<1>3. AggregatorInv => WindowsComplete
  BY DEF AggregatorInv, WindowsComplete
<1> QED
  BY <1>1, <1>2, <1>3, PTL DEF AllSpec

\* A notification is never lost to the recompute that runs, and a stopped process holds
\* no timer: for any number of stored blocks and failed recomputes.
THEOREM NoNoticeIsLost == AllSpec => []PrecomputeSound
<1>1. AllInit => PrecomputedInv
  BY PrecomputedStarts DEF AllInit
<1>2. PrecomputedInv /\ [AllNext]_<<part, vars, aggregatorVars, precomputedVars, poolVars>>
        => PrecomputedInv'
  BY PrecomputedStepHolds, StepOfEach
<1>3. PrecomputedInv => PrecomputeSound
  BY DEF PrecomputedInv, PrecomputeSound
<1> QED
  BY <1>1, <1>2, <1>3, PTL DEF AllSpec

\* One key per worker and process, and none of them lost: for any workers, callers,
\* failures and restarts.
THEOREM KeysAreKept == AllSpec => []MintsKept
<1>1. AllInit => PoolInv
  BY PoolStarts DEF AllInit
<1>2. PoolInv /\ [AllNext]_<<part, vars, aggregatorVars, precomputedVars, poolVars>>
        => PoolInv'
  BY PoolStepHolds, StepOfEach
<1>3. PoolInv => MintsKept
  BY PoolInvImplies DEF MintsKept
<1> QED
  BY <1>1, <1>2, <1>3, PTL DEF AllSpec
=============================================================================
