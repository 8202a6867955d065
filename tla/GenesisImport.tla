--------------------------- MODULE GenesisImport ---------------------------
(***************************************************************************)
(* How the entities a chain was born with enter the entity index: paged in *)
(* from the node by the projector of a backend, or loaded from a dump by   *)
(* an importer process, and then refolded with the operations that came    *)
(* after.  One row of the database says how far the import is; every step  *)
(* compares it with what the process remembers, because other backends,    *)
(* importers and resets write it too.                                      *)
(*                                                                         *)
(* An entity is its place in the node's order.  Its contents, how many     *)
(* entities the node says it has, and what a dump is checked against are   *)
(* left out: there may be too many to page, and a dump may be bad.         *)
(***************************************************************************)
EXTENDS Integers, Sequences, FiniteSets, FiniteSetsExt

CONSTANTS
  None,
  Backends, Importers,
  Total,         \* entities at block 0
  Batch,         \* batchEntities, for pages of one entity
  RestartLimit,  \* GENESIS_CURSOR_RESTART_LIMIT
  MaxBlock,      \* bound: the highest block with an operation
  MaxFaults      \* bound: crashes, restarts, lost leases, full ticks, resets

Entities == 0..(Total - 1)
Blocks == 1..MaxBlock

\* A cursor of the node, or the place a dump was read to; and the row of an import.
CursorType == [epoch : Nat, at : 0..Total]
RowType ==
  [status : {"waiting", "running", "done", "failed"}, phase : {None, "walk", "repair"},
   source : {None, "rpc", "dump"}, id : Nat, attempt : Nat, imported : 0..Total,
   cursor : CursorType \cup {None}, after : Entities \cup {None},
   indexes : {"kept", "dropped"}]

ASSUME GenesisAssumption ==
  /\ Total \in Nat \ {0} /\ Batch \in Nat \ {0} /\ RestartLimit \in Nat
  /\ MaxBlock \in Nat /\ MaxFaults \in Nat
  /\ None \notin Int /\ None \notin Importers
  /\ None \notin CursorType \cup RowType

VARIABLES
  row,         \* database: the state row of the import, or None
  base,        \* database: the position each entity's version 0 was given
  onTop,       \* database: the entities folded with their operation on top
  floorZero,   \* database: does the index vouch for block 0?
  indexes,     \* database: are the secondary indexes there?
  lease,       \* database: who holds the import lock
  ops, late,   \* database: each entity's operation; those stored below
  projected,   \* ... the fold point since, and the fold point
  epoch,       \* the node: cursors of an earlier epoch are forgotten
  walker,      \* each backend's walk or repair, or None
  restarts,    \* each backend's genesisCursorRestarts
  importer,    \* each importer's load, or None
  imports,     \* how many imports were begun; attempts count on from it
  faults, leaseLost

history  == <<imports, faults, leaseLost>>
folding  == <<ops, late, projected>>
machine  == <<walker, restarts, importer>>
tables   == <<base, onTop, floorZero, indexes>>
vars == <<row, base, onTop, floorZero, indexes, lease, ops, late, projected,
          epoch, walker, restarts, importer, imports,
          faults, leaseLost>>

Blank == [status |-> "waiting", phase |-> None, source |-> None, id |-> 0,
          attempt |-> 0, imported |-> 0, cursor |-> None, after |-> None,
          indexes |-> "kept"]

Running(phase, source) ==
  row # None /\ row.status = "running" /\ row.phase = phase /\ row.source = source

Fault == faults < MaxFaults /\ faults' = faults + 1

-----------------------------------------------------------------------------
\* A managed deployment starts with a row that waits for a dump.
Init ==
  /\ row \in {None, [Blank EXCEPT !.source = "dump"]}
  /\ base = [e \in Entities |-> None] /\ onTop = {}
  /\ floorZero = FALSE /\ indexes = "present"
  /\ lease = None
  /\ ops = [e \in Entities |-> None] /\ late = {} /\ projected = 0
  /\ epoch = 0
  /\ walker = [b \in Backends |-> None]
  /\ restarts = [b \in Backends |-> 0]
  /\ importer = [i \in Importers |-> None]
  /\ imports = 0 /\ faults = 0 /\ leaseLost = FALSE

-----------------------------------------------------------------------------
(* What goes on around the import. *)

\* The scanner stores an operation on a genesis entity.
StoreOp(e) ==
  /\ ops[e] = None
  /\ \E block \in Blocks :
       /\ ops' = [ops EXCEPT ![e] = block]
       /\ late' = IF block <= projected THEN late \cup {e} ELSE late
  /\ UNCHANGED <<row, tables, lease, projected, epoch, machine, history>>

\* foldChunk and the late scan look at the row under the lock.
MayFold == row # None => row.status \in {"done", "none"}

\* What a refold makes of the entities: without a base, nothing.
Refolded(es) == onTop \cup {e \in es : base[e] # None /\ ops[e] # None}

\* The projector folds another block.
FoldBlock ==
  /\ MayFold /\ projected < MaxBlock
  /\ projected' = projected + 1
  /\ onTop' = Refolded({e \in Entities : ops[e] = projected + 1})
  /\ UNCHANGED <<row, base, floorZero, indexes, lease, ops, late, epoch, machine, history>>

\* The late scan folds what was stored below the fold point (see EntityProjector).
FoldLate ==
  /\ MayFold /\ late # {}
  /\ onTop' = Refolded(late)
  /\ late' = {}
  /\ UNCHANGED <<row, base, floorZero, indexes, lease, ops, projected, epoch,
                 machine, history>>

\* The node restarts and forgets its cursors.
NodeRestart ==
  /\ Fault
  /\ epoch' = epoch + 1
  /\ UNCHANGED <<row, tables, lease, folding, machine, imports, leaseLost>>

-----------------------------------------------------------------------------
(* The import from the node. *)

\* probeGenesis: the answer becomes the row, unless another was faster.
Probe(b) ==
  /\ row = None /\ walker[b] = None
  /\ row' \in {[Blank EXCEPT !.id = imports + 1],
               [Blank EXCEPT !.id = imports + 1, !.status = "running",
                             !.phase = "walk", !.source = "rpc"]}
  /\ imports' = imports + 1
  /\ UNCHANGED <<tables, lease, folding, epoch, machine, faults, leaseLost>>

\* walkGenesis begins, from the stored cursor.
BeginWalk(b) ==
  /\ Running("walk", "rpc") /\ walker[b] = None
  /\ walker' = [walker EXCEPT ![b] =
       [phase |-> "walk", id |-> row.id, seen |-> row.imported, seenCursor |-> row.cursor,
        pending |-> << >>, cursor |-> row.cursor, after |-> None, keys |-> None]]
  /\ UNCHANGED <<row, tables, lease, folding, epoch, restarts, importer, history>>

Walking(b) == walker[b] # None /\ walker[b].phase = "walk"

PageAt(w) == IF w.cursor = None THEN 0 ELSE w.cursor.at

\* Mutant of Imported: positions are counted from the last commit.
ImportedInBatch(w) == Len(w.pending)

Imported(w) == w.seen + Len(w.pending)
LastPage(w) == w.pending # << >> /\ w.cursor = None

\* A page arrives: the next entity of the node's order, at the next position of
\* the walk.  A page for a cursor ends a run of restarts.
Page(b) ==
  /\ Walking(b) /\ ~LastPage(walker[b]) /\ Len(walker[b].pending) < Batch
  /\ LET w == walker[b]
         at == PageAt(w)
     IN  /\ w.cursor # None => w.cursor.epoch = epoch
         /\ Imported(w) < Total
         /\ walker' = [walker EXCEPT
              ![b].pending = Append(@, [entity |-> at, position |-> Imported(w)]),
              ![b].cursor = IF at + 1 = Total THEN None ELSE [epoch |-> epoch, at |-> at + 1]]
         /\ restarts' = IF w.cursor = None THEN restarts ELSE [restarts EXCEPT ![b] = 0]
  /\ UNCHANGED <<row, tables, lease, folding, epoch, importer, history>>

Failed == [row EXCEPT !.status = "failed", !.phase = None]

\* restartGenesisWalk: back to the first page, with nothing counted.
Rewound == [row EXCEPT !.cursor = None, !.imported = 0]

TooOften(b) == restarts[b] + 1 > RestartLimit

\* The node answers -32005: the walk restarts, or has done so too often.
CursorRefused(b) ==
  /\ Walking(b) /\ ~LastPage(walker[b])
  /\ walker[b].cursor # None /\ walker[b].cursor.epoch # epoch
  /\ IF TooOften(b)
     THEN /\ restarts' = [restarts EXCEPT ![b] = 0]
          /\ row' = IF row # None /\ row.status = "running" THEN Failed ELSE row
     ELSE /\ restarts' = [restarts EXCEPT ![b] = @ + 1]
          /\ row' = IF Running("walk", "rpc") THEN Rewound ELSE row
  /\ walker' = [walker EXCEPT ![b] = None]
  /\ UNCHANGED <<tables, lease, folding, epoch, importer, history>>

\* insertGenesisVersions: a row that is there is left alone.
InsertVersions(batch) ==
  base' = [e \in Entities |->
    LET given == {p \in {batch[i] : i \in DOMAIN batch} : p.entity = e}
    IN  IF base[e] # None \/ given = {} THEN base[e]
        ELSE (CHOOSE p \in given : TRUE).position]

\* The row still says what the walk last wrote.
Unmoved(w) ==
  /\ Running("walk", "rpc")
  /\ row.imported = w.seen /\ row.cursor = w.seenCursor

\* commit: the rows and the cursor in one transaction; behind the last page the
\* import goes on with the repair.  A row that has moved sends the walk away.
CommitPages(b) ==
  /\ Walking(b) /\ walker[b].pending # << >>
  /\ LET w == walker[b]
     IN  IF Unmoved(w)
         THEN /\ InsertVersions(w.pending)
              /\ row' = [row EXCEPT !.imported = Imported(w), !.cursor = w.cursor,
                                    !.phase = IF LastPage(w) THEN "repair" ELSE "walk"]
              /\ walker' = [walker EXCEPT ![b] =
                   IF LastPage(w) THEN None
                   ELSE [w EXCEPT !.seen = Imported(w), !.seenCursor = w.cursor,
                                  !.pending = << >>]]
         ELSE /\ walker' = [walker EXCEPT ![b] = None]
              /\ UNCHANGED <<row, base>>
  /\ UNCHANGED <<onTop, floorZero, indexes, lease, folding, epoch, restarts, importer, history>>

\* A page does not fit: another block, a repeated cursor, an empty page, or
\* more or fewer entities than were counted (GenesisEntityError).
WalkFails(b) ==
  /\ Fault
  /\ Walking(b) /\ ~LastPage(walker[b])
  /\ row' = IF row # None /\ row.status = "running" THEN Failed ELSE row
  /\ walker' = [walker EXCEPT ![b] = None]
  /\ UNCHANGED <<tables, lease, folding, epoch, restarts, importer, imports,
                 leaseLost>>

\* The tick ends early: its time is over, the lock is taken, the node cannot be
\* reached; or the backend crashes and forgets its restarts too.
Leave(b) ==
  /\ Fault
  /\ walker[b] # None
  /\ walker' = [walker EXCEPT ![b] = None]
  /\ restarts' \in {restarts, [restarts EXCEPT ![b] = 0]}
  /\ UNCHANGED <<row, tables, lease, folding, epoch, importer, imports,
                 leaseLost>>

-----------------------------------------------------------------------------
(* The repair. *)

InRepair == row # None /\ row.status = "running" /\ row.phase = "repair"

\* repairGenesis: the index vouches for block 0 from now on.
BeginRepair(b) ==
  /\ InRepair /\ walker[b] = None
  /\ floorZero' = TRUE
  /\ walker' = [walker EXCEPT ![b] =
       [phase |-> "repair", id |-> row.id, seen |-> 0, seenCursor |-> None,
        pending |-> << >>, cursor |-> None, after |-> row.after, keys |-> None]]
  /\ UNCHANGED <<row, base, onTop, indexes, lease, folding, epoch, restarts, importer, history>>

\* The first n of a set of entities.
Lowest(n, S) == {e \in S : Cardinality({f \in S : f < e}) < n}

\* genesisKeysWithOperations, behind the last key done.
ReadKeys(b) ==
  /\ walker[b] # None /\ walker[b].phase = "repair" /\ walker[b].keys = None
  /\ walker' = [walker EXCEPT ![b].keys = Lowest(Batch,
       {e \in Entities : /\ base[e] # None /\ ops[e] # None
                         /\ ops[e] # None => ops[e] <= projected
                         /\ walker[b].after # None => e > walker[b].after})]
  /\ UNCHANGED <<row, tables, lease, folding, epoch, restarts, importer, history>>

\* Mutant of LastBatch: a full batch is taken for the last.
LastFullBatch(keys) == Cardinality(keys) <= Batch

LastBatch(keys) == Cardinality(keys) < Batch

SameRepair(w) == InRepair /\ row.id = w.id /\ row.after = w.after

\* One batch of the repair; a batch that is not full is the last.
CommitRepair(b) ==
  /\ walker[b] # None /\ walker[b].phase = "repair" /\ walker[b].keys # None
  /\ LET w == walker[b]
         finished == LastBatch(w.keys)
     IN  IF SameRepair(w)
         THEN /\ onTop' = Refolded(w.keys)
              /\ row' = IF finished
                        THEN [row EXCEPT !.status = "done", !.phase = None, !.after = None]
                        ELSE [row EXCEPT !.after = Max(w.keys)]
              /\ walker' = [walker EXCEPT ![b] =
                   IF finished THEN None ELSE [w EXCEPT !.after = Max(w.keys), !.keys = None]]
         ELSE /\ walker' = [walker EXCEPT ![b] = None]
              /\ UNCHANGED <<row, onTop>>
  /\ UNCHANGED <<base, floorZero, indexes, lease, folding, epoch, restarts, importer, history>>

-----------------------------------------------------------------------------
(* The import from a dump. *)

\* Mutant of Claimable: an attempt that died is not taken up again.
ClaimableFresh == row # None => row.status \in {"waiting", "none"}

Claimable == row # None => row.status \in {"waiting", "none"} \/ Running("walk", "dump")

\* importGenesisDump takes the lease and claims the row for this attempt, where
\* the import before it stopped.
Claim(i) ==
  /\ importer[i] = None /\ lease = None /\ Claimable
  /\ lease' = i
  /\ LET resumed == IF Running("walk", "dump") THEN row
                    ELSE [Blank EXCEPT !.status = "running", !.phase = "walk",
                                       !.source = "dump", !.id = imports + 1]
     IN  /\ row' = [resumed EXCEPT !.attempt = imports + 1]
         /\ importer' = [importer EXCEPT ![i] =
              [pc |-> "verify", id |-> resumed.id, attempt |-> imports + 1,
               imported |-> resumed.imported, resumes |-> resumed.cursor # None,
               indexes |-> resumed.indexes]]
  /\ imports' = imports + 1
  /\ UNCHANGED <<tables, folding, epoch, walker, restarts, faults, leaseLost>>

\* The row still belongs to this attempt.
Owns(i) ==
  /\ Running("walk", "dump")
  /\ row.id = importer[i].id /\ row.attempt = importer[i].attempt

At(i, pc) == importer[i] # None /\ importer[i].pc = pc

Release(i) ==
  /\ importer' = [importer EXCEPT ![i] = None]
  /\ lease' = IF lease = i THEN None ELSE lease

\* The dump is hashed before it is read: a bad one fails the import for good.
Verify(i) ==
  /\ At(i, "verify")
  /\ \E good \in BOOLEAN : IF Owns(i) /\ good
     THEN /\ importer' = [importer EXCEPT ![i].pc =
               IF importer[i].resumes
               THEN IF importer[i].indexes = "dropped" THEN "drop" ELSE "load"
               ELSE "plan"]
          /\ UNCHANGED <<row, lease>>
     ELSE /\ Release(i)
          /\ row' = IF Owns(i) THEN Failed ELSE row
  /\ UNCHANGED <<tables, folding, epoch, walker, restarts, history>>

\* An empty index is loaded without its secondary indexes; the row says so
\* before they are dropped.
PlanIndexes(i) ==
  /\ At(i, "plan")
  /\ IF Owns(i)
     THEN /\ LET drop == importer[i].indexes = "dropped" \/ \A e \in Entities : base[e] = None
             IN  /\ row' = [row EXCEPT !.indexes = IF drop THEN "dropped" ELSE @]
                 /\ importer' = [importer EXCEPT
                      ![i].pc = IF drop THEN "drop" ELSE "load",
                      ![i].indexes = IF drop THEN "dropped" ELSE @]
          /\ UNCHANGED lease
     ELSE Release(i) /\ UNCHANGED row
  /\ UNCHANGED <<tables, folding, epoch, walker, restarts, history>>

DropIndexes(i) ==
  /\ At(i, "drop")
  /\ indexes' = "dropped"
  /\ importer' = [importer EXCEPT ![i].pc = "load"]
  /\ UNCHANGED <<row, base, onTop, floorZero, lease, folding, epoch, walker, restarts, history>>

\* The next records of the dump, at the positions the ledger has reached.
Records(m) ==
  LET n == Max({0} \cup {k \in 0..Batch : m.imported + k <= Total})
  IN  [k \in 1..n |-> [entity |-> m.imported + k - 1, position |-> m.imported + k - 1]]

\* commit: a batch of rows and the resume point behind it, if the row is still
\* this attempt's.
CommitRecords(i) ==
  /\ At(i, "load")
  /\ LET m == importer[i]
         n == m.imported + Len(Records(m))
     IN  IF Owns(i) /\ row.imported = m.imported
         THEN /\ InsertVersions(Records(m))
              /\ row' = [row EXCEPT !.imported = n, !.cursor = [epoch |-> 0, at |-> n]]
              /\ importer' = [importer EXCEPT ![i].imported = n,
                                              ![i].pc = IF n = Total THEN "index" ELSE "load"]
              /\ UNCHANGED lease
         ELSE Release(i) /\ UNCHANGED <<row, base>>
  /\ UNCHANGED <<onTop, floorZero, indexes, folding, epoch, walker, restarts, history>>

\* ensureIndexes, when they were dropped for this import.
BuildIndexes(i) ==
  /\ At(i, "index")
  /\ indexes' = IF importer[i].indexes = "dropped" THEN "present" ELSE indexes
  /\ importer' = [importer EXCEPT ![i].pc = "hand"]
  /\ UNCHANGED <<row, base, onTop, floorZero, lease, folding, epoch, walker, restarts, history>>

\* The backend takes over with the repair.
HandOver(i) ==
  /\ At(i, "hand")
  /\ row' = IF Owns(i) /\ row.imported = importer[i].imported
            THEN [row EXCEPT !.phase = "repair", !.cursor = None, !.indexes = "kept"]
            ELSE row
  /\ Release(i)
  /\ UNCHANGED <<tables, folding, epoch, walker, restarts, history>>

\* A signal or a crash.
ImporterDies(i) ==
  /\ Fault
  /\ importer[i] # None
  /\ Release(i)
  /\ UNCHANGED <<row, tables, folding, epoch, walker, restarts, imports,
                 leaseLost>>

\* The connection that holds the session lock drops; the process goes on.
LeaseLost ==
  /\ Fault
  /\ lease # None
  /\ lease' = None /\ leaseLost' = TRUE
  /\ UNCHANGED <<row, tables, folding, epoch, machine, imports>>

\* The operator resets the index; its row and its tables go.  The indexes are
\* looked after when a process opens the storage anew.
Reset ==
  /\ Fault
  /\ lease = None
  /\ row' = None
  /\ base' = [e \in Entities |-> None] /\ onTop' = {}
  /\ floorZero' = FALSE /\ projected' = 0 /\ late' = {}
  /\ indexes' = "present"
  /\ UNCHANGED <<lease, ops, epoch, machine, imports, leaseLost>>

-----------------------------------------------------------------------------
BackendStep(b) ==
  \/ Probe(b) \/ BeginWalk(b) \/ Page(b) \/ CursorRefused(b)
  \/ CommitPages(b) \/ BeginRepair(b) \/ ReadKeys(b) \/ CommitRepair(b)

ImporterStep(i) ==
  \/ Claim(i) \/ Verify(i) \/ PlanIndexes(i) \/ DropIndexes(i)
  \/ CommitRecords(i) \/ BuildIndexes(i) \/ HandOver(i)

Next ==
  \/ \E e \in Entities : StoreOp(e)
  \/ FoldBlock \/ FoldLate \/ NodeRestart \/ LeaseLost \/ Reset
  \/ \E b \in Backends : BackendStep(b) \/ WalkFails(b) \/ Leave(b)
  \/ \E i \in Importers : ImporterStep(i) \/ ImporterDies(i)

Spec == Init /\ [][Next]_vars

\* Backends tick for ever; an importer that was stopped is run again.
FairSpec ==
  /\ Spec
  /\ \A b \in Backends : WF_vars(BackendStep(b))
  /\ WF_vars(\E i \in Importers : ImporterStep(i))

-----------------------------------------------------------------------------
\* Types of the variables.
WalkerType ==
  [phase : {"walk", "repair"}, id : Nat, seen : 0..Total,
   seenCursor : CursorType \cup {None},
   pending : Seq([entity : Entities, position : Entities]),
   cursor : CursorType \cup {None}, after : Entities \cup {None},
   keys : (SUBSET Entities) \cup {None}]
ImporterType ==
  [pc : {"verify", "plan", "drop", "load", "index", "hand"}, id : Nat, attempt : Nat,
   imported : 0..Total, resumes : BOOLEAN, indexes : {"kept", "dropped"}]
TypeOK ==
  /\ row \in RowType \cup {None}
  /\ base \in [Entities -> 0..Total \cup {None}]
  /\ onTop \subseteq Entities /\ late \subseteq Entities
  /\ indexes \in {"present", "dropped"} /\ floorZero \in BOOLEAN
  /\ lease \in Importers \cup {None}
  /\ ops \in [Entities -> Blocks \cup {None}] /\ projected \in 0..MaxBlock
  /\ walker \in [Backends -> WalkerType \cup {None}]
  /\ restarts \in [Backends -> 0..RestartLimit]
  /\ importer \in [Importers -> ImporterType \cup {None}]
  /\ epoch \in Nat /\ imports \in Nat /\ faults \in 0..MaxFaults /\ leaseLost \in BOOLEAN

\* "Positions are the node's order": an entity's position does not depend on
\* where walks stopped, restarted or overlapped, nor on who imported it.
InNodeOrder == \A e \in Entities : base[e] # None => base[e] = e

\* Nothing the row counts as imported is missing, so that an attempt which
\* resumes there skips no entity.
CountedIsThere ==
  row # None /\ row.status = "running" =>
    \A e \in Entities : row.phase = "repair" \/ e < row.imported => base[e] # None

\* "Block 0 once the genesis import is done": then every genesis entity is in,
\* and every operation at or below the fold point is on top of it, or due for
\* the late scan, although blocks were folded before the import began.
DoneIsComplete ==
  row # None /\ row.status = "done" =>
    /\ floorZero
    /\ \A e \in Entities :
         /\ base[e] # None
         /\ ops[e] # None => ops[e] > projected \/ e \in onTop \cup late

\* The secondary indexes are there when the import is done, whichever attempt
\* dropped them; a lease that was lost mid-drop is the exception.
IndexesRebuilt ==
  row # None /\ row.status = "done" /\ ~leaseLost => indexes = "present"

\* An import comes to an end: done, or failed with a reason, or waiting for a
\* dump that nobody brings.
Settles == <>[](row # None /\ row.status \in {"done", "failed"})
=============================================================================
