------------------------- MODULE TransactionRecords -------------------------
(***************************************************************************)
(* The best transactions of a category, kept in a table of their own that  *)
(* every writer of blocks merges its block into: forward scanner, backfill *)
(* and gap filler.  A block is saved in one transaction of several         *)
(* statements under READ COMMITTED, each of which sees the rows committed  *)
(* when it begins, and its own transaction's work.                         *)
(*                                                                         *)
(* One category; the others are independent of it and treated alike.       *)
(***************************************************************************)
EXTENDS Integers, FiniteSets

CONSTANTS
  None,
  Writers,
  Blocks,       \* block numbers
  Positions,    \* positions of the transactions of a block
  value,        \* recordValueForCategory of every transaction
  MaxRecords,   \* MAX_TRANSACTION_RECORDS_PER_CATEGORY
  MaxSaves      \* bound: how often a block is saved

RecordsAssumption ==
  /\ Blocks \subseteq Nat /\ Positions \subseteq Nat /\ None \notin Nat
  /\ IsFiniteSet(Blocks) /\ IsFiniteSet(Positions) /\ IsFiniteSet(Writers)
  /\ value \in [Blocks \X Positions -> Nat]
  /\ MaxRecords \in Nat \ {0} /\ MaxSaves \in Nat \ {0}

VARIABLES
  stored,    \* database: block number -> version of its row, None if absent
  records,   \* database: the rows of transaction_records
  saving,    \* each writer's transaction: its block, or None
  step,      \* the statement it is at
  version,   \* the version of the block it has read from the node
  mine,      \* rows it has inserted and not deleted again
  deleted,   \* committed rows it has deleted: locked until it ends
  minimum,   \* getCurrentRecordMinimum, 0 if there is none
  saves

vars == <<stored, records, saving, step, version, mine, deleted, minimum, saves>>

Versions == 1..MaxSaves
Rows == [block : Blocks, position : Positions, version : Versions]

RecordValue(r) == value[<<r.block, r.position>>]

\* ORDER BY record_value DESC, block_number DESC, position DESC.
Before(r, s) ==
  \/ RecordValue(r) > RecordValue(s)
  \/ RecordValue(r) = RecordValue(s) /\ r.block > s.block
  \/ RecordValue(r) = RecordValue(s) /\ r.block = s.block /\ r.position > s.position

\* The first n of a set of rows.
Top(n, rows) == {r \in rows : Cardinality({s \in rows : Before(s, r)}) < n}

\* What a statement of w sees.
Visible(w) == (records \ deleted[w]) \cup mine[w]

\* Deleting a row another transaction has deleted waits for its end.
Unlocked(w, rows) ==
  \A v \in Writers \ {w} : rows \cap deleted[v] = {}

-----------------------------------------------------------------------------
Init ==
  /\ stored = [b \in Blocks |-> None]
  /\ records = {}
  /\ saving = [w \in Writers |-> None]
  /\ step = [w \in Writers |-> "idle"]
  /\ version = [w \in Writers |-> 1]
  /\ mine = [w \in Writers |-> {}]
  /\ deleted = [w \in Writers |-> {}]
  /\ minimum = [w \in Writers |-> 0]
  /\ saves = [b \in Blocks |-> 0]

\* Mutant of SaveBlockRow: the row is not locked.
SaveBlockRowUnlocked(w, b) ==
  /\ step[w] = "idle" /\ saves[b] < MaxSaves
  /\ saves' = [saves EXCEPT ![b] = @ + 1]
  /\ version' = [version EXCEPT ![w] = saves[b] + 1]
  /\ saving' = [saving EXCEPT ![w] = b]
  /\ step' = [step EXCEPT ![w] = "delete"]
  /\ UNCHANGED <<stored, records, mine, deleted, minimum>>

\* The transaction begins with the upsert of the block's row, which is locked
\* to its end; a second writer of the block waits.
SaveBlockRow(w, b) ==
  /\ step[w] = "idle" /\ saves[b] < MaxSaves
  /\ \A v \in Writers : saving[v] # b
  /\ saves' = [saves EXCEPT ![b] = @ + 1]
  /\ version' = [version EXCEPT ![w] = saves[b] + 1]
  /\ saving' = [saving EXCEPT ![w] = b]
  /\ step' = [step EXCEPT ![w] = "delete"]
  /\ UNCHANGED <<stored, records, mine, deleted, minimum>>

\* deleteTransactionRecordsForBlock.
DeleteRecords(w) ==
  /\ step[w] = "delete"
  /\ LET old == {r \in Visible(w) : r.block = saving[w]}
     IN  /\ Unlocked(w, old)
         /\ deleted' = [deleted EXCEPT ![w] = @ \cup old]
  /\ step' = [step EXCEPT ![w] = "minimum"]
  /\ UNCHANGED <<stored, records, saving, version, mine, minimum, saves>>

\* The value of the last row that counts, if the table is full.
MinimumOf(rows) ==
  IF \E r \in rows : Cardinality({s \in rows : Before(s, r)}) = MaxRecords - 1
  THEN RecordValue(CHOOSE r \in rows :
                     Cardinality({s \in rows : Before(s, r)}) = MaxRecords - 1)
  ELSE 0

GetMinimum(w) ==
  /\ step[w] = "minimum"
  /\ minimum' = [minimum EXCEPT ![w] = MinimumOf(Visible(w))]
  /\ step' = [step EXCEPT ![w] = "insert"]
  /\ UNCHANGED <<stored, records, saving, version, mine, deleted, saves>>

\* The block's own best rows, without those below the minimum.
Candidates(w) ==
  {r \in Top(MaxRecords, [block : {saving[w]}, position : Positions,
                          version : {version[w]}]) :
     RecordValue(r) >= minimum[w]}

\* insertTransactionRecordRows; without candidates the category is done.
InsertRecords(w) ==
  /\ step[w] = "insert"
  /\ mine' = [mine EXCEPT ![w] = Candidates(w)]
  /\ step' = [step EXCEPT ![w] = IF Candidates(w) = {} THEN "commit" ELSE "prune"]
  /\ UNCHANGED <<stored, records, saving, version, deleted, minimum, saves>>

Pruned(rows) == rows \ Top(MaxRecords, rows)

\* pruneTransactionRecords.
PruneRecords(w) ==
  /\ step[w] = "prune"
  /\ Unlocked(w, Pruned(Visible(w)))
  /\ mine' = [mine EXCEPT ![w] = @ \ Pruned(Visible(w))]
  /\ deleted' = [deleted EXCEPT ![w] = @ \cup (Pruned(Visible(w)) \cap records)]
  /\ step' = [step EXCEPT ![w] = "commit"]
  /\ UNCHANGED <<stored, records, saving, version, minimum, saves>>

\* While the statement waited, the transaction it waited for committed: rows
\* that are gone are skipped, the others are deleted all the same.
PruneAfterWait(w, v) ==
  /\ step[w] = "prune" /\ v # w /\ step[v] = "commit"
  /\ Pruned(Visible(w)) \cap deleted[v] # {}
  /\ records' = (records \ deleted[v]) \cup mine[v]
  /\ stored' = [stored EXCEPT ![saving[v]] = version[v]]
  /\ mine' = [mine EXCEPT ![w] = @ \ Pruned(Visible(w)), ![v] = {}]
  /\ deleted' = [deleted EXCEPT ![v] = {},
                   ![w] = @ \cup ((Pruned(Visible(w)) \cap records) \ deleted[v])]
  /\ Unlocked(w, (Pruned(Visible(w)) \cap records) \ deleted[v])
  /\ step' = [step EXCEPT ![w] = "commit", ![v] = "idle"]
  /\ saving' = [saving EXCEPT ![v] = None]
  /\ minimum' = [minimum EXCEPT ![v] = 0]
  /\ UNCHANGED <<version, saves>>

End(w) ==
  /\ saving' = [saving EXCEPT ![w] = None]
  /\ step' = [step EXCEPT ![w] = "idle"]
  /\ mine' = [mine EXCEPT ![w] = {}]
  /\ deleted' = [deleted EXCEPT ![w] = {}]
  /\ minimum' = [minimum EXCEPT ![w] = 0]
  /\ UNCHANGED <<version, saves>>

Commit(w) ==
  /\ step[w] = "commit"
  /\ records' = (records \ deleted[w]) \cup mine[w]
  /\ stored' = [stored EXCEPT ![saving[w]] = version[w]]
  /\ End(w)

\* The transaction fails, loses a deadlock, or its process dies.
Rollback(w) ==
  /\ step[w] # "idle"
  /\ End(w)
  /\ UNCHANGED <<records, stored>>

Next ==
  \E w \in Writers :
    \/ \E b \in Blocks : SaveBlockRow(w, b)
    \/ DeleteRecords(w) \/ GetMinimum(w) \/ InsertRecords(w)
    \/ PruneRecords(w) \/ \E v \in Writers : PruneAfterWait(w, v)
    \/ Commit(w) \/ Rollback(w)

Spec == Init /\ [][Next]_vars

-----------------------------------------------------------------------------
\* Types of the variables.
TypeOK ==
  /\ stored \in [Blocks -> Versions \cup {None}]
  /\ records \subseteq Rows
  /\ saving \in [Writers -> Blocks \cup {None}]
  /\ step \in [Writers -> {"idle", "delete", "minimum", "insert", "prune", "commit"}]
  /\ version \in [Writers -> Versions]
  /\ \A w \in Writers : mine[w] \subseteq Rows /\ deleted[w] \subseteq records
  /\ minimum \in [Writers -> Nat]
  /\ saves \in [Blocks -> 0..MaxSaves]

\* The rows a table without limit would hold.
AllRows == {r \in Rows : stored[r.block] = r.version}

\* Every record is a transaction of the block row that is stored: a block that
\* is read again leaves none of its old records behind, whoever prunes or
\* saves meanwhile and whoever fails.
RecordsAreOfStoredBlocks == records \subseteq AllRows

\* Writers that prune without seeing each other's rows leave too many, but the
\* table does not grow from save to save.
TableBounded == Cardinality(records) <= MaxRecords * Cardinality(Writers)

\* "The best MaxRecords of each category": no transaction of a stored block
\* that belongs to them is missing, although a writer decides what to insert
\* and what to delete without seeing what the others have not committed yet.
NoRecordLost == Top(MaxRecords, AllRows) \subseteq records
=============================================================================
