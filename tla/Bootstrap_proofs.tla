--------------------------- MODULE Bootstrap_proofs ---------------------------
(***************************************************************************)
(* What is proved of the bootstrap, for every number of entities, backends *)
(* and importers, every size of a batch and every number of parts and      *)
(* requests: positions are the node's order and what is counted is there,  *)
(* an import that is done is complete, a dump is of one version, no mix of *)
(* failures refuses the version that was wanted, and the record of parts   *)
(* only grows.                                                             *)
(*                                                                         *)
(* The invariant of the import has three parts beside its types.  Progress *)
(* says that the row, a walk and an importer count the same entities that  *)
(* are in the tables; Repair, that whatever a repair has still to do lies  *)
(* beyond the key it has reached, and that a backend which remembers a     *)
(* repair can only commit to the import it read; Indexing, who may have    *)
(* dropped the secondary indexes.  The invariant of the download ties each *)
(* finished part, each record of parts under way and the sidecar to the    *)
(* one version that the run has pinned.                                    *)
(***************************************************************************)
EXTENDS Bootstrap, FiniteSetTheorems, WellFoundedInduction, SequenceTheorems, TLAPS

-----------------------------------------------------------------------------
(* The invariant of the import. *)

\* The row counts entities, and its cursor, when it has one, points behind them.
CursorCounts ==
  row # None /\ row.status = "running" =>
    /\ row.phase \in {"walk", "repair"}
    /\ row.phase = "walk" =>
         /\ row.after = None
         /\ row.cursor = None => row.imported = 0
         /\ row.cursor # None => row.cursor.at = row.imported

\* A walk holds the entities behind those it has seen, at their places; it has no
\* cursor before the first page and behind the last.
WalkFits(w) ==
  LET n == Len(w.pending) IN
  /\ w.seen + n <= Total
  /\ \A k \in 1..n : w.pending[k] = [entity |-> w.seen + k - 1, position |-> w.seen + k - 1]
  /\ w.phase = "walk" =>
       IF w.cursor = None THEN IF n = 0 THEN w.seen = 0 ELSE w.seen + n = Total
       ELSE w.cursor.at = w.seen + n

WalkInv(b) == walker[b] # None => WalkFits(walker[b])

\* An importer that has nothing left to load has loaded everything.
LoadedInv(i) ==
  importer[i] # None /\ importer[i].pc \in {"index", "hand"} => importer[i].imported = Total

Progress ==
  /\ InNodeOrder /\ CountedIsThere /\ CursorCounts
  /\ \A b \in Backends : WalkInv(b)
  /\ \A i \in Importers : LoadedInv(i)

\* An operation that a finished import must have put on top.
Due(e) == ops[e] # None /\ ops[e] <= projected /\ e \notin onTop \cup late

\* Imports are numbered as they are begun.
Numbered ==
  /\ row # None => row.id <= imports
  /\ \A b \in Backends : walker[b] # None => walker[b].id <= imports

\* What is due lies behind the last key a repair has committed.
BehindIsDone ==
  InRepair /\ row.after # None => \A e \in Entities : Due(e) => e > row.after

\* A batch read for the repair that is under way misses nothing that is due, unless
\* it is full and what it misses lies beyond it.
BatchHolds(w) ==
  /\ \A e \in w.keys : ops[e] # None /\ (w.after # None => e > w.after)
  /\ \A e \in Entities : Due(e) =>
       e \in w.keys \/ (Cardinality(w.keys) >= Batch /\ \A k \in w.keys : k < e)

\* A backend remembers the repair of the import that is under way, or of one that a
\* reset has made away with.
RepairInv(b) ==
  walker[b] # None /\ walker[b].phase = "repair" /\ row # None /\ row.status = "running"
    /\ row.id = walker[b].id =>
      /\ row.phase = "repair" /\ floorZero
      /\ walker[b].after # None => row.after # None /\ walker[b].after <= row.after
      /\ walker[b].keys # None /\ walker[b].after = row.after => BatchHolds(walker[b])

Repair ==
  /\ Numbered /\ BehindIsDone /\ DoneIsComplete
  /\ \A b \in Backends : RepairInv(b)
  /\ \A e \in late : ops[e] # None

\* The importer that holds the lease works on the row it has claimed, unless a walk has
\* failed it; only it drops the indexes, and the row says so.
Indexing ==
  ~leaseLost =>
    /\ indexes = "dropped" =>
         /\ row # None
         /\ row.status = "failed" \/ (Running("walk", "dump") /\ row.indexes = "dropped")
    /\ \A i \in Importers : importer[i] # None =>
         /\ lease = i
         /\ row # None
         /\ \/ row.status = "failed"
            \/ /\ Running("walk", "dump") /\ row.indexes = importer[i].indexes
               /\ importer[i].pc = "drop" => importer[i].indexes = "dropped"
               /\ importer[i].pc = "hand" => indexes = "present"

ImportInv == TypeOK /\ Progress /\ Repair /\ Indexing

-----------------------------------------------------------------------------
(* The invariant of the download. *)

Busy == {"ask", "read", "sync"}
ShotType == [by : Workers, etag : Versions, done : SUBSET Download!Parts]

RunTypes ==
  /\ Download!TypeOK
  /\ snapshots \in Seq(ShotType)
  /\ phase \in {"first", "parts", "verify"} => written # None

\* What the sidecar counts is on disk and in the file, of the version it pins.
SidecarTrue ==
  sidecar # None /\ written # None =>
    \A p \in sidecar.done : written[p] = sidecar.etag /\ onDisk[p] = sidecar.etag

\* Between runs nothing is remembered.
Quiet ==
  /\ etag = None /\ done = {} /\ queue = {} /\ snapshots = <<>> /\ failure = None
  /\ worker = [w \in Workers |-> Download!Resting]

Still == snapshots = <<>> /\ \A w \in Workers : worker[w].at \in {"rest", "over"}

\* The first request is alone, and pins the version by its answer.
FirstInv ==
  phase = "first" =>
    /\ sidecar = None
    /\ \A w \in Workers \ {Lead} : worker[w] = Download!Resting
    /\ worker[Lead].at \in {"ask", "read"} => etag = None
    /\ snapshots # <<>> => etag # None

\* A run counts parts that are whole, on disk and of the pinned version, and goes on
\* from its own sidecar.
PinnedInv ==
  phase \in {"first", "parts", "verify"} =>
    /\ phase # "first" => etag # None
    /\ \A p \in done : etag # None /\ written[p] = etag /\ onDisk[p] = etag
    /\ sidecar # None => sidecar.etag = etag /\ sidecar.done \subseteq done

\* A request is for a part that nobody else has and that is not finished.
WorkerInv(w) ==
  /\ worker[w].part # None => worker[w].part \notin queue
  /\ worker[w].at \in Busy => worker[w].part \in Download!Parts \ done
  /\ worker[w].at \in {"ask", "read"} => worker[w].failures < PartAttempts
  /\ worker[w].at = "read" => worker[w].body # None /\ (etag # None => worker[w].body = etag)
  /\ worker[w].at = "sync" => etag # None /\ written[worker[w].part] = etag

\* The records under way are of the pinned version, grow, and keep their workers waiting.
SnapshotsInv ==
  \A i \in DOMAIN snapshots :
    /\ worker[snapshots[i].by].at = "persist"
    /\ snapshots[i].etag = etag /\ snapshots[i].done \subseteq done
    /\ sidecar # None => sidecar.done \subseteq snapshots[i].done
    /\ \A j \in DOMAIN snapshots : i < j =>
         snapshots[i].by # snapshots[j].by /\ snapshots[i].done \subseteq snapshots[j].done

\* No part of a run that has not failed is forgotten.
PartsInv ==
  /\ phase \in {"first", "parts"} /\ failure = None =>
       \A p \in Download!Parts :
         p \in queue \cup done \/ \E w \in Workers : worker[w].at \in Busy /\ worker[w].part = p
  /\ phase = "verify" => done = Download!Parts
  /\ failure = "mismatch" => phase = "discard" /\ etag # Wanted

RunInv ==
  /\ phase \in {"idle", "open"} => Quiet
  /\ phase \notin {"first", "parts"} => Still
  /\ FirstInv /\ PinnedInv /\ SnapshotsInv /\ PartsInv
  /\ \A w \in Workers : WorkerInv(w)

DownloadInv == RunTypes /\ SidecarTrue /\ RunInv

-----------------------------------------------------------------------------
(* What the operators of the import return. *)

\* The greatest and the least member of a set are members of it.
LEMMA MaxIsMember ==
  ASSUME NEW n \in Nat, NEW S, S \subseteq 0..n, S # {}
  PROVE  Max(S) \in S /\ \A x \in S : x <= Max(S)
<1> DEFINE T == {m \in 0..n : n - m \in S}
<1>1. T \subseteq Nat /\ T # {}
  <2>1. PICK x \in S : x \in 0..n
    OBVIOUS
  <2>2. n - x \in 0..n /\ n - (n - x) = x
    BY <2>1, SMT
  <2>3. n - (n - x) \in S
    BY <2>1, <2>2
  <2>4. n - x \in T
    BY <2>2, <2>3, Zenon
  <2>5. \A m \in 0..n : m \in Nat
    BY SMT
  <2> QED
    BY <2>4, <2>5
<1>2. PICK m \in T : \A k \in T : <<k, m>> \notin OpToRel(<, Nat)
  BY <1>1, WFMin, NatLessThanWellFounded, Zenon
<1>3. \A k, l \in Nat : k < l => <<k, l>> \in OpToRel(<, Nat)
  BY Zenon DEF OpToRel
<1>4. n - m \in S /\ m \in 0..n
  OBVIOUS
<1>5. ASSUME NEW x \in S PROVE n - m >= x
  <2>1. x \in 0..n /\ n - x \in 0..n /\ n - (n - x) = x
    BY SMT
  <2>2. n - x \in T
    BY <2>1
  <2>3. ~(n - x < m)
    BY <1>1, <1>2, <1>3, <2>2
  <2> QED
    BY <1>4, <2>1, <2>3, SMT
<1>6. \E x \in S : \A y \in S : x >= y
  BY <1>4, <1>5
<1>7. Max(S) \in S /\ \A y \in S : Max(S) >= y
  BY <1>6, Zenon DEF Max
<1> QED
  BY <1>7, SMT

LEMMA MinIsMember ==
  ASSUME NEW S, S \subseteq Nat, S # {}
  PROVE  Min(S) \in S
<1>1. PICK m \in S : \A k \in S : <<k, m>> \notin OpToRel(<, Nat)
  BY WFMin, NatLessThanWellFounded, Zenon
<1>2. \A k, l \in Nat : k < l => <<k, l>> \in OpToRel(<, Nat)
  BY Zenon DEF OpToRel
<1>3. \A k \in S : m <= k
  <2> SUFFICES ASSUME NEW k \in S PROVE m <= k
    OBVIOUS
  <2>1. ~(k < m)
    BY <1>1, <1>2
  <2> QED
    BY <2>1, SMT
<1> QED
  BY <1>3, Zenon DEF Min

\* A batch of the repair: what it leaves out lies behind it, and it is full then.
LEMMA LowestHolds ==
  ASSUME NEW S \in SUBSET Entities, NEW e \in S, e \notin Lowest(Batch, S)
  PROVE  Cardinality(Lowest(Batch, S)) >= Batch /\ \A k \in Lowest(Batch, S) : k < e
<1> DEFINE Below(x) == {f \in S : f < x}
           keys == Lowest(Batch, S)
           T == S \ keys
<1>1. Entities \subseteq Nat /\ Batch \in Nat
  BY GenesisAssumption, SMT DEF Entities
<1>2. keys = {x \in S : Cardinality(Below(x)) < Batch}
  BY DEF Lowest
<1>3. \A x \in S : IsFiniteSet(Below(x)) /\ Cardinality(Below(x)) \in Nat
  <2>1. IsFiniteSet(Entities)
    BY FS_Interval, GenesisAssumption DEF Entities
  <2> QED
    BY <2>1, FS_Subset, FS_CardinalityType
<1>4. IsFiniteSet(keys) /\ Cardinality(keys) \in Nat
  <2>1. IsFiniteSet(Entities)
    BY FS_Interval, GenesisAssumption DEF Entities
  <2>2. keys \subseteq Entities
    BY <1>2
  <2> QED
    BY <2>1, <2>2, FS_Subset, FS_CardinalityType
<1>5. T \subseteq Nat /\ T # {}
  BY <1>1
<1>6. PICK m \in T : \A k \in T : <<k, m>> \notin OpToRel(<, Nat)
  BY <1>5, WFMin, NatLessThanWellFounded, Zenon
<1>7. \A k, l \in Nat : k < l => <<k, l>> \in OpToRel(<, Nat)
  BY Zenon DEF OpToRel
<1>8. m \in S /\ m \notin keys /\ Cardinality(Below(m)) >= Batch
  <2>1. m \in S /\ m \notin keys
    OBVIOUS
  <2>2. ~(Cardinality(Below(m)) < Batch)
    BY <1>2, <2>1
  <2> HIDE DEF Below
  <2> QED
    BY <1>1, <1>3, <2>1, <2>2, SMT
<1>9. Below(m) \subseteq keys
  BY <1>1, <1>5, <1>6, <1>7
<1>10. Cardinality(keys) >= Batch
  <2>1. Cardinality(Below(m)) <= Cardinality(keys)
    BY <1>4, <1>9, FS_Subset
  <2> HIDE DEF Below, keys
  <2> QED
    BY <1>1, <1>3, <1>4, <1>8, <2>1, SMT
<1>11. ASSUME NEW k \in keys PROVE k < e
  <2>1. k \in S /\ k \in Nat /\ e \in Nat
    BY <1>1, <1>2
  <2> k # e
    BY Zenon
  <2>2. CASE e < k
    <3>1. Below(e) \subseteq Below(k)
      <4> SUFFICES ASSUME NEW f \in S, f < e PROVE f < k
        OBVIOUS
      <4>1. f \in Nat
        BY <1>1
      <4> QED
        BY <2>1, <2>2, <4>1, SMT
    <3>2. Cardinality(Below(e)) <= Cardinality(Below(k))
      BY <1>3, <2>1, <3>1, FS_Subset
    <3>3. Cardinality(Below(k)) < Batch /\ ~(Cardinality(Below(e)) < Batch)
      BY <1>2, <2>1
    <3>4. Cardinality(Below(k)) \in Nat /\ Cardinality(Below(e)) \in Nat
      BY <1>3, <2>1
    <3> HIDE DEF Below
    <3> QED
      BY <1>1, <3>2, <3>3, <3>4, SMT
  <2> QED
    BY <2>1, <2>2, SMT
<1> QED
  BY <1>10, <1>11

\* Records of the dump are those behind what was imported, as many as fit.
LEMMA RecordsAre ==
  ASSUME NEW m, m.imported \in 0..Total
  PROVE  /\ Len(Records(m)) \in 0..(Total - m.imported)
         /\ DOMAIN Records(m) = 1..Len(Records(m))
         /\ \A k \in 1..Len(Records(m)) :
              Records(m)[k] = [entity |-> m.imported + k - 1, position |-> m.imported + k - 1]
<1> DEFINE S == {0} \cup {k \in 0..Batch : m.imported + k <= Total}
           n == Max(S)
<1>1. S \subseteq 0..Batch /\ S # {} /\ Batch \in Nat /\ Total \in Nat
  BY GenesisAssumption, SMT
<1>2. n \in S
  <2> HIDE DEF S
  <2> QED
    BY <1>1, MaxIsMember
<1>3. n \in Nat /\ m.imported + n <= Total
  <2>1. \A k \in S : k \in Nat /\ m.imported + k <= Total
    BY <1>1, SMT
  <2> HIDE DEF S
  <2> QED
    BY <1>2, <2>1
<1>4. n \in 0..(Total - m.imported)
  <2> HIDE DEF n
  <2> QED
    BY <1>1, <1>3, SMT
<1>5. Records(m) = [k \in 1..n |-> [entity |-> m.imported + k - 1, position |-> m.imported + k - 1]]
  BY DEF Records
<1> HIDE DEF n
<1>6. DOMAIN Records(m) = 1..n /\ Len(Records(m)) = n
  BY <1>3, <1>5, SMT
<1> QED
  BY <1>4, <1>5, <1>6

\* A batch of entities at their places puts each at its place, and takes none away.
LEMMA InsertsInOrder ==
  ASSUME TypeOK, InNodeOrder, NEW batch, NEW first \in 0..Total, NEW n \in 0..(Total - first),
         DOMAIN batch = 1..n,
         \A k \in 1..n : batch[k] = [entity |-> first + k - 1, position |-> first + k - 1],
         InsertVersions(batch)
  PROVE  /\ base' \in [Entities -> 0..Total \cup {None}]
         /\ InNodeOrder'
         /\ \A e \in Entities : base[e] # None => base'[e] # None
         /\ \A e \in Entities : first <= e /\ e < first + n => base'[e] # None
<1> DEFINE given(e) == {p \in {batch[i] : i \in DOMAIN batch} : p.entity = e}
<1>1. Total \in Nat /\ Entities = 0..(Total - 1) /\ None \notin Int
  BY GenesisAssumption DEF Entities
<1>2. base' = [e \in Entities |->
        IF base[e] # None \/ given(e) = {} THEN base[e]
        ELSE (CHOOSE p \in given(e) : TRUE).position]
  BY DEF InsertVersions
<1>3. \A e \in Entities : base[e] \in 0..Total \cup {None} /\ (base[e] # None => base[e] = e)
  BY DEF TypeOK, InNodeOrder
<1>4. ASSUME NEW e \in Entities, NEW p \in given(e) PROVE p.position = e
  BY SMT
<1>5. ASSUME NEW e \in Entities, given(e) # {} PROVE (CHOOSE p \in given(e) : TRUE).position = e
  <2>1. (CHOOSE p \in given(e) : TRUE) \in given(e)
    BY <1>5
  <2> HIDE DEF given
  <2> QED
    BY <1>4, <2>1
<1>6. ASSUME NEW e \in Entities, first <= e, e < first + n PROVE given(e) # {}
  <2> DEFINE k == e - first + 1
  <2>1. k \in 1..n /\ first + k - 1 = e
    BY <1>1, <1>6, SMT
  <2>2. batch[k].entity = e
    BY <2>1
  <2> QED
    BY <2>1, <2>2
<1> HIDE DEF given
<1>7. ASSUME NEW e \in Entities
      PROVE  base'[e] = IF base[e] # None \/ given(e) = {} THEN base[e] ELSE e
  BY <1>2, <1>5
<1>8. \A e \in Entities : e \in 0..Total /\ e # None
  BY <1>1, SMT
<1>9. base' \in [Entities -> 0..Total \cup {None}]
  <2>1. \A e \in Entities : base'[e] \in 0..Total \cup {None}
    BY <1>3, <1>7, <1>8
  <2> QED
    BY <1>2, <2>1
<1> QED
  BY <1>3, <1>6, <1>7, <1>8, <1>9 DEF InNodeOrder

-----------------------------------------------------------------------------
(* Types of the import. *)

\* Rows and walks that the steps write.
LEMMA RowMoves ==
  ASSUME NEW r \in RowType
  PROVE  /\ \A st \in {"waiting", "running", "done", "failed"}, ph \in {None, "walk", "repair"} :
              [r EXCEPT !.status = st, !.phase = ph] \in RowType
         /\ \A st \in {"waiting", "running", "done", "failed"}, ph \in {None, "walk", "repair"},
               a \in Entities \cup {None} :
              [r EXCEPT !.status = st, !.phase = ph, !.after = a] \in RowType
         /\ \A n \in 0..Total, c \in CursorType \cup {None} :
              [r EXCEPT !.cursor = c, !.imported = n] \in RowType
         /\ \A n \in 0..Total, c \in CursorType \cup {None} :
              [r EXCEPT !.imported = n, !.cursor = c] \in RowType
         /\ \A ph \in {None, "walk", "repair"}, n \in 0..Total, c \in CursorType \cup {None} :
              [r EXCEPT !.imported = n, !.cursor = c, !.phase = ph] \in RowType
         /\ \A ph \in {None, "walk", "repair"}, c \in CursorType \cup {None},
               x \in {"kept", "dropped"} :
              [r EXCEPT !.phase = ph, !.cursor = c, !.indexes = x] \in RowType
         /\ \A st \in {"waiting", "running", "done", "failed"}, ph \in {None, "walk", "repair"},
               so \in {None, "rpc", "dump"}, id \in Nat :
              [r EXCEPT !.id = id, !.status = st, !.phase = ph, !.source = so] \in RowType
         /\ \A st \in {"waiting", "running", "done", "failed"}, ph \in {None, "walk", "repair"},
               so \in {None, "rpc", "dump"}, id \in Nat :
              [r EXCEPT !.status = st, !.phase = ph, !.source = so, !.id = id] \in RowType
         /\ \A a \in Entities \cup {None} :
              [r EXCEPT !.after = a] \in RowType
         /\ \A x \in {"kept", "dropped"} :
              [r EXCEPT !.indexes = x] \in RowType
         /\ \A so \in {None, "rpc", "dump"} :
              [r EXCEPT !.source = so] \in RowType
         /\ \A id \in Nat :
              [r EXCEPT !.id = id] \in RowType
         /\ \A id \in Nat :
              [r EXCEPT !.attempt = id] \in RowType
<1> DEFINE St == {"waiting", "running", "done", "failed"}
           Ph == {None, "walk", "repair"}
           So == {None, "rpc", "dump"}
           N == 0..Total
           C == CursorType \cup {None}
           A == Entities \cup {None}
           X == {"kept", "dropped"}
<1>1. RowType = [status : St, phase : Ph, source : So, id : Nat, attempt : Nat, imported : N,
                 cursor : C, after : A, indexes : X]
  BY DEF RowType
<1> HIDE DEF St, Ph, So, N, C, A, X
<1>2. \A st \in St, ph \in Ph : [r EXCEPT !.status = st, !.phase = ph] \in RowType
  BY <1>1
<1>3. \A st \in St, ph \in Ph, a \in A :
        [r EXCEPT !.status = st, !.phase = ph, !.after = a] \in RowType
  BY <1>1
<1>4. \A n \in N, c \in C : [r EXCEPT !.cursor = c, !.imported = n] \in RowType
  BY <1>1
<1>5. \A n \in N, c \in C : [r EXCEPT !.imported = n, !.cursor = c] \in RowType
  BY <1>1
<1>6. \A ph \in Ph, n \in N, c \in C :
        [r EXCEPT !.imported = n, !.cursor = c, !.phase = ph] \in RowType
  BY <1>1
<1>7. \A ph \in Ph, c \in C, x \in X :
        [r EXCEPT !.phase = ph, !.cursor = c, !.indexes = x] \in RowType
  BY <1>1
<1>8. \A st \in St, ph \in Ph, so \in So, id \in Nat :
        [r EXCEPT !.id = id, !.status = st, !.phase = ph, !.source = so] \in RowType
  BY <1>1
<1>9. \A st \in St, ph \in Ph, so \in So, id \in Nat :
        [r EXCEPT !.status = st, !.phase = ph, !.source = so, !.id = id] \in RowType
  BY <1>1
<1>10. \A a \in A : [r EXCEPT !.after = a] \in RowType
  BY <1>1
<1>11. \A x \in X : [r EXCEPT !.indexes = x] \in RowType
  BY <1>1
<1>12. \A so \in So : [r EXCEPT !.source = so] \in RowType
  BY <1>1
<1>13. \A id \in Nat : [r EXCEPT !.id = id] \in RowType
  BY <1>1
<1>14. \A id \in Nat : [r EXCEPT !.attempt = id] \in RowType
  BY <1>1
<1> QED
  BY <1>2, <1>3, <1>4, <1>5, <1>6, <1>7, <1>8, <1>9, <1>10, <1>11, <1>12, <1>13, <1>14
  DEF St, Ph, So, N, C, A, X

LEMMA BlankIs == Blank \in RowType
<1>1. 0 \in 0..Total
  BY GenesisAssumption, SMT
<1> QED
  BY <1>1, SMT DEF Blank, RowType

LEMMA WalkerMoves ==
  ASSUME NEW w \in WalkerType
  PROVE  /\ \A s \in Seq([entity : Entities, position : Entities]), c \in CursorType \cup {None} :
              [w EXCEPT !.pending = s, !.cursor = c] \in WalkerType
         /\ \A n \in 0..Total, d \in CursorType \cup {None},
               s \in Seq([entity : Entities, position : Entities]) :
              [w EXCEPT !.seen = n, !.seenCursor = d, !.pending = s] \in WalkerType
         /\ \A a \in Entities \cup {None}, k \in (SUBSET Entities) \cup {None} :
              [w EXCEPT !.after = a, !.keys = k] \in WalkerType
         /\ \A k \in (SUBSET Entities) \cup {None} :
              [w EXCEPT !.keys = k] \in WalkerType
<1> DEFINE S == Seq([entity : Entities, position : Entities])
           N == 0..Total
           C == CursorType \cup {None}
           A == Entities \cup {None}
           K == (SUBSET Entities) \cup {None}
           P == {"walk", "repair"}
<1>1. WalkerType = [phase : P, id : Nat, seen : N, seenCursor : C, pending : S, cursor : C,
                    after : A, keys : K]
  BY DEF WalkerType
<1> HIDE DEF S, N, C, A, K, P
<1>2. \A s \in S, c \in C : [w EXCEPT !.pending = s, !.cursor = c] \in WalkerType
  BY <1>1
<1>3. \A n \in N, d \in C, s \in S :
        [w EXCEPT !.seen = n, !.seenCursor = d, !.pending = s] \in WalkerType
  BY <1>1
<1>4. \A a \in A, k \in K : [w EXCEPT !.after = a, !.keys = k] \in WalkerType
  BY <1>1
<1>5. \A k \in K : [w EXCEPT !.keys = k] \in WalkerType
  BY <1>1
<1> QED
  BY <1>2, <1>3, <1>4, <1>5 DEF S, N, C, A, K, P

LEMMA ImporterMoves ==
  ASSUME NEW m \in ImporterType
  PROVE  /\ \A p \in {"verify", "plan", "drop", "load", "index", "hand"} :
              [m EXCEPT !.pc = p] \in ImporterType
         /\ \A p \in {"verify", "plan", "drop", "load", "index", "hand"},
               x \in {"kept", "dropped"} :
              [m EXCEPT !.pc = p, !.indexes = x] \in ImporterType
         /\ \A n \in 0..Total, p \in {"verify", "plan", "drop", "load", "index", "hand"} :
              [m EXCEPT !.imported = n, !.pc = p] \in ImporterType
<1> DEFINE N == 0..Total
           P == {"verify", "plan", "drop", "load", "index", "hand"}
           X == {"kept", "dropped"}
<1>1. ImporterType = [pc : P, id : Nat, attempt : Nat, imported : N, resumes : BOOLEAN, indexes : X]
  BY DEF ImporterType
<1> HIDE DEF N, P, X
<1>2. \A p \in P : [m EXCEPT !.pc = p] \in ImporterType
  BY <1>1
<1>3. \A p \in P, x \in X : [m EXCEPT !.pc = p, !.indexes = x] \in ImporterType
  BY <1>1
<1>4. \A n \in N, p \in P : [m EXCEPT !.imported = n, !.pc = p] \in ImporterType
  BY <1>1
<1> QED
  BY <1>2, <1>3, <1>4 DEF N, P, X

\* A walk is at the place that it would give the next entity.
LEMMA PageIsNext ==
  ASSUME Progress, TypeOK, NEW b \in Backends, Walking(b), ~LastPage(walker[b]),
         Imported(walker[b]) < Total
  PROVE  /\ PageAt(walker[b]) = Imported(walker[b])
         /\ Imported(walker[b]) \in Entities
         /\ Imported(walker[b]) = walker[b].seen + Len(walker[b].pending)
<1> DEFINE w == walker[b]
           n == Len(w.pending)
<1>1. w \in WalkerType /\ WalkInv(b)
  BY DEF Walking, TypeOK, Progress
<1>2. /\ w.seen \in Nat /\ w.pending \in Seq([entity : Entities, position : Entities])
      /\ w.cursor \in CursorType \cup {None}
  BY <1>1, SMT DEF WalkerType, GenesisAssumption
<1>3. n \in Nat /\ (w.pending = << >> <=> n = 0)
  BY <1>2, EmptySeq, LenProperties
<1>4. w.seen + n \in Entities
  <2>1. Total \in Nat /\ w.seen + n < Total
    BY GenesisAssumption DEF Imported
  <2> HIDE DEF w, n
  <2> QED
    BY <1>2, <1>3, <2>1, SMT DEF Entities
<1>5. CASE w.cursor = None
  <2>1. n = 0 /\ w.seen = 0
    BY <1>1, <1>3, <1>5 DEF WalkInv, WalkFits, Walking, LastPage
  <2> QED
    BY <1>4, <1>5, <2>1 DEF PageAt, Imported
<1>6. CASE w.cursor # None
  BY <1>1, <1>4, <1>6 DEF WalkInv, WalkFits, Walking, PageAt, Imported
<1> QED
  BY <1>5, <1>6

\* What a page leaves of a walk.
Paged(w) ==
  [w EXCEPT !.pending = Append(@, [entity |-> Imported(w), position |-> Imported(w)]),
            !.cursor = IF Imported(w) + 1 = Total THEN None
                       ELSE [epoch |-> epoch, at |-> Imported(w) + 1]]

LEMMA PageGives ==
  ASSUME Progress, TypeOK, NEW b \in Backends, Page(b)
  PROVE  /\ walker[b] \in WalkerType /\ WalkInv(b) /\ Walking(b)
         /\ Imported(walker[b]) \in Entities
         /\ Imported(walker[b]) = walker[b].seen + Len(walker[b].pending)
         /\ walker' = [walker EXCEPT ![b] = Paged(walker[b])]
         /\ Paged(walker[b]) \in WalkerType
<1> DEFINE w == walker[b]
<1>1. /\ PageAt(w) = Imported(w) /\ Imported(w) \in Entities
      /\ Imported(w) = w.seen + Len(w.pending)
  BY PageIsNext DEF Page
<1>2. walker' = [walker EXCEPT ![b] = Paged(w)]
  BY <1>1 DEF Page, Paged
<1>3. w \in WalkerType /\ WalkInv(b) /\ Walking(b)
  BY DEF Page, Walking, TypeOK, Progress
<1>4. Append(w.pending, [entity |-> Imported(w), position |-> Imported(w)])
        \in Seq([entity : Entities, position : Entities])
  BY <1>1, <1>3, AppendProperties DEF WalkerType
<1>5. (IF Imported(w) + 1 = Total THEN None ELSE [epoch |-> epoch, at |-> Imported(w) + 1])
        \in CursorType \cup {None}
  <2> DEFINE m == Imported(w)
             c == [epoch |-> epoch, at |-> m + 1]
  <2>1. m \in Entities /\ epoch \in Nat
    BY <1>1 DEF TypeOK
  <2> HIDE DEF m
  <2>2. m + 1 \in 0..Total
    BY <2>1, GenesisAssumption, SMT DEF Entities
  <2>3. c \in CursorType
    BY <2>1, <2>2 DEF CursorType
  <2>4. c \in CursorType \cup {None} /\ None \in CursorType \cup {None}
    BY <2>3
  <2> HIDE DEF c
  <2>5. (IF m + 1 = Total THEN None ELSE c) \in CursorType \cup {None}
    BY <2>4
  <2> QED
    BY <2>5 DEF m, c
<1>6. Paged(w) \in WalkerType
  <2> DEFINE s == Append(w.pending, [entity |-> Imported(w), position |-> Imported(w)])
             c == IF Imported(w) + 1 = Total THEN None
                  ELSE [epoch |-> epoch, at |-> Imported(w) + 1]
  <2>1. /\ s \in Seq([entity : Entities, position : Entities])
        /\ c \in CursorType \cup {None} /\ w \in WalkerType
    BY <1>3, <1>4, <1>5
  <2>2. Paged(w) = [w EXCEPT !.pending = s, !.cursor = c]
    BY DEF Paged
  <2> HIDE DEF s, c, w
  <2>3. [w EXCEPT !.pending = s, !.cursor = c] \in WalkerType
    BY <2>1, WalkerMoves, Zenon
  <2> QED
    BY <2>2, <2>3
<1> QED
  BY <1>1, <1>2, <1>3, <1>6

\* What a walk commits, and what an importer does.
LEMMA CommitInserts ==
  ASSUME TypeOK, Progress, NEW b \in Backends, CommitPages(b), Unmoved(walker[b])
  PROVE  LET w == walker[b] IN
         /\ base' \in [Entities -> 0..Total \cup {None}]
         /\ InNodeOrder'
         /\ \A e \in Entities : base[e] # None => base'[e] # None
         /\ \A e \in Entities : w.seen <= e /\ e < Imported(w) => base'[e] # None
<1> DEFINE w == walker[b]
           n == Len(w.pending)
<1>1. w \in WalkerType /\ WalkInv(b) /\ w # None
  BY DEF CommitPages, Walking, TypeOK, Progress
<1>2. w.seen \in 0..Total /\ n \in Nat /\ DOMAIN w.pending = 1..n /\ w.seen + n <= Total
  BY <1>1, LenProperties DEF WalkerType, WalkInv, WalkFits
<1>3. n \in 0..(Total - w.seen)
  <2> HIDE DEF n, w
  <2> QED
    BY <1>2, GenesisAssumption, SMT
<1>4. \A k \in 1..n : w.pending[k] = [entity |-> w.seen + k - 1, position |-> w.seen + k - 1]
  BY <1>1 DEF WalkInv, WalkFits
<1>5. InsertVersions(w.pending) /\ InNodeOrder
  BY DEF CommitPages, Progress
<1> HIDE DEF n
<1> QED
  BY <1>2, <1>3, <1>4, <1>5, InsertsInOrder DEF Imported, n

LEMMA RecordsBehind ==
  ASSUME TypeOK, NEW i \in Importers, CommitRecords(i)
  PROVE  importer[i].imported + Len(Records(importer[i])) \in 0..Total
<1> DEFINE m == importer[i]
           k == Len(Records(m))
           l == m.imported
<1>1. l \in 0..Total
  BY DEF CommitRecords, At, TypeOK, ImporterType
<1>2. k \in 0..(Total - l)
  <2> HIDE DEF m
  <2> QED
    BY <1>1, RecordsAre
<1> HIDE DEF k, l
<1>3. l + k \in 0..Total
  BY <1>1, <1>2, GenesisAssumption, SMT
<1> QED
  BY <1>3 DEF k, l

LEMMA RecordsInserted ==
  ASSUME TypeOK, Progress, NEW i \in Importers, CommitRecords(i),
         Owns(i) /\ row.imported = importer[i].imported
  PROVE  LET m == importer[i] IN
         /\ base' \in [Entities -> 0..Total \cup {None}]
         /\ InNodeOrder'
         /\ \A e \in Entities : base[e] # None => base'[e] # None
         /\ \A e \in Entities :
              m.imported <= e /\ e < m.imported + Len(Records(m)) => base'[e] # None
<1> DEFINE m == importer[i]
           n == Len(Records(m))
<1>1. m.imported \in 0..Total
  BY DEF CommitRecords, At, TypeOK, ImporterType
<1>2. /\ n \in 0..(Total - m.imported) /\ DOMAIN Records(m) = 1..n
      /\ \A k \in 1..n :
           Records(m)[k] = [entity |-> m.imported + k - 1, position |-> m.imported + k - 1]
  <2> HIDE DEF m
  <2> QED
    BY <1>1, RecordsAre
<1>3. InsertVersions(Records(m)) /\ InNodeOrder
  BY DEF CommitRecords, Progress
<1> HIDE DEF n
<1> QED
  BY <1>1, <1>2, <1>3, InsertsInOrder DEF n

\* A batch that is not the last has a greatest key.
LEMMA BatchHasLast ==
  ASSUME NEW keys \in SUBSET Entities, ~LastBatch(keys)
  PROVE  Max(keys) \in Entities /\ Max(keys) \in keys /\ \A k \in keys : k <= Max(keys)
<1>1. Total \in Nat /\ Batch \in Nat /\ Batch # 0 /\ keys \subseteq 0..Total
  BY GenesisAssumption, SMT DEF Entities
<1>2. keys # {}
  <2> SUFFICES ASSUME keys = {} PROVE FALSE
    OBVIOUS
  <2>1. Cardinality(keys) = 0
    BY FS_EmptySet
  <2> QED
    BY <1>1, <2>1, SMT DEF LastBatch
<1> QED
  BY <1>1, <1>2, MaxIsMember

\* Every step of the import keeps the types.
LEMMA TypesKept ==
  ASSUME ImportInv, Next
  PROVE  TypeOK'
<1>1. TypeOK /\ Progress
  BY DEF ImportInv
<1>2. /\ Total \in Nat /\ MaxBlock \in Nat /\ MaxFaults \in Nat
      /\ 0 \in 0..Total /\ 0 \in 0..MaxBlock /\ imports + 1 \in Nat
      /\ RestartLimit \in Nat /\ 0 \in 0..RestartLimit
  BY <1>1, GenesisAssumption, SMT DEF TypeOK
<1>3. Fault => faults' \in 0..MaxFaults
  BY <1>1, <1>2, SMT DEF Fault, TypeOK
<1>4. row # None =>
        /\ row \in RowType /\ Failed \in RowType /\ Rewound \in RowType
        /\ \A i \in Nat : [row EXCEPT !.attempt = i] \in RowType
  <2> SUFFICES ASSUME row # None
               PROVE  /\ row \in RowType /\ Failed \in RowType /\ Rewound \in RowType
                      /\ \A i \in Nat : [row EXCEPT !.attempt = i] \in RowType
    OBVIOUS
  <2>1. row \in RowType
    BY <1>1 DEF TypeOK
  <2>2. Failed \in RowType
    BY <2>1, RowMoves, Zenon DEF Failed
  <2>3. Rewound \in RowType
    BY <1>2, <2>1, RowMoves DEF Rewound
  <2> QED
    BY <2>1, <2>2, <2>3, RowMoves
<1>5. ASSUME NEW e \in Entities, StoreOp(e) PROVE TypeOK'
  BY <1>1, <1>5 DEF TypeOK, StoreOp, tables, machine, history
<1>6. CASE FoldBlock
  <2>1. projected' \in 0..MaxBlock
    BY <1>1, <1>2, <1>6, SMT DEF FoldBlock, TypeOK
  <2>2. onTop' \subseteq Entities
    BY <1>1, <1>6 DEF FoldBlock, Refolded, TypeOK
  <2> QED
    BY <1>1, <1>6, <2>1, <2>2 DEF TypeOK, FoldBlock, machine, history
<1>7. CASE FoldLate
  BY <1>1, <1>7 DEF TypeOK, FoldLate, Refolded, machine, history
<1>8. CASE NodeRestart
  BY <1>1, <1>3, <1>8 DEF TypeOK, NodeRestart, tables, folding, machine
<1>9. CASE LeaseLost
  BY <1>1, <1>3, <1>9 DEF TypeOK, LeaseLost, tables, folding, machine
<1>10. CASE Reset
  BY <1>1, <1>2, <1>3, <1>10 DEF TypeOK, Reset, machine
<1>11. ASSUME NEW b \in Backends, Probe(b) PROVE TypeOK'
  <2>1. /\ [Blank EXCEPT !.id = imports + 1] \in RowType
        /\ [Blank EXCEPT !.id = imports + 1, !.status = "running",
                         !.phase = "walk", !.source = "rpc"] \in RowType
    BY <1>2, BlankIs, RowMoves
  <2>2. row' \in RowType \cup {None}
    BY <1>11, <2>1 DEF Probe
  <2> QED
    BY <1>1, <1>2, <1>11, <2>2 DEF TypeOK, Probe, tables, folding, machine
<1>12. ASSUME NEW b \in Backends, NEW w \in WalkerType \cup {None},
              walker' = [walker EXCEPT ![b] = w]
       PROVE  walker' \in [Backends -> WalkerType \cup {None}]
  BY <1>1, <1>12 DEF TypeOK
<1>13. ASSUME NEW i \in Importers, NEW m \in ImporterType \cup {None},
              importer' = [importer EXCEPT ![i] = m]
       PROVE  importer' \in [Importers -> ImporterType \cup {None}]
  BY <1>1, <1>13 DEF TypeOK
<1>14. \A b \in Backends : walker[b] \in WalkerType \cup {None} /\ restarts[b] \in 0..RestartLimit
  BY <1>1 DEF TypeOK
<1>15. ASSUME NEW b \in Backends, BeginWalk(b) PROVE TypeOK'
  <2> DEFINE w == [phase |-> "walk", id |-> row.id, seen |-> row.imported,
                   seenCursor |-> row.cursor, pending |-> << >>, cursor |-> row.cursor,
                   after |-> None, keys |-> None]
  <2>1. row \in RowType
    BY <1>4, <1>15 DEF BeginWalk, Running
  <2>2. << >> \in Seq([entity : Entities, position : Entities])
    BY EmptySeq
  <2>3. w \in WalkerType
    BY <2>1, <2>2 DEF WalkerType, RowType
  <2>4. walker' = [walker EXCEPT ![b] = w]
    BY <1>15 DEF BeginWalk
  <2> HIDE DEF w
  <2>5. walker' \in [Backends -> WalkerType \cup {None}]
    BY <1>12, <2>3, <2>4
  <2> QED
    BY <1>1, <1>15, <2>5 DEF TypeOK, BeginWalk, tables, folding, history
<1>16. ASSUME NEW b \in Backends, Page(b) PROVE TypeOK'
  <2>1. walker' \in [Backends -> WalkerType \cup {None}]
    BY <1>1, <1>12, <1>16, PageGives
  <2>2. restarts' \in [Backends -> 0..RestartLimit]
    BY <1>1, <1>2, <1>16 DEF TypeOK, Page
  <2> QED
    BY <1>1, <1>16, <2>1, <2>2 DEF TypeOK, Page, tables, folding, history
<1>17. ASSUME NEW b \in Backends, CursorRefused(b) PROVE TypeOK'
  <2>1. walker' \in [Backends -> WalkerType \cup {None}]
    BY <1>12, <1>17 DEF CursorRefused
  <2>2. row' \in RowType \cup {None}
    BY <1>1, <1>4, <1>17 DEF TypeOK, CursorRefused, Running
  <2>3. restarts' \in [Backends -> 0..RestartLimit]
    <3>1. CASE TooOften(b)
      BY <1>1, <1>2, <1>17, <3>1 DEF TypeOK, CursorRefused
    <3>2. CASE ~TooOften(b)
      <4>1. restarts[b] + 1 \in 0..RestartLimit
        BY <1>2, <1>14, <3>2, SMT DEF TooOften
      <4> QED
        BY <1>1, <1>17, <3>2, <4>1 DEF TypeOK, CursorRefused
    <3> QED
      BY <3>1, <3>2
  <2> QED
    BY <1>1, <1>17, <2>1, <2>2, <2>3 DEF TypeOK, CursorRefused, tables, folding, history
<1>18. ASSUME NEW b \in Backends, CommitPages(b) PROVE TypeOK'
  <2> DEFINE w == walker[b]
             c == w.cursor
             n == Imported(w)
             x == [w EXCEPT !.seen = n, !.seenCursor = c, !.pending = << >>]
  <2>1. w \in WalkerType /\ WalkInv(b) /\ w.cursor \in CursorType \cup {None}
    BY <1>1, <1>14, <1>18 DEF CommitPages, Walking, WalkerType, Progress
  <2>2. n \in 0..Total
    <3>1. w.seen \in Nat /\ Len(w.pending) \in Nat /\ w.seen + Len(w.pending) <= Total
      BY <1>2, <1>18, <2>1, LenProperties DEF WalkerType, WalkInv, WalkFits, CommitPages, Walking
    <3>2. n = w.seen + Len(w.pending)
      BY DEF Imported
    <3> HIDE DEF n, w
    <3> QED
      BY <1>2, <3>1, <3>2, SMT
  <2>3. x \in WalkerType
    <3>1. << >> \in Seq([entity : Entities, position : Entities])
      BY EmptySeq
    <3> HIDE DEF n, c, w
    <3> QED
      BY <2>1, <2>2, <3>1, WalkerMoves, Zenon DEF c
  <2>4. CASE Unmoved(w)
    <3>1. row # None /\ row \in RowType
      BY <1>4, <2>4 DEF Unmoved, Running
    <3>2. base' \in [Entities -> 0..Total \cup {None}]
      BY <1>18, <2>4, <1>1, CommitInserts DEF Progress
    <3>3. walker' \in [Backends -> WalkerType \cup {None}]
      <4>1. walker' = [walker EXCEPT ![b] = IF LastPage(w) THEN None ELSE x]
        BY <1>18, <2>4 DEF CommitPages
      <4> HIDE DEF x, w
      <4> QED
        BY <1>12, <2>3, <4>1
    <3>4. row' \in RowType
      <4> DEFINE p == IF LastPage(w) THEN "repair" ELSE "walk"
      <4>1. row' = [row EXCEPT !.imported = n, !.cursor = c, !.phase = p]
        BY <1>18, <2>4 DEF CommitPages
      <4>2. p \in {None, "walk", "repair"} /\ c \in CursorType \cup {None}
        BY <2>1
      <4> HIDE DEF p, n, c, w
      <4> QED
        BY <2>2, <3>1, <4>1, <4>2, RowMoves, Zenon
    <3> QED
      BY <1>1, <1>18, <3>2, <3>3, <3>4 DEF TypeOK, CommitPages, folding, history
  <2>5. CASE ~Unmoved(w)
    <3>1. walker' \in [Backends -> WalkerType \cup {None}] /\ UNCHANGED <<row, base>>
      BY <1>12, <1>18, <2>5 DEF CommitPages
    <3> QED
      BY <1>1, <1>18, <3>1 DEF TypeOK, CommitPages, folding, history
  <2> QED
    BY <2>4, <2>5
<1>19. ASSUME NEW b \in Backends, WalkFails(b) PROVE TypeOK'
  <2>1. walker' \in [Backends -> WalkerType \cup {None}]
    BY <1>12, <1>19 DEF WalkFails
  <2>2. row' \in RowType \cup {None}
    BY <1>1, <1>4, <1>19 DEF TypeOK, WalkFails
  <2> QED
    BY <1>1, <1>3, <1>19, <2>1, <2>2 DEF TypeOK, WalkFails, tables, folding
<1>20. ASSUME NEW b \in Backends, Leave(b) PROVE TypeOK'
  <2>1. walker' \in [Backends -> WalkerType \cup {None}]
    BY <1>12, <1>20 DEF Leave
  <2>2. restarts' \in [Backends -> 0..RestartLimit]
    BY <1>1, <1>2, <1>20 DEF TypeOK, Leave
  <2> QED
    BY <1>1, <1>3, <1>20, <2>1, <2>2 DEF TypeOK, Leave, tables, folding
<1>21. ASSUME NEW b \in Backends, BeginRepair(b) PROVE TypeOK'
  <2> DEFINE w == [phase |-> "repair", id |-> row.id, seen |-> 0, seenCursor |-> None,
                   pending |-> << >>, cursor |-> None, after |-> row.after, keys |-> None]
  <2>1. row \in RowType
    BY <1>4, <1>21 DEF BeginRepair, InRepair
  <2>2. << >> \in Seq([entity : Entities, position : Entities])
    BY EmptySeq
  <2>3. w \in WalkerType
    BY <1>2, <2>1, <2>2 DEF WalkerType, RowType
  <2>4. walker' = [walker EXCEPT ![b] = w]
    BY <1>21 DEF BeginRepair
  <2> HIDE DEF w
  <2>5. walker' \in [Backends -> WalkerType \cup {None}]
    BY <1>12, <2>3, <2>4
  <2> QED
    BY <1>1, <1>21, <2>5 DEF TypeOK, BeginRepair, folding, history
<1>22. ASSUME NEW b \in Backends, ReadKeys(b) PROVE TypeOK'
  <2>1. PICK S \in SUBSET Entities : walker' = [walker EXCEPT ![b].keys = Lowest(Batch, S)]
    BY <1>22 DEF ReadKeys
  <2>2. Lowest(Batch, S) \in (SUBSET Entities) \cup {None}
    BY DEF Lowest
  <2> DEFINE k == Lowest(Batch, S)
             w == walker[b]
             x == [w EXCEPT !.keys = k]
  <2>3. w \in WalkerType
    BY <1>14, <1>22 DEF ReadKeys
  <2>4. walker' = [walker EXCEPT ![b] = x]
    BY <2>1
  <2>5. x \in WalkerType
    <3> HIDE DEF k, w
    <3> QED
      BY <2>2, <2>3, WalkerMoves, Zenon DEF k
  <2> HIDE DEF x
  <2>6. walker' \in [Backends -> WalkerType \cup {None}]
    BY <1>12, <2>4, <2>5
  <2> QED
    BY <1>1, <1>22, <2>6 DEF TypeOK, ReadKeys, tables, folding, history
<1>23. ASSUME NEW b \in Backends, CommitRepair(b) PROVE TypeOK'
  <2> DEFINE w == walker[b]
             a == Max(w.keys)
             x == [w EXCEPT !.after = a, !.keys = None]
  <2>1. w \in WalkerType /\ w.keys \in SUBSET Entities
    BY <1>14, <1>23 DEF CommitRepair, WalkerType
  <2>2. ~LastBatch(w.keys) => a \in Entities
    BY <2>1, BatchHasLast
  <2>3. ~LastBatch(w.keys) => x \in WalkerType
    <3> HIDE DEF a, w
    <3> QED
      BY <2>1, <2>2, WalkerMoves
  <2>4. CASE SameRepair(w)
    <3>1. row \in RowType
      BY <1>4, <2>4 DEF SameRepair, InRepair
    <3>2. walker' = [walker EXCEPT ![b] = IF LastBatch(w.keys) THEN None ELSE x]
      BY <1>23, <2>4 DEF CommitRepair
    <3>3. walker' \in [Backends -> WalkerType \cup {None}]
      <4> HIDE DEF x, w
      <4> QED
        BY <1>12, <2>3, <3>2
    <3>4. row' = IF LastBatch(w.keys)
                 THEN [row EXCEPT !.status = "done", !.phase = None, !.after = None]
                 ELSE [row EXCEPT !.after = a]
      BY <1>23, <2>4 DEF CommitRepair
    <3>5. row' \in RowType
      <4>1. [row EXCEPT !.status = "done", !.phase = None, !.after = None] \in RowType
        BY <3>1, RowMoves
      <4>2. a \in Entities => [row EXCEPT !.after = a] \in RowType
        BY <3>1, RowMoves
      <4> HIDE DEF a, w
      <4> QED
        BY <2>2, <3>4, <4>1, <4>2
    <3>6. onTop' \subseteq Entities
      BY <1>1, <1>23, <2>1, <2>4 DEF CommitRepair, Refolded, TypeOK
    <3> QED
      BY <1>1, <1>23, <3>3, <3>5, <3>6 DEF TypeOK, CommitRepair, folding, history
  <2>5. CASE ~SameRepair(w)
    <3>1. walker' \in [Backends -> WalkerType \cup {None}] /\ UNCHANGED <<row, onTop>>
      BY <1>12, <1>23, <2>5 DEF CommitRepair
    <3> QED
      BY <1>1, <1>23, <3>1 DEF TypeOK, CommitRepair, folding, history
  <2> QED
    BY <2>4, <2>5
<1>24. \A i \in Importers :
         /\ importer[i] \in ImporterType \cup {None}
         /\ Release(i) => /\ importer' \in [Importers -> ImporterType \cup {None}]
                          /\ lease' \in Importers \cup {None}
  <2> SUFFICES ASSUME NEW i \in Importers
               PROVE  /\ importer[i] \in ImporterType \cup {None}
                      /\ Release(i) => /\ importer' \in [Importers -> ImporterType \cup {None}]
                                       /\ lease' \in Importers \cup {None}
    OBVIOUS
  <2> QED
    BY <1>1, <1>13 DEF TypeOK, Release
<1>25. ASSUME NEW i \in Importers, Claim(i) PROVE TypeOK'
  <2> DEFINE r == IF Running("walk", "dump") THEN row
                  ELSE [Blank EXCEPT !.status = "running", !.phase = "walk",
                                     !.source = "dump", !.id = imports + 1]
             m == [pc |-> "verify", id |-> r.id, attempt |-> imports + 1,
                   imported |-> r.imported, resumes |-> r.cursor # None, indexes |-> r.indexes]
  <2>1. r \in RowType
    <3>1. [Blank EXCEPT !.status = "running", !.phase = "walk",
                        !.source = "dump", !.id = imports + 1] \in RowType
      BY <1>2, BlankIs, RowMoves
    <3> QED
      BY <1>4, <3>1 DEF Running
  <2>2. row' = [r EXCEPT !.attempt = imports + 1] /\ importer' = [importer EXCEPT ![i] = m]
    BY <1>25 DEF Claim
  <2> HIDE DEF r
  <2>3. row' \in RowType
    BY <1>2, <2>1, <2>2, RowMoves
  <2>4. m \in ImporterType
    BY <1>2, <2>1 DEF ImporterType, RowType
  <2> HIDE DEF m
  <2>5. importer' \in [Importers -> ImporterType \cup {None}]
    BY <1>13, <2>2, <2>4
  <2> QED
    BY <1>1, <1>2, <1>25, <2>3, <2>5 DEF TypeOK, Claim, tables, folding
<1>26. ASSUME NEW i \in Importers,
              NEW p \in {"verify", "plan", "drop", "load", "index", "hand"},
              importer[i] # None, importer' = [importer EXCEPT ![i].pc = p]
       PROVE  importer' \in [Importers -> ImporterType \cup {None}]
  <2> DEFINE m == importer[i]
             x == [m EXCEPT !.pc = p]
  <2>1. m \in ImporterType
    BY <1>24, <1>26
  <2>2. x \in ImporterType
    <3> HIDE DEF m
    <3> QED
      BY <2>1, ImporterMoves
  <2>3. importer' = [importer EXCEPT ![i] = x]
    BY <1>26
  <2> HIDE DEF x
  <2> QED
    BY <1>13, <2>2, <2>3
<1>27. ASSUME NEW i \in Importers, Verify(i) PROVE TypeOK'
  <2>1. /\ row' \in RowType \cup {None}
        /\ importer' \in [Importers -> ImporterType \cup {None}]
        /\ lease' \in Importers \cup {None}
    <3>1. CASE /\ importer' = [importer EXCEPT ![i].pc =
                    IF importer[i].resumes
                    THEN IF importer[i].indexes = "dropped" THEN "drop" ELSE "load"
                    ELSE "plan"]
               /\ UNCHANGED <<row, lease>>
      <4> DEFINE p == IF importer[i].resumes
                      THEN IF importer[i].indexes = "dropped" THEN "drop" ELSE "load"
                      ELSE "plan"
      <4>1. p \in {"verify", "plan", "drop", "load", "index", "hand"}
        OBVIOUS
      <4>2. importer' = [importer EXCEPT ![i].pc = p] /\ importer[i] # None
        BY <1>27, <3>1 DEF Verify, At
      <4> HIDE DEF p
      <4>3. importer' \in [Importers -> ImporterType \cup {None}]
        BY <1>26, <4>1, <4>2
      <4> QED
        BY <1>1, <3>1, <4>3 DEF TypeOK
    <3>2. CASE Release(i) /\ row' = IF Owns(i) THEN Failed ELSE row
      BY <1>1, <1>4, <1>24, <3>2 DEF TypeOK, Owns, Running
    <3> QED
      BY <1>27, <3>1, <3>2 DEF Verify
  <2> QED
    BY <1>1, <1>27, <2>1 DEF TypeOK, Verify, tables, folding, history
<1>28. ASSUME NEW i \in Importers, PlanIndexes(i) PROVE TypeOK'
  <2>1. CASE Owns(i)
    <3> DEFINE drop == importer[i].indexes = "dropped" \/ \A e \in Entities : base[e] = None
               p == IF drop THEN "drop" ELSE "load"
               m == importer[i]
               y == IF drop THEN "dropped" ELSE m.indexes
               z == IF drop THEN "dropped" ELSE row.indexes
               x == [m EXCEPT !.pc = p, !.indexes = y]
    <3>1. m \in ImporterType /\ row \in RowType
      BY <1>4, <1>24, <1>28, <2>1 DEF PlanIndexes, At, Owns, Running
    <3>2. /\ p \in {"verify", "plan", "drop", "load", "index", "hand"}
          /\ y \in {"kept", "dropped"} /\ z \in {"kept", "dropped"}
      BY <3>1 DEF ImporterType, RowType
    <3>3. importer' = [importer EXCEPT ![i] = x] /\ row' = [row EXCEPT !.indexes = z]
      BY <1>28, <2>1 DEF PlanIndexes
    <3>4. x \in ImporterType
      <4> HIDE DEF m, p, y
      <4> QED
        BY <3>1, <3>2, ImporterMoves, Zenon
    <3>5. row' \in RowType
      <4> HIDE DEF z
      <4> QED
        BY <3>1, <3>2, <3>3, RowMoves, Zenon
    <3> HIDE DEF x
    <3>6. importer' \in [Importers -> ImporterType \cup {None}]
      BY <1>13, <3>3, <3>4
    <3>7. UNCHANGED lease
      BY <1>28, <2>1 DEF PlanIndexes
    <3> QED
      BY <1>1, <1>28, <3>5, <3>6, <3>7 DEF TypeOK, PlanIndexes, tables, folding, history
  <2>2. CASE ~Owns(i)
    <3>1. Release(i) /\ UNCHANGED row
      BY <1>28, <2>2 DEF PlanIndexes
    <3> QED
      BY <1>1, <1>24, <1>28, <3>1 DEF TypeOK, PlanIndexes, tables, folding, history
  <2> QED
    BY <2>1, <2>2
<1>29. ASSUME NEW i \in Importers, DropIndexes(i) PROVE TypeOK'
  <2>1. importer' \in [Importers -> ImporterType \cup {None}]
    BY <1>26, <1>29 DEF DropIndexes, At
  <2> QED
    BY <1>1, <1>29, <2>1 DEF TypeOK, DropIndexes, folding, history
<1>30. ASSUME NEW i \in Importers, CommitRecords(i) PROVE TypeOK'
  <2> DEFINE m == importer[i]
             n == m.imported + Len(Records(m))
             p == IF n = Total THEN "index" ELSE "load"
             c == [epoch |-> 0, at |-> n]
             x == [m EXCEPT !.imported = n, !.pc = p]
  <2>1. CASE Owns(i) /\ row.imported = m.imported
    <3>1. m \in ImporterType /\ m.imported \in 0..Total /\ row \in RowType
      BY <1>4, <1>24, <1>30, <2>1 DEF CommitRecords, At, Owns, Running, ImporterType
    <3>3. n \in 0..Total
      BY <1>1, <1>30, RecordsBehind
    <3> HIDE DEF n
    <3>4. c \in CursorType \cup {None} /\ p \in {"verify", "plan", "drop", "load", "index", "hand"}
      BY <3>3 DEF CursorType
    <3>5. row' = [row EXCEPT !.imported = n, !.cursor = c] /\ importer' = [importer EXCEPT ![i] = x]
      BY <1>30, <2>1 DEF CommitRecords, n
    <3>6. base' \in [Entities -> 0..Total \cup {None}]
      BY <1>1, <1>30, <2>1, RecordsInserted DEF Progress
    <3>7. x \in ImporterType
      <4> HIDE DEF m, p
      <4> QED
        BY <3>1, <3>3, <3>4, ImporterMoves, Zenon
    <3>8. row' \in RowType
      <4> HIDE DEF c
      <4> QED
        BY <3>1, <3>3, <3>4, <3>5, RowMoves, Zenon
    <3> HIDE DEF x
    <3>9. importer' \in [Importers -> ImporterType \cup {None}]
      BY <1>13, <3>5, <3>7
    <3>10. UNCHANGED lease
      BY <1>30, <2>1 DEF CommitRecords
    <3> QED
      BY <1>1, <1>30, <3>6, <3>8, <3>9, <3>10 DEF TypeOK, CommitRecords, folding, history
  <2>2. CASE ~(Owns(i) /\ row.imported = m.imported)
    <3>1. Release(i) /\ UNCHANGED <<row, base>>
      BY <1>30, <2>2 DEF CommitRecords
    <3> QED
      BY <1>1, <1>24, <1>30, <3>1 DEF TypeOK, CommitRecords, folding, history
  <2> QED
    BY <2>1, <2>2
<1>31. ASSUME NEW i \in Importers, BuildIndexes(i) PROVE TypeOK'
  <2>1. importer' \in [Importers -> ImporterType \cup {None}]
    BY <1>26, <1>31 DEF BuildIndexes, At
  <2> QED
    BY <1>1, <1>31, <2>1 DEF TypeOK, BuildIndexes, folding, history
<1>32. ASSUME NEW i \in Importers, HandOver(i) PROVE TypeOK'
  <2>1. row' \in RowType \cup {None}
    <3>1. row # None =>
            [row EXCEPT !.phase = "repair", !.cursor = None, !.indexes = "kept"] \in RowType
      BY <1>4, RowMoves
    <3> QED
      BY <1>1, <1>32, <3>1 DEF TypeOK, HandOver, Owns, Running
  <2> QED
    BY <1>1, <1>24, <1>32, <2>1 DEF TypeOK, HandOver, tables, folding, history
<1>33. ASSUME NEW i \in Importers, ImporterDies(i) PROVE TypeOK'
  BY <1>1, <1>3, <1>24, <1>33 DEF TypeOK, ImporterDies, tables, folding
<1> QED
  BY <1>5, <1>6, <1>7, <1>8, <1>9, <1>10, <1>11, <1>15, <1>16, <1>17, <1>18, <1>19, <1>20, <1>21,
     <1>22, <1>23, <1>25, <1>27, <1>28, <1>29, <1>30, <1>31, <1>32, <1>33
     DEF Next, BackendStep, ImporterStep

-----------------------------------------------------------------------------
(* The row, a walk and an importer count the entities that are there. *)

LEMMA EntitiesAre ==
  \A e \in Entities : e \in Nat /\ e < Total /\ ~(e < 0)
  BY GenesisAssumption, SMT DEF Entities

\* One backend's walk, or one importer's load, moves at a time.
LEMMA OneWalks ==
  ASSUME Progress, TypeOK, NEW b \in Backends, NEW w,
         walker' = [walker EXCEPT ![b] = w], w # None => WalkFits(w)
  PROVE  \A c \in Backends : WalkInv(c)'
  BY DEF Progress, TypeOK, WalkInv, WalkFits

LEMMA OneLoads ==
  ASSUME Progress, TypeOK, NEW i \in Importers, NEW m,
         importer' = [importer EXCEPT ![i] = m],
         m # None /\ m.pc \in {"index", "hand"} => m.imported = Total
  PROVE  \A j \in Importers : LoadedInv(j)'
  BY DEF Progress, TypeOK, LoadedInv

\* What a row that is left alone, or closed, or rewound, says of the entities stays true.
LEMMA RowCounts ==
  ASSUME Progress, TypeOK, UNCHANGED base,
         \/ row' = row
         \/ row # None /\ row' \in {Failed, Rewound}
         \/ \E x \in {"kept", "dropped"} : row # None /\ row' = [row EXCEPT !.indexes = x]
         \/ InRepair /\ \E a \in Entities : row' = [row EXCEPT !.after = a]
         \/ row # None /\ row' = [row EXCEPT !.status = "done", !.phase = None, !.after = None]
  PROVE  InNodeOrder' /\ CountedIsThere' /\ CursorCounts'
<1>1. InNodeOrder'
  BY DEF Progress, InNodeOrder
<1>2. CASE row' = row
  BY <1>1, <1>2 DEF Progress, CountedIsThere, CursorCounts
<1>3. row # None => row \in RowType
  BY DEF TypeOK
<1>4. CASE row # None /\ row' = Failed
  <2>1. row'.status = "failed"
    BY <1>3, <1>4 DEF Failed, RowType
  <2> QED
    BY <1>1, <2>1 DEF CountedIsThere, CursorCounts
<1>5. CASE row # None /\ row' = Rewound
  <2>1. /\ row'.status = row.status /\ row'.phase = row.phase /\ row'.after = row.after
        /\ row'.imported = 0 /\ row'.cursor = None
    BY <1>3, <1>5 DEF Rewound, RowType
  <2> QED
    BY <1>1, <1>5, <2>1, EntitiesAre DEF Progress, CountedIsThere, CursorCounts
<1>6. ASSUME NEW x \in {"kept", "dropped"}, row # None, row' = [row EXCEPT !.indexes = x]
      PROVE  CountedIsThere' /\ CursorCounts'
  <2>1. /\ row'.status = row.status /\ row'.phase = row.phase /\ row'.after = row.after
        /\ row'.imported = row.imported /\ row'.cursor = row.cursor
    BY <1>3, <1>6 DEF RowType
  <2> QED
    BY <1>6, <2>1 DEF Progress, CountedIsThere, CursorCounts
<1>7. ASSUME NEW a \in Entities, InRepair, row' = [row EXCEPT !.after = a]
      PROVE  CountedIsThere' /\ CursorCounts'
  <2>1. row'.status = row.status /\ row'.phase = row.phase /\ row.phase = "repair" /\ row # None
    BY <1>3, <1>7 DEF RowType, InRepair
  <2> QED
    BY <1>7, <2>1 DEF Progress, CountedIsThere, CursorCounts
<1>8. CASE row # None /\ row' = [row EXCEPT !.status = "done", !.phase = None, !.after = None]
  <2>1. row'.status = "done"
    BY <1>3, <1>8 DEF RowType
  <2> QED
    BY <1>1, <2>1 DEF CountedIsThere, CursorCounts
<1> QED
  BY <1>1, <1>2, <1>4, <1>5, <1>6, <1>7, <1>8

LEMMA ProgressStays ==
  ASSUME ImportInv, Next
  PROVE  Progress'
<1>1. TypeOK /\ Progress
  BY DEF ImportInv
<1>2. row # None => row \in RowType
  BY <1>1 DEF TypeOK
<1>3. ASSUME UNCHANGED <<row, base, walker, importer>> PROVE Progress'
  BY <1>1, <1>3 DEF Progress, InNodeOrder, CountedIsThere, CursorCounts, WalkInv, LoadedInv
<1>4. ASSUME UNCHANGED <<row, base, walker>>, NEW i \in Importers, NEW m,
             importer' = [importer EXCEPT ![i] = m],
             m # None /\ m.pc \in {"index", "hand"} => m.imported = Total
      PROVE  Progress'
  BY <1>1, <1>4, OneLoads DEF Progress, InNodeOrder, CountedIsThere, CursorCounts, WalkInv
<1>5. ASSUME UNCHANGED <<row, base, importer>>, NEW b \in Backends, NEW w,
             walker' = [walker EXCEPT ![b] = w], w # None => WalkFits(w)
      PROVE  Progress'
  BY <1>1, <1>5, OneWalks DEF Progress, InNodeOrder, CountedIsThere, CursorCounts, LoadedInv
<1>6. ASSUME UNCHANGED importer PROVE \A i \in Importers : LoadedInv(i)'
  BY <1>1, <1>6 DEF Progress, LoadedInv
<1>7. ASSUME UNCHANGED walker PROVE \A b \in Backends : WalkInv(b)'
  BY <1>1, <1>7 DEF Progress, WalkInv
<1>8. ASSUME NEW e \in Entities, StoreOp(e) PROVE Progress'
  BY <1>3, <1>8 DEF StoreOp, tables, machine
<1>9. CASE FoldBlock \/ FoldLate \/ NodeRestart \/ LeaseLost
  BY <1>3, <1>9 DEF FoldBlock, FoldLate, NodeRestart, LeaseLost, tables, machine
<1>10. CASE Reset
  <2>1. InNodeOrder' /\ CountedIsThere' /\ CursorCounts'
    BY <1>10 DEF Reset, InNodeOrder, CountedIsThere, CursorCounts
  <2> QED
    BY <1>6, <1>7, <1>10, <2>1 DEF Reset, machine, Progress
<1>11. ASSUME NEW b \in Backends, Probe(b) PROVE Progress'
  <2>1. /\ row' # None => row'.imported = 0 /\ row'.cursor = None /\ row'.after = None
        /\ row'.status = "running" => row'.phase = "walk"
    BY <1>11 DEF Probe, Blank
  <2>2. InNodeOrder'
    BY <1>1, <1>11 DEF Probe, tables, Progress, InNodeOrder
  <2>3. CountedIsThere' /\ CursorCounts'
    BY <2>1, EntitiesAre DEF CountedIsThere, CursorCounts
  <2> QED
    BY <1>6, <1>7, <1>11, <2>2, <2>3 DEF Probe, machine, Progress
<1>12. ASSUME NEW b \in Backends, BeginWalk(b) PROVE Progress'
  <2> DEFINE w == [phase |-> "walk", id |-> row.id, seen |-> row.imported,
                   seenCursor |-> row.cursor, pending |-> << >>, cursor |-> row.cursor,
                   after |-> None, keys |-> None]
  <2>1. /\ row \in RowType
        /\ row.cursor = None => row.imported = 0
        /\ row.cursor # None => row.cursor.at = row.imported
    BY <1>1, <1>2, <1>12 DEF BeginWalk, Running, Progress, CursorCounts
  <2>2. WalkFits(w)
    <3>1. row.imported \in 0..Total /\ Total \in Nat
      BY <2>1, GenesisAssumption DEF RowType
    <3>2. Len(<< >>) = 0 /\ \A k \in 1..0 : FALSE
      BY SMT
    <3>3. row.imported + 0 <= Total /\ row.imported + 0 = row.imported
      BY <3>1, SMT
    <3> QED
      BY <2>1, <3>2, <3>3 DEF WalkFits
  <2>3. walker' = [walker EXCEPT ![b] = w]
    BY <1>12 DEF BeginWalk
  <2> HIDE DEF w
  <2> QED
    BY <1>5, <1>12, <2>2, <2>3 DEF BeginWalk, tables
<1>13. ASSUME NEW b \in Backends, Page(b) PROVE Progress'
  <2> DEFINE w == walker[b]
             x == Paged(w)
             n == Len(w.pending)
             r == [entity |-> Imported(w), position |-> Imported(w)]
             c == IF Imported(w) + 1 = Total THEN None
                  ELSE [epoch |-> epoch, at |-> Imported(w) + 1]
  <2>1. /\ w \in WalkerType /\ WalkFits(w) /\ w.phase = "walk" /\ Imported(w) \in Entities
        /\ Imported(w) = w.seen + n /\ walker' = [walker EXCEPT ![b] = x]
    BY <1>1, <1>13, PageGives DEF WalkInv, Walking
  <2>2. /\ x.seen = w.seen /\ x.pending = Append(w.pending, r) /\ x.cursor = c
        /\ x.phase = "walk"
    BY <2>1 DEF Paged, WalkerType
  <2>3. /\ w.pending \in Seq([entity : Entities, position : Entities])
        /\ r \in [entity : Entities, position : Entities]
    BY <2>1 DEF WalkerType
  <2>4. /\ n \in Nat /\ Len(x.pending) = n + 1 /\ x.pending[n + 1] = r
        /\ \A k \in 1..n : x.pending[k] = w.pending[k]
    <3> DEFINE R == [entity : Entities, position : Entities]
    <3> HIDE DEF r, R
    <3> QED
      BY <2>2, <2>3, AppendProperties, LenProperties DEF R
  <2>5. w.seen \in Nat /\ w.seen + n < Total /\ w.seen + n + 1 <= Total /\ Total \in Nat
    <3>1. w.seen \in 0..Total /\ w.seen + n < Total /\ Total \in Nat
      BY <2>1, EntitiesAre, GenesisAssumption DEF WalkerType
    <3> HIDE DEF w, n
    <3> QED
      BY <2>4, <3>1, SMT
  <2>6. ASSUME NEW k \in 1..(n + 1)
        PROVE  x.pending[k] = [entity |-> w.seen + k - 1, position |-> w.seen + k - 1]
    <3>1. CASE k \in 1..n
      BY <2>1, <2>4, <3>1 DEF WalkFits
    <3>2. CASE k = n + 1
      <4>1. w.seen + k - 1 = Imported(w)
        BY <2>1, <2>4, <2>5, <3>2, SMT
      <4> QED
        BY <2>4, <3>2, <4>1
    <3> HIDE DEF n
    <3> QED
      BY <2>4, <3>1, <3>2, SMT
  <2>7. IF c = None THEN w.seen + (n + 1) = Total ELSE c.at = w.seen + (n + 1)
    <3> DEFINE m == Imported(w)
               d == [epoch |-> epoch, at |-> m + 1]
    <3>1. m + 1 = w.seen + (n + 1) /\ m + 1 \in 0..Total
      <4>1. m = w.seen + n /\ n \in Nat
        BY <2>1, <2>4
      <4> HIDE DEF m, n, w
      <4> QED
        BY <2>5, <4>1, SMT
    <3>2. d # None /\ d.at = m + 1
      <4>1. d \in CursorType
        BY <1>1, <3>1 DEF CursorType, TypeOK
      <4> QED
        BY <4>1, GenesisAssumption
    <3>3. c = IF m + 1 = Total THEN None ELSE d
      OBVIOUS
    <3> HIDE DEF m, n, c, d
    <3> QED
      BY <3>1, <3>2, <3>3
  <2>8. WalkFits(x)
    <3>1. Len(x.pending) # 0 /\ w.seen + (n + 1) <= Total
      <4> HIDE DEF n
      <4> QED
        BY <2>4, <2>5, SMT
    <3>2. Len(x.pending) = n + 1 /\ x.seen = w.seen /\ x.cursor = c
      BY <2>2, <2>4
    <3> HIDE DEF x, c, n, w
    <3> QED
      BY <2>6, <2>7, <3>1, <3>2 DEF WalkFits
  <2> HIDE DEF x
  <2> QED
    BY <1>5, <1>13, <2>1, <2>8 DEF Page, tables
<1>14. ASSUME NEW b \in Backends, CursorRefused(b) \/ WalkFails(b) PROVE Progress'
  <2>1. row' = row \/ (row # None /\ row' \in {Failed, Rewound})
    <3>1. CASE CursorRefused(b)
      BY <3>1 DEF CursorRefused, Running
    <3>2. CASE WalkFails(b)
      BY <3>2 DEF WalkFails
    <3> QED
      BY <1>14, <3>1, <3>2
  <2>2. UNCHANGED <<base, importer>> /\ walker' = [walker EXCEPT ![b] = None]
    BY <1>14 DEF CursorRefused, WalkFails, tables
  <2> QED
    BY <1>1, <1>6, <2>1, <2>2, RowCounts, OneWalks DEF Progress
<1>15. ASSUME NEW b \in Backends, CommitPages(b) PROVE Progress'
  <2> DEFINE w == walker[b]
             x == [w EXCEPT !.seen = Imported(w), !.seenCursor = w.cursor, !.pending = << >>]
             p == IF LastPage(w) THEN "repair" ELSE "walk"
  <2>1. /\ w \in WalkerType /\ WalkFits(w) /\ w.phase = "walk" /\ w.pending # << >>
    BY <1>1, <1>15 DEF CommitPages, Walking, TypeOK, Progress, WalkInv
  <2>2. CASE Unmoved(w)
    <3>1. /\ row # None /\ row.status = "running" /\ row.phase = "walk" /\ row.imported = w.seen
          /\ row \in RowType /\ row.after = None
      BY <1>1, <1>2, <2>2 DEF Unmoved, Running, Progress, CursorCounts
    <3>2. row' = [row EXCEPT !.imported = Imported(w), !.cursor = w.cursor, !.phase = p]
      BY <1>15, <2>2 DEF CommitPages
    <3>3. /\ row'.status = "running" /\ row'.imported = Imported(w) /\ row'.cursor = w.cursor
          /\ row'.phase = p /\ row'.after = None
      BY <3>1, <3>2 DEF RowType
    <3>4. /\ w.seen \in Nat /\ Len(w.pending) \in Nat /\ Len(w.pending) # 0 /\ Total \in Nat
          /\ Imported(w) = w.seen + Len(w.pending) /\ Imported(w) <= Total
          /\ w.cursor = None => Imported(w) = Total
          /\ w.cursor # None => w.cursor.at = Imported(w)
      <4>1. w.seen \in 0..Total /\ w.pending \in Seq([entity : Entities, position : Entities])
        BY <2>1 DEF WalkerType
      <4>2. Len(w.pending) \in Nat /\ Len(w.pending) # 0
        BY <2>1, <4>1, LenProperties, EmptySeq
      <4> QED
        BY <2>1, <4>1, <4>2, GenesisAssumption DEF WalkFits, Imported
    <3>5. /\ InNodeOrder'
          /\ \A e \in Entities : base[e] # None => base'[e] # None
          /\ \A e \in Entities : w.seen <= e /\ e < Imported(w) => base'[e] # None
      BY <1>1, <1>15, <2>2, CommitInserts
    <3>6. \A e \in Entities : e < Imported(w) => base'[e] # None
      <4> SUFFICES ASSUME NEW e \in Entities, e < Imported(w) PROVE base'[e] # None
        OBVIOUS
      <4>1. CASE e < w.seen
        <5>1. base[e] # None
          BY <1>1, <3>1, <4>1 DEF Progress, CountedIsThere
        <5> QED
          BY <3>5, <5>1
      <4>2. CASE ~(e < w.seen)
        <5>1. w.seen <= e
          <6> HIDE DEF w
          <6> QED
            BY <3>4, <4>2, EntitiesAre, SMT
        <5> QED
          BY <3>5, <5>1
      <4> QED
        BY <4>1, <4>2
    <3>7. CountedIsThere'
      <4>1. p = "repair" => Imported(w) = Total
        BY <2>1, <3>4 DEF LastPage
      <4>2. ASSUME NEW e \in Entities, p = "repair" \/ e < Imported(w) PROVE base'[e] # None
        BY <3>6, <4>1, <4>2, EntitiesAre
      <4> QED
        BY <3>3, <4>2 DEF CountedIsThere
    <3>8. CursorCounts'
      <4>1. p = "walk" => w.cursor # None
        BY <2>1 DEF LastPage
      <4> QED
        BY <3>3, <3>4, <4>1 DEF CursorCounts
    <3>9. ~LastPage(w) => WalkFits(x)
      <4>1. /\ x.seen = Imported(w) /\ x.pending = << >> /\ x.cursor = w.cursor
            /\ x.phase = "walk"
        BY <2>1 DEF WalkerType
      <4>2. Len(<< >>) = 0 /\ \A k \in 1..0 : FALSE
        BY SMT
      <4>3. Imported(w) + 0 = Imported(w)
        BY <3>4, SMT
      <4>4. ~LastPage(w) => w.cursor # None
        BY <2>1 DEF LastPage
      <4> HIDE DEF x
      <4> QED
        BY <3>4, <4>1, <4>2, <4>3, <4>4 DEF WalkFits
    <3>10. \A c \in Backends : WalkInv(c)'
      <4> DEFINE y == IF LastPage(w) THEN None ELSE x
      <4>1. walker' = [walker EXCEPT ![b] = y]
        BY <1>15, <2>2 DEF CommitPages
      <4>2. y # None => WalkFits(y)
        BY <3>9
      <4> HIDE DEF y
      <4> QED
        BY <1>1, <4>1, <4>2, OneWalks
    <3> QED
      BY <1>6, <1>15, <3>5, <3>7, <3>8, <3>10 DEF CommitPages, Progress
  <2>3. CASE ~Unmoved(w)
    BY <1>5, <1>15, <2>3 DEF CommitPages
  <2> QED
    BY <2>2, <2>3
<1>16. ASSUME NEW b \in Backends, Leave(b) PROVE Progress'
  BY <1>5, <1>16 DEF Leave, tables
<1>17. ASSUME NEW b \in Backends, BeginRepair(b) PROVE Progress'
  <2> DEFINE w == [phase |-> "repair", id |-> row.id, seen |-> 0, seenCursor |-> None,
                   pending |-> << >>, cursor |-> None, after |-> row.after, keys |-> None]
  <2>1. WalkFits(w)
    <3>1. Len(<< >>) = 0 /\ 0 + 0 <= Total /\ \A k \in 1..0 : FALSE
      BY GenesisAssumption, SMT
    <3> QED
      BY <3>1 DEF WalkFits
  <2>2. walker' = [walker EXCEPT ![b] = w]
    BY <1>17 DEF BeginRepair
  <2> HIDE DEF w
  <2> QED
    BY <1>5, <1>17, <2>1, <2>2 DEF BeginRepair
<1>18. ASSUME NEW b \in Backends, ReadKeys(b) PROVE Progress'
  <2> DEFINE w == walker[b]
  <2>1. w \in WalkerType /\ WalkFits(w)
    BY <1>1, <1>18 DEF ReadKeys, TypeOK, Progress, WalkInv
  <2>2. PICK k : walker' = [walker EXCEPT ![b].keys = k]
    BY <1>18 DEF ReadKeys
  <2> DEFINE x == [w EXCEPT !.keys = k]
  <2>3. /\ walker' = [walker EXCEPT ![b] = x] /\ x.seen = w.seen /\ x.pending = w.pending
        /\ x.cursor = w.cursor /\ x.phase = w.phase
    BY <2>1, <2>2 DEF WalkerType
  <2> HIDE DEF x
  <2>4. WalkFits(x)
    BY <2>1, <2>3 DEF WalkFits
  <2> QED
    BY <1>5, <1>18, <2>3, <2>4 DEF ReadKeys, tables
<1>19. ASSUME NEW b \in Backends, CommitRepair(b) PROVE Progress'
  <2> DEFINE w == walker[b]
             a == Max(w.keys)
             x == [w EXCEPT !.after = a, !.keys = None]
             y == IF LastBatch(w.keys) THEN None ELSE x
  <2>1. w \in WalkerType /\ WalkFits(w) /\ w.keys \in SUBSET Entities
    BY <1>1, <1>19 DEF CommitRepair, TypeOK, Progress, WalkInv, WalkerType
  <2>2. CASE SameRepair(w)
    <3>1. walker' = [walker EXCEPT ![b] = y]
      BY <1>19, <2>2 DEF CommitRepair
    <3>2. WalkFits(x)
      <4>1. x.seen = w.seen /\ x.pending = w.pending /\ x.cursor = w.cursor /\ x.phase = w.phase
        BY <2>1 DEF WalkerType
      <4> HIDE DEF x
      <4> QED
        BY <2>1, <4>1 DEF WalkFits
    <3>3. row # None /\ InRepair
      BY <2>2 DEF SameRepair, InRepair
    <3>4. \/ InRepair /\ \E k \in Entities : row' = [row EXCEPT !.after = k]
          \/ row # None /\ row' = [row EXCEPT !.status = "done", !.phase = None, !.after = None]
      BY <1>19, <2>1, <2>2, <3>3, BatchHasLast DEF CommitRepair
    <3>5. InNodeOrder' /\ CountedIsThere' /\ CursorCounts'
      BY <1>1, <1>19, <3>4, RowCounts DEF CommitRepair
    <3>6. \A c \in Backends : WalkInv(c)'
      <4>1. y # None => WalkFits(y)
        BY <3>2
      <4> HIDE DEF y
      <4> QED
        BY <1>1, <3>1, <4>1, OneWalks
    <3> QED
      BY <1>6, <1>19, <3>5, <3>6 DEF CommitRepair, Progress
  <2>3. CASE ~SameRepair(w)
    BY <1>5, <1>19, <2>3 DEF CommitRepair
  <2> QED
    BY <2>2, <2>3
<1>20. ASSUME NEW i \in Importers, Claim(i) PROVE Progress'
  <2> DEFINE r == IF Running("walk", "dump") THEN row
                  ELSE [Blank EXCEPT !.status = "running", !.phase = "walk",
                                     !.source = "dump", !.id = imports + 1]
             m == [pc |-> "verify", id |-> r.id, attempt |-> imports + 1,
                   imported |-> r.imported, resumes |-> r.cursor # None, indexes |-> r.indexes]
  <2>1. row' = [r EXCEPT !.attempt = imports + 1] /\ importer' = [importer EXCEPT ![i] = m]
    BY <1>20 DEF Claim
  <2>2. \A j \in Importers : LoadedInv(j)'
    <3>1. m.pc \notin {"index", "hand"}
      OBVIOUS
    <3> HIDE DEF m
    <3> QED
      BY <1>1, <2>1, <3>1, OneLoads
  <2>3. /\ row'.status = r.status /\ row'.phase = r.phase /\ row'.after = r.after
        /\ row'.imported = r.imported /\ row'.cursor = r.cursor
    <3>1. r \in RowType
      <4>1. /\ [Blank EXCEPT !.status = "running", !.phase = "walk",
                             !.source = "dump", !.id = imports + 1] \in RowType
        <5>1. imports + 1 \in Nat
          BY <1>1, SMT DEF TypeOK
        <5> QED
          BY <5>1, BlankIs, RowMoves
      <4> QED
        BY <1>2, <4>1 DEF Running
    <3> HIDE DEF r
    <3> QED
      BY <2>1, <3>1 DEF RowType
  <2>4. CountedIsThere' /\ CursorCounts'
    <3>1. CASE Running("walk", "dump")
      <4>1. r = row /\ row # None /\ base' = base
        BY <1>20, <3>1 DEF Running, Claim, tables
      <4> HIDE DEF r
      <4> QED
        BY <1>1, <2>3, <4>1 DEF Progress, CountedIsThere, CursorCounts
    <3>2. CASE ~Running("walk", "dump")
      <4>1. /\ r.imported = 0 /\ r.cursor = None /\ r.after = None /\ r.phase = "walk"
        BY <3>2 DEF Blank
      <4> HIDE DEF r
      <4> QED
        BY <2>3, <4>1, EntitiesAre DEF CountedIsThere, CursorCounts
    <3> QED
      BY <3>1, <3>2
  <2> HIDE DEF r, m
  <2> QED
    BY <1>1, <1>7, <1>20, <2>2, <2>4 DEF Claim, tables, Progress, InNodeOrder
<1>21. ASSUME NEW i \in Importers, importer[i] # None
       PROVE  importer[i] \in ImporterType /\ LoadedInv(i)
  BY <1>1, <1>21 DEF TypeOK, Progress
<1>22. ASSUME NEW i \in Importers, Release(i) PROVE \A j \in Importers : LoadedInv(j)'
  BY <1>1, <1>22, OneLoads DEF Release
<1>23. ASSUME NEW i \in Importers, NEW p, importer[i] # None,
              importer' = [importer EXCEPT ![i].pc = p],
              p \in {"index", "hand"} => importer[i].imported = Total
       PROVE  \A j \in Importers : LoadedInv(j)'
  <2> DEFINE x == [importer[i] EXCEPT !.pc = p]
  <2>1. importer' = [importer EXCEPT ![i] = x]
    BY <1>23
  <2>2. importer[i] \in ImporterType
    BY <1>21, <1>23
  <2>3. x.pc = p /\ x.imported = importer[i].imported
    BY <2>2 DEF ImporterType
  <2>4. x # None /\ x.pc \in {"index", "hand"} => x.imported = Total
    BY <1>23, <2>3
  <2> HIDE DEF x
  <2> QED
    BY <1>1, <2>1, <2>4, OneLoads
<1>24. ASSUME NEW i \in Importers, Verify(i) PROVE Progress'
  <2>1. row' = row \/ (row # None /\ row' \in {Failed, Rewound})
    BY <1>24 DEF Verify, Owns, Running
  <2>2. UNCHANGED <<base, walker>>
    BY <1>24 DEF Verify, tables
  <2>3. \A j \in Importers : LoadedInv(j)'
    BY <1>22, <1>23, <1>24 DEF Verify, At
  <2> QED
    BY <1>1, <1>7, <2>1, <2>2, <2>3, RowCounts DEF Progress
<1>25. ASSUME NEW i \in Importers, PlanIndexes(i) PROVE Progress'
  <2> DEFINE drop == importer[i].indexes = "dropped" \/ \A e \in Entities : base[e] = None
             p == IF drop THEN "drop" ELSE "load"
             m == importer[i]
             y == IF drop THEN "dropped" ELSE m.indexes
             z == IF drop THEN "dropped" ELSE row.indexes
             x == [m EXCEPT !.pc = p, !.indexes = y]
  <2>1. CASE Owns(i)
    <3>1. row # None /\ row \in RowType /\ m \in ImporterType
      BY <1>2, <1>21, <1>25, <2>1 DEF Owns, Running, PlanIndexes, At
    <3>2. row' = [row EXCEPT !.indexes = z] /\ importer' = [importer EXCEPT ![i] = x]
      BY <1>25, <2>1 DEF PlanIndexes
    <3>3. z \in {"kept", "dropped"}
      BY <3>1 DEF RowType
    <3>4. x.pc \notin {"index", "hand"}
      BY <3>1 DEF ImporterType
    <3> HIDE DEF x, z
    <3>5. \A j \in Importers : LoadedInv(j)'
      BY <1>1, <3>2, <3>4, OneLoads
    <3>6. UNCHANGED <<base, walker>>
      BY <1>25 DEF PlanIndexes, tables
    <3> QED
      BY <1>1, <1>7, <3>1, <3>2, <3>3, <3>5, <3>6, RowCounts DEF Progress
  <2>2. CASE ~Owns(i)
    <3>1. Release(i) /\ UNCHANGED <<row, base, walker>>
      BY <1>25, <2>2 DEF PlanIndexes, tables
    <3> QED
      BY <1>1, <1>7, <1>22, <3>1, RowCounts DEF Progress
  <2> QED
    BY <2>1, <2>2
<1>26. ASSUME NEW i \in Importers, DropIndexes(i) PROVE Progress'
  BY <1>1, <1>7, <1>23, <1>26, RowCounts DEF DropIndexes, At, Progress
<1>27. ASSUME NEW i \in Importers, CommitRecords(i) PROVE Progress'
  <2> DEFINE m == importer[i]
             n == m.imported + Len(Records(m))
             p == IF n = Total THEN "index" ELSE "load"
             c == [epoch |-> 0, at |-> n]
             x == [m EXCEPT !.imported = n, !.pc = p]
  <2>1. CASE Owns(i) /\ row.imported = m.imported
    <3>1. m \in ImporterType /\ m.imported \in 0..Total /\ row \in RowType
      BY <1>2, <1>21, <1>27, <2>1 DEF CommitRecords, At, Owns, Running, ImporterType
    <3>2. /\ row # None /\ row.status = "running" /\ row.phase = "walk" /\ row.after = None
      BY <1>1, <2>1 DEF Owns, Running, Progress, CursorCounts
    <3>3. row' = [row EXCEPT !.imported = n, !.cursor = c] /\ importer' = [importer EXCEPT ![i] = x]
      BY <1>27, <2>1 DEF CommitRecords
    <3>4. /\ row'.status = "running" /\ row'.phase = "walk" /\ row'.after = None
          /\ row'.imported = n /\ row'.cursor = c
      BY <3>1, <3>2, <3>3 DEF RowType
    <3>5. /\ InNodeOrder'
          /\ \A e \in Entities : base[e] # None => base'[e] # None
          /\ \A e \in Entities : m.imported <= e /\ e < n => base'[e] # None
      BY <1>1, <1>27, <2>1, RecordsInserted
    <3>6. \A e \in Entities : e < n => base'[e] # None
      <4> SUFFICES ASSUME NEW e \in Entities, e < n PROVE base'[e] # None
        OBVIOUS
      <4>1. CASE e < m.imported
        <5>1. base[e] # None
          BY <1>1, <2>1, <3>2, <4>1 DEF Progress, CountedIsThere
        <5> QED
          BY <3>5, <5>1
      <4>2. CASE ~(e < m.imported)
        <5>1. m.imported <= e
          <6> HIDE DEF m
          <6> QED
            BY <3>1, <4>2, EntitiesAre, SMT
        <5> QED
          BY <3>5, <5>1
      <4> QED
        BY <4>1, <4>2
    <3>7. CountedIsThere' /\ CursorCounts'
      <4>1. c.at = n /\ c # None
        <5>2. n \in 0..Total
          BY <1>1, <1>27, RecordsBehind
        <5> HIDE DEF n
        <5>3. c \in CursorType
          BY <5>2 DEF CursorType
        <5> QED
          BY <5>3, GenesisAssumption
      <4> HIDE DEF c, n
      <4> QED
        BY <3>4, <3>6, <4>1 DEF CountedIsThere, CursorCounts
    <3>8. \A j \in Importers : LoadedInv(j)'
      <4>1. x.pc = p /\ x.imported = n
        BY <3>1 DEF ImporterType
      <4> HIDE DEF x, n
      <4> QED
        BY <1>1, <3>3, <4>1, OneLoads
    <3>9. UNCHANGED walker
      BY <1>27 DEF CommitRecords
    <3> QED
      BY <1>7, <3>5, <3>7, <3>8, <3>9 DEF Progress
  <2>2. CASE ~(Owns(i) /\ row.imported = m.imported)
    <3>1. Release(i) /\ UNCHANGED <<row, base, walker>>
      BY <1>27, <2>2 DEF CommitRecords
    <3> QED
      BY <1>1, <1>7, <1>22, <3>1, RowCounts DEF Progress
  <2> QED
    BY <2>1, <2>2
<1>28. ASSUME NEW i \in Importers, BuildIndexes(i) PROVE Progress'
  <2>1. importer[i].imported = Total
    BY <1>21, <1>28 DEF BuildIndexes, At, LoadedInv
  <2> QED
    BY <1>1, <1>7, <1>23, <1>28, <2>1, RowCounts DEF BuildIndexes, At, Progress
<1>29. ASSUME NEW i \in Importers, HandOver(i) PROVE Progress'
  <2>1. UNCHANGED <<base, walker>> /\ Release(i) /\ importer[i].imported = Total
    BY <1>21, <1>29 DEF HandOver, At, tables, LoadedInv
  <2>2. CASE Owns(i) /\ row.imported = importer[i].imported
    <3>1. row # None /\ row \in RowType /\ row.status = "running" /\ row.imported = Total
      BY <1>2, <2>1, <2>2 DEF Owns, Running
    <3>2. row' = [row EXCEPT !.phase = "repair", !.cursor = None, !.indexes = "kept"]
      BY <1>29, <2>2 DEF HandOver
    <3>3. row'.phase = "repair"
      BY <3>1, <3>2 DEF RowType
    <3>4. \A e \in Entities : base[e] # None
      BY <1>1, <3>1, EntitiesAre DEF Progress, CountedIsThere
    <3>5. InNodeOrder' /\ CountedIsThere' /\ CursorCounts'
      BY <1>1, <2>1, <3>3, <3>4 DEF Progress, InNodeOrder, CountedIsThere, CursorCounts
    <3> QED
      BY <1>7, <1>22, <2>1, <3>5 DEF Progress
  <2>3. CASE ~(Owns(i) /\ row.imported = importer[i].imported)
    <3>1. row' = row
      BY <1>29, <2>3 DEF HandOver
    <3> QED
      BY <1>1, <1>7, <1>22, <2>1, <3>1, RowCounts DEF Progress
  <2> QED
    BY <2>2, <2>3
<1>30. ASSUME NEW i \in Importers, ImporterDies(i) PROVE Progress'
  BY <1>1, <1>7, <1>22, <1>30, RowCounts DEF ImporterDies, tables, Progress
<1> QED
  BY <1>8, <1>9, <1>10, <1>11, <1>12, <1>13, <1>14, <1>15, <1>16, <1>17, <1>18, <1>19, <1>20,
     <1>24, <1>25, <1>26, <1>27, <1>28, <1>29, <1>30
     DEF Next, BackendStep, ImporterStep

-----------------------------------------------------------------------------
(* What a repair has still to do lies beyond the key it has reached. *)

\* A backend goes on with what it has, or with a walk, or not at all.
Tame ==
  \A b \in Backends : walker'[b] # None =>
    walker'[b] = walker[b] \/ (walker'[b].phase = "walk" /\ walker'[b].id <= imports)

\* The row is as it was or gone; is not done, nor in a repair that was begun before.
RowTame ==
  \/ row' = row
  \/ row' = None
  \/ /\ row'.id \in Nat /\ row'.id <= imports' /\ row'.status # "done"
     /\ \/ row'.status # "running"
        \/ row'.phase = "walk" /\ row'.id > imports
        \/ /\ row # None /\ row.status = "running" /\ row.phase = "walk" /\ row'.id = row.id
           /\ row'.phase = "walk" \/ (row'.phase = "repair" /\ row'.after = None)

LEMMA RepairKept ==
  ASSUME TypeOK, TypeOK', Repair, Tame, RowTame, imports' >= imports,
         UNCHANGED <<folding, onTop, floorZero>>,
         \A e \in Entities : base[e] # None => base'[e] # None \/ row' = None
  PROVE  Repair'
<1>1. /\ imports \in Nat /\ imports' \in Nat
      /\ row # None => row.id \in Nat
      /\ \A b \in Backends : /\ walker[b] # None => walker[b].id \in Nat
                             /\ walker'[b] # None => walker'[b].id \in Nat
  BY DEF TypeOK, RowType, WalkerType
<1>2. \A e \in Entities : Due(e)' <=> Due(e)
  BY DEF Due, folding
<1>3. Numbered'
  <2>1. row' # None => row'.id <= imports'
    BY <1>1, SMT DEF Repair, Numbered, RowTame
  <2>2. ASSUME NEW b \in Backends, walker'[b] # None PROVE walker'[b].id <= imports'
    <3>1. walker'[b].id <= imports
      BY <2>2 DEF Repair, Numbered, Tame
    <3> QED
      BY <1>1, <2>2, <3>1, SMT
  <2> QED
    BY <2>1, <2>2 DEF Numbered
<1>4. BehindIsDone'
  BY <1>2 DEF Repair, BehindIsDone, InRepair, RowTame
<1>5. DoneIsComplete'
  BY DEF Repair, DoneIsComplete, RowTame, folding
<1>6. ASSUME NEW b \in Backends PROVE RepairInv(b)'
  <2> SUFFICES ASSUME walker'[b] # None, walker'[b].phase = "repair", row' # None,
                      row'.status = "running", row'.id = walker'[b].id
               PROVE  RepairInv(b)'
    BY DEF RepairInv
  <2>1. walker'[b] = walker[b] /\ RepairInv(b) /\ walker[b].id <= imports
    BY DEF Tame, Repair, Numbered
  <2>2. CASE row' = row
    BY <1>2, <2>1, <2>2 DEF RepairInv, BatchHolds, folding
  <2>3. CASE row'.id > imports
    BY <1>1, <2>1, <2>3, SMT
  <2>4. CASE row # None /\ row.status = "running" /\ row.phase = "walk" /\ row'.id = row.id
    BY <2>1, <2>4 DEF RepairInv
  <2> QED
    BY <2>2, <2>3, <2>4 DEF RowTame
<1>7. \A e \in late' : ops'[e] # None
  BY DEF Repair, folding
<1> QED
  BY <1>3, <1>4, <1>5, <1>6, <1>7 DEF Repair

\* A walk, or nothing, in the place of what a backend remembers.
LEMMA WalksOn ==
  ASSUME TypeOK, Repair, NEW b \in Backends, NEW w, walker' = [walker EXCEPT ![b] = w],
         w # None => w.phase = "walk" /\ w.id <= imports
  PROVE  Tame
  BY DEF Tame, TypeOK

LEMMA RowsTame ==
  ASSUME TypeOK, Repair, row # None, UNCHANGED imports, row' \in {Failed, Rewound}
  PROVE  row' = Failed \/ Running("walk", "rpc") => RowTame
<1>1. row \in RowType /\ row.id <= imports /\ row.id \in Nat
  BY DEF TypeOK, Repair, Numbered, RowType
<1>2. row' = Failed => row'.status = "failed" /\ row'.id = row.id
  BY <1>1 DEF Failed, RowType
<1>3. row' = Rewound => row'.id = row.id /\ row'.status = row.status /\ row'.phase = row.phase
  BY <1>1 DEF Rewound, RowType
<1> QED
  BY <1>1, <1>2, <1>3 DEF RowTame, Running

\* A row that goes on with its walk, and one that is handed over to the repair.
LEMMA RowGoesOn ==
  ASSUME TypeOK, Repair, row # None, row.status = "running", row.phase = "walk", UNCHANGED imports,
         row'.id = row.id, row'.status = row.status,
         row'.phase = "walk" \/ (row'.phase = "repair" /\ row'.after = None)
  PROVE  RowTame
  BY DEF TypeOK, RowType, Repair, Numbered, RowTame

\* The steps that leave the folding alone, and what has been done of a repair.
LEMMA RepairElsewhere ==
  ASSUME ImportInv, TypeOK',
         \/ NodeRestart \/ LeaseLost
         \/ \E b \in Backends : \/ Probe(b) \/ BeginWalk(b) \/ Page(b) \/ CursorRefused(b)
                                \/ CommitPages(b) \/ WalkFails(b) \/ Leave(b)
         \/ \E i \in Importers : ImporterStep(i) \/ ImporterDies(i)
  PROVE  Repair'
<1>1. TypeOK /\ Progress /\ Repair /\ imports \in Nat
  BY DEF ImportInv, TypeOK
<1>2. row # None => row \in RowType /\ row.id <= imports
  BY <1>1 DEF TypeOK, Repair, Numbered
<1>3. \A b \in Backends : walker[b] # None => walker[b] \in WalkerType /\ walker[b].id <= imports
  BY <1>1 DEF TypeOK, Repair, Numbered
<1>4. imports >= imports /\ imports + 1 >= imports /\ imports + 1 > imports /\ imports + 1 \in Nat
  BY <1>1, SMT
<1>5. row' = row => RowTame
  BY DEF RowTame
<1>6. walker' = walker => Tame
  BY DEF Tame
<1>7. CASE NodeRestart \/ LeaseLost
  <2>1. UNCHANGED <<row, walker, imports, tables, folding>>
    BY <1>7 DEF NodeRestart, LeaseLost, machine
  <2> QED
    BY <1>1, <1>4, <1>5, <1>6, <2>1, RepairKept DEF tables
<1>8. ASSUME NEW b \in Backends, Probe(b) PROVE Repair'
  <2>1. /\ row'.id = imports + 1 /\ row'.status \in {"waiting", "running"}
        /\ row'.status = "running" => row'.phase = "walk"
        /\ imports' = imports + 1 /\ UNCHANGED <<walker, tables, folding>>
    BY <1>8 DEF Probe, Blank, machine
  <2>2. RowTame
    BY <1>1, <1>4, <2>1, SMT DEF RowTame
  <2> QED
    BY <1>1, <1>4, <1>6, <2>1, <2>2, RepairKept DEF tables
<1>9. ASSUME NEW b \in Backends, BeginWalk(b) PROVE Repair'
  <2> DEFINE w == [phase |-> "walk", id |-> row.id, seen |-> row.imported,
                   seenCursor |-> row.cursor, pending |-> << >>, cursor |-> row.cursor,
                   after |-> None, keys |-> None]
  <2>1. walker' = [walker EXCEPT ![b] = w] /\ w.phase = "walk" /\ w.id = row.id
    BY <1>9 DEF BeginWalk
  <2> HIDE DEF w
  <2>2. UNCHANGED <<row, imports, tables, folding>> /\ row # None
    BY <1>9 DEF BeginWalk, Running, history
  <2>3. Tame
    BY <1>1, <1>2, <2>1, <2>2, WalksOn
  <2> QED
    BY <1>1, <1>4, <1>5, <2>2, <2>3, RepairKept DEF tables
<1>10. ASSUME NEW b \in Backends, Page(b) PROVE Repair'
  <2>1. /\ walker[b] \in WalkerType /\ walker[b].phase = "walk"
        /\ walker' = [walker EXCEPT ![b] = Paged(walker[b])]
    BY <1>1, <1>10, PageGives DEF Walking
  <2>2. Paged(walker[b]).phase = "walk" /\ Paged(walker[b]).id = walker[b].id
    BY <2>1 DEF Paged, WalkerType
  <2>3. UNCHANGED <<row, imports, tables, folding>> /\ walker[b] # None
    BY <1>10 DEF Page, Walking, history
  <2>4. Tame
    BY <1>1, <1>3, <2>1, <2>2, <2>3, WalksOn
  <2> QED
    BY <1>1, <1>4, <1>5, <2>3, <2>4, RepairKept DEF tables
<1>11. ASSUME NEW b \in Backends, CursorRefused(b) PROVE Repair'
  <2>1. UNCHANGED <<imports, tables, folding>> /\ walker' = [walker EXCEPT ![b] = None]
    BY <1>11 DEF CursorRefused, history
  <2>2. RowTame
    <3>1. CASE row' = row
      BY <1>5, <3>1
    <3>2. CASE row # None /\ row' = Failed
      BY <1>1, <2>1, <3>2, RowsTame
    <3>3. CASE row # None /\ Running("walk", "rpc") /\ row' = Rewound
      BY <1>1, <2>1, <3>3, RowsTame
    <3> QED
      BY <1>11, <3>1, <3>2, <3>3 DEF CursorRefused, Running
  <2>3. Tame
    BY <1>1, <2>1, WalksOn
  <2> QED
    BY <1>1, <1>4, <2>1, <2>2, <2>3, RepairKept DEF tables
<1>12. ASSUME NEW b \in Backends, WalkFails(b) \/ Leave(b) PROVE Repair'
  <2>1. UNCHANGED <<imports, tables, folding>> /\ walker' = [walker EXCEPT ![b] = None]
    BY <1>12 DEF WalkFails, Leave
  <2>2. RowTame
    <3>1. CASE row' = row
      BY <1>5, <3>1
    <3>2. CASE row # None /\ row' = Failed
      BY <1>1, <2>1, <3>2, RowsTame
    <3> QED
      BY <1>12, <3>1, <3>2 DEF WalkFails, Leave
  <2>3. Tame
    BY <1>1, <2>1, WalksOn
  <2> QED
    BY <1>1, <1>4, <2>1, <2>2, <2>3, RepairKept DEF tables
<1>13. ASSUME NEW b \in Backends, CommitPages(b) PROVE Repair'
  <2> DEFINE w == walker[b]
             x == [w EXCEPT !.seen = Imported(w), !.seenCursor = w.cursor, !.pending = << >>]
             y == IF LastPage(w) THEN None ELSE x
             p == IF LastPage(w) THEN "repair" ELSE "walk"
  <2>1. UNCHANGED <<onTop, floorZero, folding, imports>>
    BY <1>13 DEF CommitPages, history
  <2>2. CASE Unmoved(w)
    <3>1. w \in WalkerType /\ w.phase = "walk" /\ w.id <= imports
      BY <1>3, <1>13 DEF CommitPages, Walking
    <3>2. walker' = [walker EXCEPT ![b] = y]
      BY <1>13, <2>2 DEF CommitPages
    <3>3. x.phase = "walk" /\ x.id <= imports
      BY <3>1 DEF WalkerType
    <3>4. Tame
      <4>1. y # None => y.phase = "walk" /\ y.id <= imports
        BY <3>3
      <4> HIDE DEF y
      <4> QED
        BY <1>1, <3>2, <4>1, WalksOn
    <3>5. /\ row # None /\ row \in RowType /\ row.status = "running" /\ row.phase = "walk"
          /\ row.after = None
      BY <1>1, <1>2, <2>2 DEF Unmoved, Running, Progress, CursorCounts
    <3>6. row' = [row EXCEPT !.imported = Imported(w), !.cursor = w.cursor, !.phase = p]
      BY <1>13, <2>2 DEF CommitPages
    <3>7. /\ row'.id = row.id /\ row'.status = row.status /\ row'.after = None
          /\ row'.phase \in {"walk", "repair"}
      BY <3>5, <3>6 DEF RowType
    <3>8. RowTame
      BY <1>1, <2>1, <3>5, <3>7, RowGoesOn
    <3>9. \A e \in Entities : base[e] # None => base'[e] # None
      BY <1>1, <1>13, <2>2, CommitInserts
    <3> QED
      BY <1>1, <1>4, <2>1, <3>4, <3>8, <3>9, RepairKept
  <2>3. CASE ~Unmoved(w)
    <3>1. UNCHANGED <<row, base>> /\ walker' = [walker EXCEPT ![b] = None]
      BY <1>13, <2>3 DEF CommitPages
    <3>2. Tame
      BY <1>1, <3>1, WalksOn
    <3> QED
      BY <1>1, <1>4, <1>5, <2>1, <3>1, <3>2, RepairKept
  <2> QED
    BY <2>2, <2>3
<1>14. ASSUME NEW i \in Importers, Claim(i) PROVE Repair'
  <2> DEFINE f == [Blank EXCEPT !.status = "running", !.phase = "walk",
                                !.source = "dump", !.id = imports + 1]
             r == IF Running("walk", "dump") THEN row ELSE f
  <2>1. row' = [r EXCEPT !.attempt = imports + 1] /\ imports' = imports + 1
    BY <1>14 DEF Claim
  <2>2. UNCHANGED <<walker, tables, folding>>
    BY <1>14 DEF Claim
  <2>3. f \in RowType
    BY <1>4, BlankIs, RowMoves
  <2>4. r \in RowType
    BY <1>2, <2>3 DEF Running
  <2>5. row'.id = r.id /\ row'.status = r.status /\ row'.phase = r.phase
    <3> HIDE DEF r
    <3> QED
      BY <2>1, <2>4 DEF RowType
  <2>6. RowTame
    <3>1. CASE Running("walk", "dump")
      <4>1. r = row /\ row # None /\ row.status = "running" /\ row.phase = "walk"
            /\ row.id \in Nat /\ row.id <= imports
        BY <1>2, <3>1 DEF Running, RowType
      <4>2. row.id <= imports'
        BY <1>1, <2>1, <4>1, SMT
      <4> HIDE DEF r
      <4> QED
        BY <2>5, <4>1, <4>2 DEF RowTame
    <3>2. CASE ~Running("walk", "dump")
      <4>1. r.id = imports + 1 /\ r.status = "running" /\ r.phase = "walk"
        BY <3>2 DEF Blank
      <4> HIDE DEF r
      <4> QED
        BY <1>1, <2>1, <2>5, <4>1, SMT DEF RowTame
    <3> QED
      BY <3>1, <3>2
  <2> HIDE DEF r, f
  <2> QED
    BY <1>1, <1>4, <1>6, <2>1, <2>2, <2>6, RepairKept DEF tables
<1>15. ASSUME NEW i \in Importers,
              Verify(i) \/ DropIndexes(i) \/ BuildIndexes(i) \/ ImporterDies(i) \/ PlanIndexes(i)
       PROVE  Repair'
  <2>1. UNCHANGED <<walker, imports, base, onTop, floorZero, folding>>
    BY <1>15 DEF Verify, DropIndexes, BuildIndexes, ImporterDies, PlanIndexes, tables, history
  <2>2. RowTame
    <3>1. CASE row' = row
      BY <1>5, <3>1
    <3>2. CASE row # None /\ row' = Failed
      BY <1>1, <2>1, <3>2, RowsTame
    <3>3. CASE Running("walk", "dump") /\ \E x : row' = [row EXCEPT !.indexes = x]
      <4>1. row # None /\ row \in RowType /\ row.status = "running" /\ row.phase = "walk"
        BY <1>2, <3>3 DEF Running
      <4>2. row'.id = row.id /\ row'.status = row.status /\ row'.phase = "walk"
        BY <3>3, <4>1 DEF RowType
      <4> QED
        BY <1>1, <2>1, <4>1, <4>2, RowGoesOn
    <3>4. CASE Verify(i)
      BY <3>1, <3>2, <3>4 DEF Verify, Owns, Running
    <3>5. CASE PlanIndexes(i)
      <4>1. CASE Owns(i)
        <5>1. \E x : row' = [row EXCEPT !.indexes = x]
          BY <3>5, <4>1 DEF PlanIndexes
        <5> QED
          BY <3>3, <4>1, <5>1 DEF Owns
      <4>2. CASE ~Owns(i)
        BY <3>1, <3>5, <4>2 DEF PlanIndexes
      <4> QED
        BY <4>1, <4>2
    <3> QED
      BY <1>15, <3>1, <3>4, <3>5 DEF DropIndexes, BuildIndexes, ImporterDies
  <2> QED
    BY <1>1, <1>4, <1>6, <2>1, <2>2, RepairKept
<1>16. ASSUME NEW i \in Importers, CommitRecords(i) PROVE Repair'
  <2> DEFINE m == importer[i]
             n == m.imported + Len(Records(m))
  <2>1. UNCHANGED <<walker, imports, onTop, floorZero, folding>>
    BY <1>16 DEF CommitRecords, history
  <2>2. CASE Owns(i) /\ row.imported = m.imported
    <3>1. row # None /\ row \in RowType /\ row.status = "running" /\ row.phase = "walk"
      BY <1>2, <2>2 DEF Owns, Running
    <3>2. row' = [row EXCEPT !.imported = n, !.cursor = [epoch |-> 0, at |-> n]]
      BY <1>16, <2>2 DEF CommitRecords
    <3> HIDE DEF n
    <3>3. row'.id = row.id /\ row'.status = row.status /\ row'.phase = "walk"
      BY <3>1, <3>2 DEF RowType
    <3>4. RowTame
      BY <1>1, <2>1, <3>1, <3>3, RowGoesOn
    <3>5. \A e \in Entities : base[e] # None => base'[e] # None
      BY <1>1, <1>16, <2>2, RecordsInserted
    <3> QED
      BY <1>1, <1>4, <1>6, <2>1, <3>4, <3>5, RepairKept
  <2>3. CASE ~(Owns(i) /\ row.imported = m.imported)
    <3>1. UNCHANGED <<row, base>>
      BY <1>16, <2>3 DEF CommitRecords
    <3> QED
      BY <1>1, <1>4, <1>5, <1>6, <2>1, <3>1, RepairKept
  <2> QED
    BY <2>2, <2>3
<1>17. ASSUME NEW i \in Importers, HandOver(i) PROVE Repair'
  <2>1. UNCHANGED <<walker, imports, tables, folding>>
    BY <1>17 DEF HandOver, history
  <2>2. CASE Owns(i) /\ row.imported = importer[i].imported
    <3>1. /\ row # None /\ row \in RowType /\ row.status = "running" /\ row.phase = "walk"
          /\ row.after = None
      BY <1>1, <1>2, <2>2 DEF Owns, Running, Progress, CursorCounts
    <3>2. row' = [row EXCEPT !.phase = "repair", !.cursor = None, !.indexes = "kept"]
      BY <1>17, <2>2 DEF HandOver
    <3>3. /\ row'.id = row.id /\ row'.status = row.status /\ row'.phase = "repair"
          /\ row'.after = None
      BY <3>1, <3>2 DEF RowType
    <3>4. RowTame
      BY <1>1, <2>1, <3>1, <3>3, RowGoesOn
    <3> QED
      BY <1>1, <1>4, <1>6, <2>1, <3>4, RepairKept DEF tables
  <2>3. CASE ~(Owns(i) /\ row.imported = importer[i].imported)
    <3>1. UNCHANGED row
      BY <1>17, <2>3 DEF HandOver
    <3> QED
      BY <1>1, <1>4, <1>5, <1>6, <2>1, <3>1, RepairKept DEF tables
  <2> QED
    BY <2>2, <2>3
<1> QED
  BY <1>7, <1>8, <1>9, <1>10, <1>11, <1>12, <1>13, <1>14, <1>15, <1>16, <1>17 DEF ImporterStep

\* The operations and the folding.
LEMMA RepairFolds ==
  ASSUME ImportInv,
         FoldBlock \/ FoldLate \/ Reset \/ \E e \in Entities : StoreOp(e)
  PROVE  Repair'
<1>1. TypeOK /\ Progress /\ Repair
  BY DEF ImportInv
<1>2. /\ projected \in Nat /\ \A e \in Entities : ops[e] \in Nat \cup {None}
      /\ None \notin Nat /\ \A n \in Blocks : n \in Nat /\ n # None
  BY <1>1, GenesisAssumption, SMT DEF TypeOK, Blocks
<1>3. ASSUME NEW e \in Entities, StoreOp(e) PROVE Repair'
  <2>1. /\ UNCHANGED <<row, base, onTop, floorZero, projected, walker, imports>>
        /\ ops[e] = None
    BY <1>3 DEF StoreOp, tables, machine, history
  <2>2. PICK block \in Blocks :
          /\ ops' = [ops EXCEPT ![e] = block]
          /\ late' = IF block <= projected THEN late \cup {e} ELSE late
    BY <1>3 DEF StoreOp
  <2>3. \A x \in Entities : ops'[x] = IF x = e THEN block ELSE ops[x]
    BY <1>1, <2>2 DEF TypeOK
  <2>4. \A x \in Entities : Due(x)' => Due(x)
    BY <2>1, <2>2, <2>3 DEF Due
  <2>5. \A x \in Entities : ops[x] # None => ops'[x] # None
    BY <1>2, <2>3
  <2>6. DoneIsComplete'
    <3> SUFFICES ASSUME row # None, row.status = "done"
                 PROVE  /\ floorZero
                        /\ \A x \in Entities :
                             /\ base[x] # None
                             /\ ops'[x] # None => ops'[x] > projected \/ x \in onTop \cup late'
      BY <2>1 DEF DoneIsComplete
    <3>1. floorZero /\ \A x \in Entities :
            base[x] # None /\ (ops[x] # None => ops[x] > projected \/ x \in onTop \cup late)
      BY <1>1 DEF Repair, DoneIsComplete
    <3>2. block <= projected \/ block > projected
      BY <1>2, SMT
    <3> QED
      BY <2>2, <2>3, <3>1, <3>2
  <2>7. Numbered' /\ BehindIsDone'
    BY <1>1, <2>1, <2>4 DEF Repair, Numbered, BehindIsDone, InRepair
  <2>8. ASSUME NEW b \in Backends PROVE RepairInv(b)'
    <3>1. walker[b] # None /\ walker[b].keys # None => walker[b].keys \subseteq Entities
      BY <1>1 DEF TypeOK, WalkerType
    <3>2. walker[b] # None /\ walker[b].keys # None =>
            (BatchHolds(walker[b]) => BatchHolds(walker[b])')
      BY <2>1, <2>4, <2>5, <3>1 DEF BatchHolds
    <3> QED
      BY <1>1, <2>1, <3>2 DEF Repair, RepairInv
  <2>9. \A x \in late' : ops'[x] # None
    BY <1>1, <1>2, <2>2, <2>3, <2>5 DEF Repair, TypeOK
  <2> QED
    BY <2>6, <2>7, <2>8, <2>9 DEF Repair
<1>4. ASSUME MayFold, UNCHANGED <<row, base, floorZero, walker, imports, ops>>,
             \A e \in late' : ops'[e] # None, DoneIsComplete'
      PROVE  Repair'
  <2>1. row # None => row.status # "running"
    BY <1>4 DEF MayFold
  <2> QED
    BY <1>1, <1>4, <2>1 DEF Repair, Numbered, BehindIsDone, InRepair, RepairInv
<1>5. CASE FoldBlock
  <2>1. /\ MayFold /\ UNCHANGED <<row, base, floorZero, walker, imports, ops, late>>
        /\ projected' = projected + 1
        /\ onTop' = Refolded({e \in Entities : ops[e] = projected + 1})
    BY <1>5 DEF FoldBlock, machine, history
  <2>2. DoneIsComplete'
    <3> DEFINE m == projected + 1
    <3>1. row # None /\ row.status = "done" =>
            floorZero /\ \A e \in Entities : base[e] # None
      BY <1>1 DEF Repair, DoneIsComplete
    <3>2. ASSUME row # None, row.status = "done", NEW e \in Entities, ops[e] # None
          PROVE  ops[e] > m \/ e \in onTop' \cup late
      <4>1. base[e] # None /\ (ops[e] > projected \/ e \in onTop \cup late)
        BY <1>1, <3>2 DEF Repair, DoneIsComplete
      <4>2. ops[e] > projected => ops[e] = m \/ ops[e] > m
        BY <1>2, <3>2, SMT
      <4> QED
        BY <2>1, <3>2, <4>1, <4>2 DEF Refolded
    <3>3. projected' = m
      BY <2>1
    <3> HIDE DEF m
    <3> QED
      BY <2>1, <3>1, <3>2, <3>3 DEF DoneIsComplete
  <2> QED
    BY <1>1, <1>4, <2>1, <2>2 DEF Repair
<1>6. CASE FoldLate
  <2>1. /\ MayFold /\ UNCHANGED <<row, base, floorZero, walker, imports, ops, projected>>
        /\ late' = {} /\ onTop' = Refolded(late)
    BY <1>6 DEF FoldLate, machine, history
  <2>2. DoneIsComplete'
    BY <1>1, <2>1 DEF DoneIsComplete, Refolded, Repair
  <2> QED
    BY <1>4, <2>1, <2>2
<1>7. CASE Reset
  BY <1>1, <1>7
  DEF Reset, machine, Repair, Numbered, BehindIsDone, InRepair, DoneIsComplete, RepairInv
<1> QED
  BY <1>3, <1>5, <1>6, <1>7

\* A repair begins, and reads its next batch.
LEMMA RepairReads ==
  ASSUME ImportInv, NEW b \in Backends, BeginRepair(b) \/ ReadKeys(b)
  PROVE  Repair'
<1>1. TypeOK /\ Progress /\ Repair
  BY DEF ImportInv
<1>2. UNCHANGED <<row, base, onTop, ops, late, projected, imports>>
  BY DEF BeginRepair, ReadKeys, tables, folding, history
<1>3. \A e \in Entities : Due(e)' <=> Due(e)
  BY <1>2 DEF Due
<1>4. floorZero => floorZero'
  BY DEF BeginRepair, ReadKeys, tables
<1>5. BehindIsDone' /\ DoneIsComplete' /\ \A e \in late' : ops'[e] # None
  BY <1>1, <1>2, <1>3, <1>4 DEF Repair, BehindIsDone, InRepair, DoneIsComplete
<1>6. ASSUME NEW w, walker' = [walker EXCEPT ![b] = w], w.id <= imports,
             w.phase = "repair" /\ row # None /\ row.status = "running" /\ row.id = w.id =>
               /\ row.phase = "repair" /\ floorZero'
               /\ w.after # None => row.after # None /\ w.after <= row.after
               /\ w.keys # None /\ w.after = row.after => BatchHolds(w)
      PROVE  Repair'
  <2>1. walker'[b] = w /\ \A c \in Backends : c # b => walker'[c] = walker[c]
    BY <1>1, <1>6 DEF TypeOK
  <2>2. Numbered'
    BY <1>1, <1>2, <1>6, <2>1 DEF Repair, Numbered
  <2>3. ASSUME NEW c \in Backends PROVE RepairInv(c)'
    <3>1. CASE c = b
      BY <1>2, <1>3, <1>6, <2>1, <3>1 DEF RepairInv, BatchHolds
    <3>2. CASE c # b
      BY <1>1, <1>2, <1>3, <1>4, <2>1, <3>2 DEF Repair, RepairInv, BatchHolds
    <3> QED
      BY <3>1, <3>2
  <2> QED
    BY <1>5, <2>2, <2>3 DEF Repair
<1>7. CASE BeginRepair(b)
  <2> DEFINE w == [phase |-> "repair", id |-> row.id, seen |-> 0, seenCursor |-> None,
                   pending |-> << >>, cursor |-> None, after |-> row.after, keys |-> None]
  <2>1. row # None /\ row \in RowType /\ row.phase = "repair" /\ row.id <= imports
    BY <1>1, <1>7 DEF BeginRepair, InRepair, TypeOK, Repair, Numbered
  <2>2. row.after # None => row.after <= row.after
    BY <2>1, EntitiesAre, SMT DEF RowType
  <2>3. walker' = [walker EXCEPT ![b] = w] /\ floorZero'
    BY <1>7 DEF BeginRepair
  <2>4. w.id = row.id /\ w.after = row.after /\ w.keys = None
    OBVIOUS
  <2> HIDE DEF w
  <2> QED
    BY <1>6, <2>1, <2>2, <2>3, <2>4
<1>8. CASE ReadKeys(b)
  <2> DEFINE w == walker[b]
             S == {e \in Entities : /\ base[e] # None /\ ops[e] # None
                                    /\ ops[e] # None => ops[e] <= projected
                                    /\ w.after # None => e > w.after}
             k == Lowest(Batch, S)
             x == [w EXCEPT !.keys = k]
  <2>1. w \in WalkerType /\ w.phase = "repair" /\ w # None /\ w.id <= imports /\ RepairInv(b)
    BY <1>1, <1>8 DEF ReadKeys, TypeOK, Repair, Numbered
  <2>2. walker' = [walker EXCEPT ![b] = x] /\ UNCHANGED floorZero
    BY <1>8 DEF ReadKeys, tables
  <2>3. x.phase = "repair" /\ x.id = w.id /\ x.after = w.after /\ x.keys = k
    BY <2>1 DEF WalkerType
  <2>4. ASSUME row # None, row.status = "running", row.phase = "repair", w.after = row.after
        PROVE  BatchHolds(x)
    <3>1. ASSUME NEW e \in Entities, Due(e), e \notin k
          PROVE  Cardinality(k) >= Batch /\ \A f \in k : f < e
      <4>1. base[e] # None
        BY <1>1, <2>4 DEF Progress, CountedIsThere
      <4>2. w.after # None => e > w.after
        BY <1>1, <2>4, <3>1 DEF Repair, BehindIsDone, InRepair
      <4>3. e \in S /\ S \in SUBSET Entities
        BY <3>1, <4>1, <4>2 DEF Due
      <4> HIDE DEF S
      <4> QED
        BY <3>1, <4>3, LowestHolds
    <3>2. \A e \in k : ops[e] # None /\ (w.after # None => e > w.after)
      BY DEF Lowest
    <3> HIDE DEF k, w, x
    <3> QED
      BY <2>3, <3>1, <3>2 DEF BatchHolds
  <2> HIDE DEF x, k
  <2>5. ASSUME row # None, row.status = "running", row.id = x.id
        PROVE  /\ row.phase = "repair" /\ floorZero'
               /\ x.after # None => row.after # None /\ x.after <= row.after
               /\ x.keys # None /\ x.after = row.after => BatchHolds(x)
    BY <2>1, <2>2, <2>3, <2>4, <2>5 DEF RepairInv
  <2> HIDE DEF w
  <2> QED
    BY <1>6, <2>1, <2>2, <2>3, <2>5
<1> QED
  BY <1>7, <1>8

\* A batch of the repair is committed.
LEMMA RepairCommits ==
  ASSUME ImportInv, TypeOK', NEW b \in Backends, CommitRepair(b)
  PROVE  Repair'
<1> DEFINE w == walker[b]
           a == Max(w.keys)
           x == [w EXCEPT !.after = a, !.keys = None]
<1>1. TypeOK /\ Progress /\ Repair
  BY DEF ImportInv
<1>2. /\ w # None /\ w \in WalkerType /\ w.phase = "repair" /\ w.keys # None
      /\ w.keys \in SUBSET Entities /\ w.id <= imports
  BY <1>1 DEF CommitRepair, TypeOK, WalkerType, Repair, Numbered
<1>3. UNCHANGED <<base, floorZero, folding, imports>>
  BY DEF CommitRepair, history
<1>4. CASE ~SameRepair(w)
  <2>1. walker' = [walker EXCEPT ![b] = None] /\ UNCHANGED <<row, onTop>>
    BY <1>4 DEF CommitRepair
  <2>2. Tame
    BY <1>1, <2>1, WalksOn
  <2>3. RowTame /\ imports' >= imports
    BY <1>1, <1>3, <2>1, SMT DEF RowTame, TypeOK
  <2> QED
    BY <1>1, <1>3, <2>1, <2>2, <2>3, RepairKept
<1>5. CASE SameRepair(w)
  <2>1. /\ row # None /\ row \in RowType /\ row.status = "running" /\ row.phase = "repair"
        /\ row.id = w.id /\ row.after = w.after /\ InRepair /\ row.id <= imports
    BY <1>1, <1>5 DEF SameRepair, InRepair, TypeOK, Repair, Numbered
  <2>2. floorZero /\ BatchHolds(w)
    BY <1>1, <1>2, <2>1 DEF Repair, RepairInv
  <2>3. /\ \A e \in Entities : base[e] # None
        /\ \A e \in w.keys : ops[e] # None
    BY <1>1, <2>1, <2>2 DEF Progress, CountedIsThere, BatchHolds
  <2>4. onTop' = onTop \cup w.keys
    BY <1>2, <1>5, <2>3 DEF CommitRepair, Refolded
  <2>5. UNCHANGED <<ops, late, projected>>
    BY <1>3 DEF folding
  <2>6. \A e \in Entities : Due(e)' <=> Due(e) /\ e \notin w.keys
    BY <2>4, <2>5 DEF Due
  <2>7. CASE LastBatch(w.keys)
    <3>1. /\ row' = [row EXCEPT !.status = "done", !.phase = None, !.after = None]
          /\ walker' = [walker EXCEPT ![b] = None]
      BY <1>5, <2>7 DEF CommitRepair
    <3>2. row'.status = "done" /\ row'.id = row.id
      BY <2>1, <3>1 DEF RowType
    <3>3. \A c \in Backends : walker'[c] # None => walker'[c] = walker[c]
      BY <1>1, <3>1 DEF TypeOK
    <3>4. ASSUME NEW e \in Entities, ops[e] # None, e \notin onTop \cup late, ops[e] <= projected
          PROVE  e \in w.keys
      <4>1. ~(Cardinality(w.keys) >= Batch)
        <5>1. IsFiniteSet(Entities)
          BY FS_Interval, GenesisAssumption DEF Entities
        <5>2. Cardinality(w.keys) \in Nat
          BY <1>2, <5>1, FS_Subset, FS_CardinalityType
        <5> QED
          BY <2>7, <5>2, GenesisAssumption, SMT DEF LastBatch
      <4> QED
        BY <2>2, <3>4, <4>1 DEF BatchHolds, Due
    <3>5. \A e \in Entities : ops[e] # None => ops[e] > projected \/ ops[e] <= projected
      BY <1>1, GenesisAssumption, SMT DEF TypeOK, Blocks
    <3>6. DoneIsComplete'
      BY <1>3, <2>2, <2>3, <2>4, <2>5, <3>4, <3>5 DEF DoneIsComplete
    <3>7. Numbered'
      BY <1>1, <1>3, <2>1, <3>2, <3>3 DEF Repair, Numbered
    <3>8. BehindIsDone' /\ \A c \in Backends : RepairInv(c)'
      BY <3>2 DEF BehindIsDone, InRepair, RepairInv
    <3> QED
      BY <1>1, <2>5, <3>6, <3>7, <3>8 DEF Repair
  <2>8. CASE ~LastBatch(w.keys)
    <3>1. a \in Entities /\ a \in w.keys /\ \A k \in w.keys : k <= a
      BY <1>2, <2>8, BatchHasLast
    <3>2. row' = [row EXCEPT !.after = a] /\ walker' = [walker EXCEPT ![b] = x]
      BY <1>5, <2>8 DEF CommitRepair
    <3> HIDE DEF a
    <3>3. /\ row'.status = "running" /\ row'.phase = "repair" /\ row'.id = row.id
          /\ row'.after = a
      BY <2>1, <3>2 DEF RowType
    <3>4. x.phase = "repair" /\ x.id = w.id /\ x.after = a /\ x.keys = None
      BY <1>2 DEF WalkerType
    <3> HIDE DEF x
    <3>5. /\ walker'[b] = x
          /\ \A c \in Backends : c # b => walker'[c] = walker[c]
      BY <1>1, <3>2 DEF TypeOK
    <3>6. Numbered'
      BY <1>1, <1>2, <1>3, <2>1, <3>3, <3>4, <3>5 DEF Repair, Numbered
    <3>7. row.after # None => row.after \in Entities /\ a > row.after
      BY <2>1, <2>2, <3>1 DEF BatchHolds, RowType
    <3>8. BehindIsDone'
      <4> SUFFICES ASSUME NEW e \in Entities, Due(e), e \notin w.keys PROVE e > a
        BY <2>6, <3>3 DEF BehindIsDone
      <4>1. a < e
        BY <2>2, <3>1 DEF BatchHolds
      <4> QED
        BY <3>1, <4>1, EntitiesAre, SMT
    <3>9. DoneIsComplete'
      BY <3>3 DEF DoneIsComplete
    <3>10. ASSUME NEW c \in Backends PROVE RepairInv(c)'
      <4>1. CASE c = b
        <5>1. a <= a
          BY <3>1, EntitiesAre, SMT
        <5> QED
          BY <1>3, <2>2, <3>3, <3>4, <3>5, <4>1, <5>1 DEF RepairInv
      <4>2. CASE c # b
        <5> DEFINE v == walker[c]
        <5>1. a # None
          BY <3>1, EntitiesAre, GenesisAssumption
        <5>2. ASSUME v # None, v.phase = "repair", row.id = v.id
              PROVE  v.after # None => v.after <= a /\ v.after # a
          <6>1. v.after # None =>
                  row.after # None /\ v.after <= row.after /\ v.after \in Entities
            BY <1>1, <2>1, <5>2 DEF Repair, RepairInv, TypeOK, WalkerType
          <6> HIDE DEF v
          <6> QED
            BY <3>1, <3>7, <6>1, EntitiesAre, SMT
        <5>3. walker'[c] = v /\ floorZero'
          BY <1>3, <2>2, <3>5, <4>2
        <5> HIDE DEF v
        <5> QED
          BY <3>3, <5>1, <5>2, <5>3 DEF RepairInv
      <4> QED
        BY <4>1, <4>2
    <3> QED
      BY <1>1, <2>5, <3>6, <3>8, <3>9, <3>10 DEF Repair
  <2> QED
    BY <2>7, <2>8
<1> QED
  BY <1>4, <1>5

LEMMA RepairStays ==
  ASSUME ImportInv, Next, TypeOK'
  PROVE  Repair'
  BY RepairElsewhere, RepairFolds, RepairReads, RepairCommits DEF Next, BackendStep

-----------------------------------------------------------------------------
(* Who may have dropped the secondary indexes. *)

\* The row of an import that an importer holds, or that has failed.
Dropping == Running("walk", "dump") /\ row.indexes = "dropped"

LEMMA AloneHolds ==
  ASSUME Indexing, ~leaseLost, NEW i \in Importers, importer[i] # None
  PROVE  lease = i /\ \A j \in Importers : j # i => importer[j] = None
  BY DEF Indexing

\* The importer gives up the lease; the row is as it was, or failed, or handed over with the
\* indexes back.
LEMMA Released ==
  ASSUME TypeOK, Indexing, NEW i \in Importers, importer[i] # None, Release(i), UNCHANGED leaseLost,
         ~leaseLost /\ indexes' = "dropped" =>
           row' # None /\ (row'.status = "failed" \/ Dropping')
  PROVE  Indexing'
<1>1. ASSUME ~leaseLost PROVE \A j \in Importers : importer'[j] = None
  BY <1>1, AloneHolds DEF Release, TypeOK
<1> QED
  BY <1>1 DEF Indexing, Dropping

\* The importer takes its next step, with the row it holds.
LEMMA Working ==
  ASSUME TypeOK, Indexing, NEW i \in Importers, importer[i] # None, NEW m,
         importer' = [importer EXCEPT ![i] = m], UNCHANGED <<lease, leaseLost>>,
         ~leaseLost /\ indexes' = "dropped" => row' # None /\ (row'.status = "failed" \/ Dropping'),
         ~leaseLost =>
           /\ row' # None
           /\ \/ row'.status = "failed"
              \/ /\ Running("walk", "dump")' /\ row'.indexes = m.indexes
                 /\ m.pc = "drop" => m.indexes = "dropped"
                 /\ m.pc = "hand" => indexes' = "present"
  PROVE  Indexing'
<1>1. \A j \in Importers : importer'[j] = IF j = i THEN m ELSE importer[j]
  BY DEF TypeOK
<1>2. ~leaseLost => lease = i /\ \A j \in Importers : j # i => importer[j] = None
  BY AloneHolds
<1> QED
  BY <1>1, <1>2 DEF Indexing, Dropping

\* A row that an importer has no hold of changes, or it fails.
LEMMA IndexingElsewhere ==
  ASSUME TypeOK, Indexing, UNCHANGED <<indexes, lease, importer, leaseLost>>,
         \/ row' = row
         \/ row # None /\ row' # None /\ row'.status = "failed"
         \/ row = None
         \/ row.status # "failed" /\ ~Running("walk", "dump")
  PROVE  Indexing'
<1>1. CASE row' = row
  BY <1>1 DEF Indexing, Running
<1>2. CASE row # None /\ row' # None /\ row'.status = "failed"
  BY <1>2 DEF Indexing
<1>3. CASE row = None \/ (row.status # "failed" /\ ~Running("walk", "dump"))
  BY <1>3 DEF Indexing
<1> QED
  BY <1>1, <1>2, <1>3

LEMMA IndexingStays ==
  ASSUME ImportInv, Next, TypeOK'
  PROVE  Indexing'
<1>1. TypeOK /\ Progress /\ Indexing
  BY DEF ImportInv
<1>2. row # None =>
        /\ row \in RowType /\ Failed # None /\ Failed.status = "failed"
  <2> SUFFICES ASSUME row # None
               PROVE  row \in RowType /\ Failed # None /\ Failed.status = "failed"
    OBVIOUS
  <2>1. row \in RowType
    BY <1>1 DEF TypeOK
  <2>2. Failed \in RowType
    BY <2>1, RowMoves DEF Failed
  <2>3. Failed.status = "failed"
    BY <2>1 DEF Failed, RowType
  <2> QED
    BY <2>1, <2>2, <2>3, GenesisAssumption
<1>3. \A i \in Importers : importer[i] # None => importer[i] \in ImporterType
  BY <1>1 DEF TypeOK
<1>4. ASSUME NEW e \in Entities, StoreOp(e) PROVE Indexing'
  BY <1>1, <1>4, IndexingElsewhere DEF StoreOp, tables, machine, history
<1>5. CASE FoldBlock \/ FoldLate \/ NodeRestart
  BY <1>1, <1>5, IndexingElsewhere DEF FoldBlock, FoldLate, NodeRestart, tables, machine, history
<1>6. CASE LeaseLost
  BY <1>6 DEF LeaseLost, Indexing
<1>7. CASE Reset
  <2>1. ~leaseLost => \A i \in Importers : importer[i] = None
    BY <1>1, <1>7, GenesisAssumption DEF Reset, Indexing
  <2> QED
    BY <1>7, <2>1 DEF Reset, Indexing, machine
<1>8. ASSUME NEW b \in Backends,
             Probe(b) \/ BeginWalk(b) \/ Page(b) \/ Leave(b) \/ BeginRepair(b) \/ ReadKeys(b)
      PROVE  Indexing'
  <2>1. UNCHANGED <<indexes, lease, importer, leaseLost>>
    BY <1>8 DEF Probe, BeginWalk, Page, Leave, BeginRepair, ReadKeys, tables, machine, history
  <2>2. row = None \/ row' = row
    BY <1>8 DEF Probe, BeginWalk, Page, Leave, BeginRepair, ReadKeys
  <2> QED
    BY <1>1, <2>1, <2>2, IndexingElsewhere
<1>9. ASSUME NEW b \in Backends, CursorRefused(b) PROVE Indexing'
  <2>1. UNCHANGED <<indexes, lease, importer, leaseLost>>
    BY <1>9 DEF CursorRefused, tables, history
  <2>2. \/ row' = row
        \/ row # None /\ row' = Failed
        \/ Running("walk", "rpc")
    BY <1>9 DEF CursorRefused
  <2> QED
    BY <1>1, <1>2, <2>1, <2>2, IndexingElsewhere DEF Running
<1>10. ASSUME NEW b \in Backends, WalkFails(b) PROVE Indexing'
  <2>1. UNCHANGED <<indexes, lease, importer, leaseLost>>
    BY <1>10 DEF WalkFails, tables
  <2>2. row' = row \/ (row # None /\ row' = Failed)
    BY <1>10 DEF WalkFails
  <2> QED
    BY <1>1, <1>2, <2>1, <2>2, IndexingElsewhere
<1>11. ASSUME NEW b \in Backends, CommitPages(b) \/ CommitRepair(b) PROVE Indexing'
  <2>1. UNCHANGED <<indexes, lease, importer, leaseLost>>
    BY <1>11 DEF CommitPages, CommitRepair, history
  <2>2. row' = row \/ Running("walk", "rpc") \/ InRepair
    BY <1>11 DEF CommitPages, CommitRepair, Unmoved, SameRepair
  <2> QED
    BY <1>1, <2>1, <2>2, IndexingElsewhere DEF Running, InRepair
<1>12. ASSUME NEW i \in Importers, Claim(i) PROVE Indexing'
  <2> DEFINE f == [Blank EXCEPT !.status = "running", !.phase = "walk",
                                !.source = "dump", !.id = imports + 1]
             r == IF Running("walk", "dump") THEN row ELSE f
             m == [pc |-> "verify", id |-> r.id, attempt |-> imports + 1,
                   imported |-> r.imported, resumes |-> r.cursor # None, indexes |-> r.indexes]
  <2>1. row' = [r EXCEPT !.attempt = imports + 1] /\ importer' = [importer EXCEPT ![i] = m]
    BY <1>12 DEF Claim
  <2>2. lease = None /\ lease' = i /\ UNCHANGED <<indexes, leaseLost>>
    BY <1>12 DEF Claim, tables
  <2>3. imports + 1 \in Nat
    BY <1>1, SMT DEF TypeOK
  <2>4. f \in RowType /\ f.status = "running" /\ f.phase = "walk" /\ f.source = "dump"
    <3>1. f \in RowType
      BY <2>3, BlankIs, RowMoves
    <3> QED
      BY <3>1 DEF Blank
  <2>5. r \in RowType /\ r.status = "running" /\ r.phase = "walk" /\ r.source = "dump"
    BY <1>2, <2>4 DEF Running
  <2>6. m.pc = "verify" /\ m.indexes = r.indexes
    OBVIOUS
  <2>7. ~leaseLost /\ indexes = "dropped" => r = row /\ row.indexes = "dropped"
    <3>1. Claimable
      BY <1>12 DEF Claim
    <3>2. ~leaseLost /\ indexes = "dropped" => Running("walk", "dump") /\ row.indexes = "dropped"
      <4> HIDE DEF f, r, m
      <4>1. ~leaseLost /\ indexes = "dropped" =>
              /\ row # None
              /\ (row.status = "failed" \/ (Running("walk", "dump") /\ row.indexes = "dropped"))
        BY <1>1, Zenon DEF Indexing
      <4>2. row # None /\ row.status = "failed" => ~Claimable
        BY DEF Claimable, Running
      <4> QED
        BY <3>1, <4>1, <4>2
    <3> QED
      BY <3>2
  <2> HIDE DEF r, m
  <2>8. /\ row' \in RowType /\ row'.status = "running" /\ row'.phase = "walk"
        /\ row'.source = "dump" /\ row'.indexes = r.indexes
    <3>1. row' \in RowType
      BY <2>1, <2>3, <2>5, RowMoves
    <3> QED
      BY <2>1, <2>5, <3>1 DEF RowType
  <2>9. row' # None
    BY <2>8, GenesisAssumption
  <2>10. ~leaseLost => \A j \in Importers : importer[j] = None
    BY <1>1, <2>2, GenesisAssumption DEF Indexing
  <2>11. \A j \in Importers : importer'[j] = IF j = i THEN m ELSE importer[j]
    BY <1>1, <2>1 DEF TypeOK
  <2> QED
    BY <2>2, <2>6, <2>7, <2>8, <2>9, <2>10, <2>11 DEF Indexing, Running
<1>13. ASSUME NEW i \in Importers, Verify(i) PROVE Indexing'
  <2> DEFINE m == importer[i]
             p == IF m.resumes THEN IF m.indexes = "dropped" THEN "drop" ELSE "load" ELSE "plan"
             x == [m EXCEPT !.pc = p]
  <2>1. m # None /\ m \in ImporterType /\ UNCHANGED <<indexes, leaseLost>>
    BY <1>3, <1>13 DEF Verify, At, tables, history
  <2>2. CASE importer' = [importer EXCEPT ![i] = x] /\ UNCHANGED <<row, lease>>
    <3>1. x.indexes = m.indexes /\ x.pc = p
      BY <2>1 DEF ImporterType
    <3>2. p # "hand" /\ (p = "drop" => m.indexes = "dropped")
      OBVIOUS
    <3>3. ~leaseLost =>
            /\ row # None
            /\ row.status = "failed" \/ (Running("walk", "dump") /\ row.indexes = m.indexes)
            /\ indexes = "dropped" => row.status = "failed" \/ Dropping
      BY <1>1, <2>1 DEF Indexing, Dropping
    <3> HIDE DEF x, p, m
    <3> QED
      BY <1>1, <2>1, <2>2, <3>1, <3>2, <3>3, Working DEF Running, Dropping, m
  <2>3. CASE Release(i) /\ row' = IF Owns(i) THEN Failed ELSE row
    <3>1. ~leaseLost /\ indexes = "dropped" =>
            row' # None /\ (row'.status = "failed" \/ Dropping')
      BY <1>1, <1>2, <2>3 DEF Indexing, Dropping, Running, Owns
    <3> QED
      BY <1>1, <2>1, <2>3, <3>1, Released
  <2> QED
    BY <1>13, <2>2, <2>3 DEF Verify
<1>14. ASSUME NEW i \in Importers, Release(i), importer[i] # None,
              UNCHANGED <<row, indexes, leaseLost>>
       PROVE  Indexing'
  <2>1. ~leaseLost /\ indexes = "dropped" => row # None /\ (row.status = "failed" \/ Dropping)
    BY <1>1 DEF Indexing, Dropping
  <2> QED
    BY <1>1, <1>14, <2>1, Released DEF Dropping, Running
<1>15. ASSUME NEW i \in Importers, PlanIndexes(i) PROVE Indexing'
  <2> DEFINE drop == importer[i].indexes = "dropped" \/ \A e \in Entities : base[e] = None
             m == importer[i]
             p == IF drop THEN "drop" ELSE "load"
             y == IF drop THEN "dropped" ELSE m.indexes
             z == IF drop THEN "dropped" ELSE row.indexes
             x == [m EXCEPT !.pc = p, !.indexes = y]
  <2>1. m # None /\ m \in ImporterType /\ UNCHANGED <<indexes, leaseLost>>
    BY <1>3, <1>15 DEF PlanIndexes, At, tables, history
  <2>2. CASE Owns(i)
    <3>1. row \in RowType /\ Running("walk", "dump") /\ row # None
      BY <1>2, <2>2 DEF Owns, Running
    <3>2. row' = [row EXCEPT !.indexes = z] /\ importer' = [importer EXCEPT ![i] = x]
      BY <1>15, <2>2 DEF PlanIndexes
    <3>3. z \in {"kept", "dropped"}
      BY <3>1 DEF RowType
    <3>4. x.pc = p /\ x.indexes = y
      BY <2>1 DEF ImporterType
    <3>5. ~leaseLost => z = y
      BY <1>1, <2>1, <3>1 DEF Indexing, Running
    <3>6. /\ p = "drop" => y = "dropped"
          /\ p # "hand"
      OBVIOUS
    <3>7. ~leaseLost /\ indexes = "dropped" => z = "dropped"
      BY <1>1, <3>1 DEF Indexing, Running
    <3>8. UNCHANGED lease
      BY <1>15, <2>2 DEF PlanIndexes
    <3> HIDE DEF x, y, z, p, m
    <3>9. row' # None /\ Running("walk", "dump")' /\ row'.indexes = z
      <4>1. row' \in RowType
        BY <3>1, <3>2, <3>3, RowMoves
      <4> QED
        BY <3>1, <3>2, <4>1, GenesisAssumption DEF RowType, Running
    <3> QED
      BY <1>1, <2>1, <3>2, <3>4, <3>5, <3>6, <3>7, <3>8, <3>9, Working DEF Dropping, m
  <2>3. CASE ~Owns(i)
    BY <1>14, <1>15, <2>1, <2>3 DEF PlanIndexes
  <2> QED
    BY <2>2, <2>3
<1>16. ASSUME NEW i \in Importers, DropIndexes(i) \/ BuildIndexes(i) PROVE Indexing'
  <2> DEFINE m == importer[i]
             p == IF m.pc = "drop" THEN "load" ELSE "hand"
             x == [m EXCEPT !.pc = p]
  <2>1. /\ m # None /\ m \in ImporterType /\ UNCHANGED <<row, lease, leaseLost>>
        /\ importer' = [importer EXCEPT ![i] = x]
        /\ p = "hand" => indexes' = IF m.indexes = "dropped" THEN "present" ELSE indexes
        /\ p = "load" => m.pc = "drop" /\ indexes' = "dropped"
    BY <1>3, <1>16 DEF DropIndexes, BuildIndexes, At, history
  <2>2. x.pc = p /\ x.indexes = m.indexes /\ p \in {"load", "hand"}
    BY <2>1 DEF ImporterType
  <2>3. ASSUME ~leaseLost
        PROVE  /\ row # None
               /\ \/ row.status = "failed"
                  \/ /\ Running("walk", "dump") /\ row.indexes = m.indexes
                     /\ m.pc = "drop" => m.indexes = "dropped"
                     /\ indexes = "dropped" => row.indexes = "dropped"
    BY <1>1, <2>1, <2>3 DEF Indexing, Running
  <2>4. indexes \in {"present", "dropped"}
    BY <1>1 DEF TypeOK
  <2> HIDE DEF x, p, m
  <2> QED
    BY <1>1, <2>1, <2>2, <2>3, <2>4, Working DEF Dropping, Running, m
<1>17. ASSUME NEW i \in Importers, CommitRecords(i) PROVE Indexing'
  <2> DEFINE m == importer[i]
             n == m.imported + Len(Records(m))
             p == IF n = Total THEN "index" ELSE "load"
             x == [m EXCEPT !.imported = n, !.pc = p]
  <2>1. m # None /\ m \in ImporterType /\ UNCHANGED <<indexes, leaseLost>>
    BY <1>3, <1>17 DEF CommitRecords, At, history
  <2>2. CASE Owns(i) /\ row.imported = m.imported
    <3>1. row \in RowType /\ Running("walk", "dump") /\ row # None
      BY <1>2, <2>2 DEF Owns, Running
    <3>2. /\ row' = [row EXCEPT !.imported = n, !.cursor = [epoch |-> 0, at |-> n]]
          /\ importer' = [importer EXCEPT ![i] = x] /\ UNCHANGED lease
      BY <1>17, <2>2 DEF CommitRecords
    <3>3. x.pc = p /\ x.indexes = m.indexes
      BY <2>1 DEF ImporterType
    <3>4. p \notin {"drop", "hand"}
      OBVIOUS
    <3>5. ~leaseLost => row.indexes = m.indexes /\ (indexes = "dropped" => row.indexes = "dropped")
      BY <1>1, <2>1, <3>1 DEF Indexing, Running
    <3>7. row' # None
      <4>1. n \in 0..Total
        BY <1>1, <1>17, RecordsBehind
      <4> DEFINE c == [epoch |-> 0, at |-> n]
      <4>2. c \in CursorType \cup {None}
        BY <4>1 DEF CursorType
      <4> HIDE DEF n, c
      <4>3. row' \in RowType
        BY <3>1, <3>2, <4>1, <4>2, RowMoves, Zenon DEF c
      <4> QED
        BY <4>3, GenesisAssumption
    <3> HIDE DEF x, p, n, m
    <3>6. /\ row'.status = row.status /\ row'.phase = row.phase /\ row'.source = row.source
          /\ row'.indexes = row.indexes
      BY <3>1, <3>2 DEF RowType
    <3> QED
      BY <1>1, <2>1, <3>1, <3>2, <3>3, <3>4, <3>5, <3>6, <3>7, Working DEF Dropping, Running, m
  <2>3. CASE ~(Owns(i) /\ row.imported = m.imported)
    BY <1>14, <1>17, <2>1, <2>3 DEF CommitRecords
  <2> QED
    BY <2>2, <2>3
<1>18. ASSUME NEW i \in Importers, HandOver(i) PROVE Indexing'
  <2> DEFINE m == importer[i]
  <2>1. m # None /\ m \in ImporterType /\ UNCHANGED <<indexes, leaseLost>> /\ Release(i)
    BY <1>3, <1>18 DEF HandOver, At, tables, history
  <2>2. CASE Owns(i)
    <3>1. ~leaseLost => indexes = "present"
      BY <1>1, <1>18, <2>1, <2>2 DEF Indexing, Owns, Running, HandOver, At
    <3> QED
      BY <1>1, <2>1, <3>1, Released
  <2>3. CASE ~Owns(i)
    BY <1>14, <1>18, <2>1, <2>3 DEF HandOver
  <2> QED
    BY <2>2, <2>3
<1>19. ASSUME NEW i \in Importers, ImporterDies(i) PROVE Indexing'
  BY <1>14, <1>19 DEF ImporterDies, tables
<1> QED
  BY <1>4, <1>5, <1>6, <1>7, <1>8, <1>9, <1>10, <1>11, <1>12, <1>13, <1>15, <1>16, <1>17, <1>18,
     <1>19 DEF Next, BackendStep, ImporterStep

-----------------------------------------------------------------------------
(* The import: its invariant, and what follows from it. *)

LEMMA ImportBegins ==
  ASSUME Init
  PROVE  ImportInv
<1>1. row # None => row \in RowType /\ row.status = "waiting" /\ row.id = 0
  <2>1. [Blank EXCEPT !.source = "dump"] \in RowType
    BY BlankIs, RowMoves
  <2> QED
    BY <2>1 DEF Init, Blank
<1>2. TypeOK
  <2>1. MaxBlock \in Nat /\ 0 \in 0..MaxBlock /\ 0 \in 0..RestartLimit /\ 0 \in 0..MaxFaults
    BY GenesisAssumption, SMT
  <2> QED
    BY <1>1, <2>1 DEF Init, TypeOK
<1>3. Progress
  BY <1>1 DEF Init, Progress, InNodeOrder, CountedIsThere, CursorCounts, WalkInv, LoadedInv
<1>4. Repair
  <2>1. Numbered
    BY <1>1, SMT DEF Init, Numbered
  <2> QED
    BY <1>1, <2>1
    DEF Init, Repair, BehindIsDone, InRepair, DoneIsComplete, RepairInv
<1>5. Indexing
  BY DEF Init, Indexing
<1> QED
  BY <1>2, <1>3, <1>4, <1>5 DEF ImportInv

LEMMA ImportHolds ==
  ASSUME ImportInv, [Next]_vars
  PROVE  ImportInv'
<1>1. CASE Next
  BY <1>1, TypesKept, ProgressStays, RepairStays, IndexingStays DEF ImportInv
<1>2. CASE UNCHANGED vars
  <2>1. TypeOK'
    BY <1>2 DEF ImportInv, vars, TypeOK
  <2>2. Progress'
    BY <1>2 DEF ImportInv, vars, Progress, InNodeOrder, CountedIsThere, CursorCounts,
                WalkInv, WalkFits, LoadedInv
  <2>3. Repair'
    BY <1>2 DEF ImportInv, vars, Repair, Numbered, BehindIsDone, InRepair, Running, Due,
                DoneIsComplete, RepairInv, BatchHolds
  <2>4. Indexing'
    BY <1>2 DEF ImportInv, vars, Indexing, Running
  <2> QED
    BY <2>1, <2>2, <2>3, <2>4 DEF ImportInv
<1> QED
  BY <1>1, <1>2

LEMMA ImportShows ==
  ASSUME ImportInv
  PROVE  EntitiesInPlace /\ ImportComplete
<1>1. EntitiesInPlace
  BY DEF ImportInv, Progress, EntitiesInPlace
<1>2. IndexesRebuilt
  BY DEF ImportInv, Indexing, IndexesRebuilt, TypeOK, Running
<1> QED
  BY <1>1, <1>2 DEF ImportInv, Repair, ImportComplete

-----------------------------------------------------------------------------
\* In every behaviour of the bootstrap, whatever walks, imports and resets do to each
\* other, an entity's position is the node's and what an import counts is there.
THEOREM EntitiesStayInPlace == AllSpec => []EntitiesInPlace
<1>1. AllInit => ImportInv
  BY ImportBegins DEF AllInit
<1>2. ImportInv /\ [ImportStep \/ DownloadStep]_<<part, vars, downloadVars>> => ImportInv'
  BY ImportHolds DEF ImportStep, DownloadStep
<1>3. ImportInv => EntitiesInPlace
  BY ImportShows
<1> QED
  BY <1>1, <1>2, <1>3, PTL DEF AllSpec

\* In every behaviour of the bootstrap an import that is done holds every entity, with
\* the operations folded before on top, and has its indexes back.
THEOREM ImportsAreComplete == AllSpec => []ImportComplete
<1>1. AllInit => ImportInv
  BY ImportBegins DEF AllInit
<1>2. ImportInv /\ [ImportStep \/ DownloadStep]_<<part, vars, downloadVars>> => ImportInv'
  BY ImportHolds DEF ImportStep, DownloadStep
<1>3. ImportInv => ImportComplete
  BY ImportShows
<1> QED
  BY <1>1, <1>2, <1>3, PTL DEF AllSpec

-----------------------------------------------------------------------------
(* The download. *)

USE DownloadBounds DEF Download!DownloadAssumption

LEMMA PartsAreNumbers == Download!Parts \subseteq Nat /\ None \notin Download!Parts
  BY SMT DEF Download!Parts

\* A record of parts leaves the chain at its head.
LEMMA ShotsMove ==
  ASSUME NEW s \in Seq(ShotType), s # <<>>
  PROVE  /\ Head(s) = s[1] /\ s[1] \in ShotType /\ 1 \in DOMAIN s
         /\ SubSeq(s, 1, 0) \o SubSeq(s, 2, Len(s)) = Tail(s)
         /\ Tail(s) \in Seq(ShotType)
         /\ \A i \in DOMAIN Tail(s) :
              i + 1 \in DOMAIN s /\ i + 1 # 1 /\ Tail(s)[i] = s[i + 1]
<1>1. Len(s) \in Nat /\ Len(s) >= 1 /\ DOMAIN s = 1..Len(s)
  BY EmptySeq, LenProperties
<1>2. Tail(s) \in Seq(ShotType) /\ Len(Tail(s)) = Len(s) - 1
  BY HeadTailProperties
<1>3. \A i \in 1..(Len(s) - 1) : Tail(s)[i] = s[i + 1]
  BY HeadTailProperties
<1>4. SubSeq(s, 1, 0) = <<>>
  BY SubSeqEmpty
<1>5. SubSeq(s, 2, Len(s)) = Tail(s)
  BY TailIsSubSeq
<1>6. SubSeq(s, 1, 0) \o SubSeq(s, 2, Len(s)) = Tail(s)
  BY <1>2, <1>4, <1>5, ConcatEmptySeq
<1>7. Head(s) = s[1] /\ s[1] \in ShotType /\ 1 \in DOMAIN s
  BY <1>1, LenProperties
<1>8. \A i \in DOMAIN Tail(s) : i + 1 \in DOMAIN s /\ i + 1 # 1 /\ Tail(s)[i] = s[i + 1]
  <2>1. DOMAIN Tail(s) = 1..(Len(s) - 1)
    BY <1>2, LenProperties
  <2> QED
    BY <1>1, <1>3, <2>1
<1> QED
  BY <1>2, <1>6, <1>7, <1>8, Zenon

\* A request keeps its type, and its part.
LEMMA RequestMoves ==
  ASSUME NEW r \in Download!Requests
  PROVE  /\ \A at \in {"rest", "ask", "read", "sync", "persist", "over"} :
              /\ [r EXCEPT !.at = at] \in Download!Requests
              /\ \A b \in Versions \cup {None} :
                   /\ [r EXCEPT !.at = at, !.body = b] \in Download!Requests
                   /\ \A n \in 0..PartAttempts :
                        [r EXCEPT !.at = at, !.body = b, !.failures = n] \in Download!Requests
         /\ Download!Resting \in Download!Requests
         /\ \A p \in Download!Parts :
              LET m == [Download!Resting EXCEPT !.at = "ask", !.part = p]
              IN  m \in Download!Requests /\ m.at = "ask" /\ m.part = p /\ m.failures = 0
<1>1. 0 \in 0..PartAttempts
  BY SMT
<1> DEFINE Ats == {"rest", "ask", "read", "sync", "persist", "over"}
           P == Download!Parts \cup {None}
           V == Versions \cup {None}
           N == 0..PartAttempts
<1>2. Download!Requests = [at : Ats, part : P, body : V, failures : N]
  BY DEF Download!Requests
<1>3. "rest" \in Ats /\ "ask" \in Ats /\ None \in P /\ None \in V /\ 0 \in N
       /\ \A p \in Download!Parts : p \in P
  BY <1>1
<1> HIDE DEF Ats, P, V, N
<1>4. \A at \in Ats : [r EXCEPT !.at = at] \in Download!Requests
  BY <1>2
<1>5. \A at \in Ats, b \in V : [r EXCEPT !.at = at, !.body = b] \in Download!Requests
  BY <1>2
<1>6. \A at \in Ats, b \in V, n \in N :
        [r EXCEPT !.at = at, !.body = b, !.failures = n] \in Download!Requests
  BY <1>2
<1>7. Download!Resting \in Download!Requests
  BY <1>2, <1>3 DEF Download!Resting
<1>8. ASSUME NEW p \in Download!Parts
      PROVE  LET m == [Download!Resting EXCEPT !.at = "ask", !.part = p]
             IN  m \in Download!Requests /\ m.at = "ask" /\ m.part = p /\ m.failures = 0
  <2>1. p \in P
    BY <1>3
  <2>2. [Download!Resting EXCEPT !.at = "ask", !.part = p] \in Download!Requests
    BY <1>2, <1>3, <1>7, <2>1
  <2> QED
    BY <2>2 DEF Download!Resting
<1> QED
  BY <1>4, <1>5, <1>6, <1>7, <1>8 DEF Ats, V, N

\* One worker moves; its part, if it has one, is its own.
LEMMA WorkerMoved ==
  ASSUME Download!TypeOK, NEW w \in Workers, NEW m \in Download!Requests,
         worker' = [worker EXCEPT ![w] = m],
         m.part \in {None, worker[w].part} \/ \A v \in Workers : worker[v].part # m.part
  PROVE  /\ worker' \in [Workers -> Download!Requests]
         /\ \A u, v \in Workers :
              u # v /\ worker'[u].part = worker'[v].part => worker'[u].part = None
  BY DEF Download!TypeOK

\* A chain of records keeps its workers waiting.
LEMMA OverIsStill ==
  ASSUME DownloadInv, Download!WorkersOver
  PROVE  Still
<1>1. snapshots \in Seq(ShotType) /\ SnapshotsInv
  BY DEF DownloadInv, RunTypes, RunInv
<1>2. snapshots # <<>> => 1 \in DOMAIN snapshots /\ snapshots[1].by \in Workers
  BY <1>1, ShotsMove DEF ShotType
<1> QED
  BY <1>1, <1>2 DEF SnapshotsInv, Still, Download!WorkersOver

\* When the call is over, or begins again, nothing is left of the run.
LEMMA ForgetKeeps ==
  ASSUME DownloadInv, Download!Forget, phase' \in {"idle", "open"}, SidecarTrue',
         object' \in Versions, {written', onDisk'} \subseteq Download!Contents \cup {None},
         written' = None <=> onDisk' = None,
         sidecar' \in Download!Sidecars \cup {None}, {ready', refused'} \subseteq BOOLEAN
  PROVE  DownloadInv'
<1>1. Download!TypeOK'
  <2>1. worker' = [w \in Workers |-> Download!Resting] /\ Download!Resting.part = None
    BY DEF Download!Forget, Download!Resting
  <2>2. worker' \in [Workers -> Download!Requests]
    BY <2>1, RequestMoves, Zenon DEF Download!TypeOK, DownloadInv, RunTypes
  <2> QED
    BY <2>1, <2>2 DEF Download!Forget, Download!TypeOK
<1>2. snapshots' = <<>> /\ failure' = None /\ snapshots' \in Seq(ShotType)
  BY DEF Download!Forget
<1>3. Quiet' /\ Still'
  BY DEF Quiet, Still, Download!Forget, Download!Resting
<1>4. FirstInv' /\ PinnedInv' /\ SnapshotsInv'
  BY <1>2 DEF FirstInv, PinnedInv, SnapshotsInv
<1>5. PartsInv'
  BY <1>2 DEF PartsInv, Download!Failures
<1>6. \A w \in Workers : WorkerInv(w)'
  BY DEF WorkerInv, Busy, Download!Forget, Download!Resting
<1> QED
  BY <1>1, <1>2, <1>3, <1>4, <1>5, <1>6 DEF DownloadInv, RunTypes, RunInv

-----------------------------------------------------------------------------
\* While a worker is busy a run is under way, and its part is its own.
LEMMA BusyIsRunning ==
  ASSUME DownloadInv, NEW w \in Workers, worker[w].at \in Busy
  PROVE  /\ phase \in {"first", "parts"} /\ written # None /\ written \in Download!Contents
         /\ worker[w].part \in Download!Parts \ done
         /\ phase = "first" => w = Lead /\ sidecar = None
         /\ \A i \in DOMAIN snapshots : snapshots[i].by # w
         /\ failure # "mismatch"
<1>1. RunTypes /\ RunInv
  BY DEF DownloadInv
<1>2. phase \in {"first", "parts"}
  BY <1>1 DEF RunInv, Still, Busy
<1>3. written # None /\ written \in Download!Contents
  BY <1>1, <1>2 DEF RunTypes, Download!TypeOK
<1>4. worker[w].part \in Download!Parts \ done
  BY <1>1 DEF RunInv, WorkerInv
<1>5. phase = "first" => w = Lead /\ sidecar = None
  BY <1>1 DEF RunInv, FirstInv, Download!Resting, Busy
<1>6. \A i \in DOMAIN snapshots : snapshots[i].by # w
  BY <1>1 DEF RunInv, SnapshotsInv, Busy
<1>7. failure # "mismatch"
  BY <1>1, <1>2 DEF RunInv, PartsInv
<1> QED
  BY <1>2, <1>3, <1>4, <1>5, <1>6, <1>7

\* A request is answered, received, broken or given up: only its own part of the file
\* changes, and the version is pinned by a whole first answer only.
LEMMA RequestKeeps ==
  ASSUME DownloadInv, NEW w \in Workers, worker[w].at \in {"ask", "read"},
         NEW m \in Download!Requests, worker' = [worker EXCEPT ![w] = m],
         m.part = worker[w].part, m.at \in Busy \cup {"over"},
         m.at = "over" => failure' # None,
         failure' = failure \/ failure' \in {"changed", "broken"},
         written' = written \/ \E c \in Versions \cup {Hole, Torn} :
                                 written' = [written EXCEPT ![worker[w].part] = c],
         etag' = etag \/ (etag = None /\ etag' \in Versions /\ m.at = "sync"),
         WorkerInv(w)',
         UNCHANGED <<object, onDisk, sidecar, ready, refused, done, queue, snapshots, phase>>
  PROVE  DownloadInv'
<1>1. RunTypes /\ SidecarTrue /\ RunInv
  BY DEF DownloadInv
<1>2. /\ phase \in {"first", "parts"} /\ written # None /\ written \in Download!Contents
      /\ worker[w].part \in Download!Parts \ done
      /\ phase = "first" => w = Lead /\ sidecar = None
      /\ \A i \in DOMAIN snapshots : snapshots[i].by # w
      /\ failure # "mismatch"
  BY BusyIsRunning DEF Busy
<1>3. /\ worker'[w] = m
      /\ \A v \in Workers : v # w => worker'[v] = worker[v]
  BY <1>1 DEF RunTypes, Download!TypeOK
<1>4. /\ written' # None /\ written' \in Download!Contents
      /\ \A p \in Download!Parts : p # worker[w].part => written'[p] = written[p]
  BY <1>2 DEF Download!Contents
<1>5. etag' # etag => phase = "first" /\ snapshots = <<>>
  BY <1>1, <1>2, <1>3 DEF RunInv, FirstInv, PinnedInv
<1>6. etag = None => done = {}
  BY <1>1, <1>2 DEF RunInv, PinnedInv
<1>7. Download!TypeOK'
  <2>1. /\ worker' \in [Workers -> Download!Requests]
        /\ \A u, v \in Workers :
             u # v /\ worker'[u].part = worker'[v].part => worker'[u].part = None
    BY <1>1, WorkerMoved DEF RunTypes
  <2> QED
    BY <1>1, <1>2, <1>4, <2>1 DEF RunTypes, Download!TypeOK, Download!Failures
<1>8. RunTypes'
  BY <1>1, <1>4, <1>7 DEF RunTypes
<1>9. SidecarTrue'
  BY <1>1, <1>2, <1>4
  DEF RunInv, RunTypes, PinnedInv, SidecarTrue, Download!TypeOK, Download!Sidecars
<1>10. FirstInv'
  BY <1>1, <1>2, <1>3, <1>5 DEF RunInv, FirstInv, WorkerInv, Busy
<1>11. PinnedInv'
  BY <1>1, <1>2, <1>4, <1>5, <1>6 DEF RunInv, RunTypes, PinnedInv, Download!TypeOK
<1>12. SnapshotsInv'
  BY <1>1, <1>2, <1>3, <1>5 DEF RunInv, RunTypes, SnapshotsInv, ShotType
<1>13. PartsInv'
  <2>1. failure' = None => failure = None /\ m.at \in Busy
    BY DEF Download!Failures
  <2> QED
    BY <1>1, <1>2, <1>3, <2>1 DEF RunInv, PartsInv
<1>14. \A v \in Workers : WorkerInv(v)'
  <2> SUFFICES ASSUME NEW v \in Workers, v # w PROVE WorkerInv(v)'
    OBVIOUS
  <2>1. worker'[v] = worker[v] /\ WorkerInv(v)
    BY <1>1, <1>3 DEF RunInv
  <2>2. etag' # etag => worker[v].at \notin Busy
    BY <1>1, <1>2, <1>5 DEF RunInv, FirstInv, Download!Resting, Busy
  <2>3. worker[v].at = "sync" =>
          worker[v].part # worker[w].part /\ worker[v].part \in Download!Parts
    <3>1. worker[v].at = "sync" => worker[v].part \in Download!Parts
      BY <2>1 DEF WorkerInv, Busy
    <3> QED
      BY <1>1, <1>2, <3>1, PartsAreNumbers DEF RunTypes, Download!TypeOK
  <2> QED
    BY <1>4, <2>1, <2>2, <2>3 DEF WorkerInv, Busy
<1> QED
  BY <1>1, <1>2, <1>8, <1>9, <1>10, <1>11, <1>12, <1>13, <1>14 DEF DownloadInv, RunInv

LEMMA AnsweredKeeps ==
  ASSUME DownloadInv, NEW w \in Workers, Download!Answered(w)
  PROVE  DownloadInv'
<1> DEFINE m == [worker[w] EXCEPT !.at = "read", !.body = object]
<1>1. RunTypes /\ RunInv
  BY DEF DownloadInv
<1>2. worker[w] \in Download!Requests /\ object \in Versions
  BY <1>1 DEF RunTypes, Download!TypeOK
<1>3. worker' = [worker EXCEPT ![w] = m] /\ worker'[w] = m
  BY <1>1 DEF Download!Answered, RunTypes, Download!TypeOK
<1>4. m \in Download!Requests
  BY <1>2, RequestMoves
<1>5. /\ m.at = "read" /\ m.part = worker[w].part /\ m.body = object
      /\ m.failures = worker[w].failures
  BY <1>2 DEF Download!Requests
<1> HIDE DEF m
<1>6. WorkerInv(w)'
  BY <1>1, <1>2, <1>3, <1>5 DEF Download!Answered, Download!Matches, RunInv, WorkerInv, Busy
<1> QED
  BY <1>3, <1>4, <1>5, <1>6, RequestKeeps
  DEF Download!Answered, Download!files, Download!faults, Busy

LEMMA RefusedKeeps ==
  ASSUME DownloadInv, NEW w \in Workers, Download!Refused(w)
  PROVE  DownloadInv'
<1> DEFINE m == [worker[w] EXCEPT !.at = "over"]
<1>1. RunTypes /\ RunInv
  BY DEF DownloadInv
<1>2. worker[w] \in Download!Requests
  BY <1>1 DEF RunTypes, Download!TypeOK
<1>3. worker' = [worker EXCEPT ![w] = m] /\ worker'[w] = m
  BY <1>1 DEF Download!Refused, RunTypes, Download!TypeOK
<1>4. m \in Download!Requests
  BY <1>2, RequestMoves
<1>5. m.at = "over" /\ m.part = worker[w].part
  BY <1>2 DEF Download!Requests
<1> HIDE DEF m
<1>6. WorkerInv(w)'
  BY <1>1, <1>3, <1>5 DEF Download!Refused, RunInv, WorkerInv, Busy
<1> QED
  BY <1>3, <1>4, <1>5, <1>6, RequestKeeps
  DEF Download!Refused, Download!files, Download!faults, Download!Failures

LEMMA ReceivedKeeps ==
  ASSUME DownloadInv, NEW w \in Workers, Download!Received(w)
  PROVE  DownloadInv'
<1> DEFINE m == [worker[w] EXCEPT !.at = "sync"]
<1>1. RunTypes /\ RunInv
  BY DEF DownloadInv
<1>2. worker[w] \in Download!Requests
  BY <1>1 DEF RunTypes, Download!TypeOK
<1>3. worker' = [worker EXCEPT ![w] = m] /\ worker'[w] = m
  BY <1>1 DEF Download!Received, RunTypes, Download!TypeOK
<1>4. m \in Download!Requests
  BY <1>2, RequestMoves
<1>5. m.at = "sync" /\ m.part = worker[w].part
  BY <1>2 DEF Download!Requests
<1>6. /\ written # None /\ written \in Download!Contents
      /\ worker[w].part \in Download!Parts \ done
  BY BusyIsRunning DEF Download!Received, Busy
<1>7. worker[w].body \in Versions /\ (etag # None => worker[w].body = etag)
  BY <1>1, <1>2 DEF Download!Received, RunInv, WorkerInv, Download!Requests
<1> HIDE DEF m
<1>8. WorkerInv(w)'
  BY <1>1, <1>3, <1>5, <1>6, <1>7
  DEF Download!Received, RunInv, WorkerInv, Busy, Download!Contents
<1> QED
  BY <1>3, <1>4, <1>5, <1>7, <1>8, RequestKeeps DEF Download!Received, Download!faults, Busy

LEMMA BrokenKeeps ==
  ASSUME DownloadInv, NEW w \in Workers, Download!Broken(w)
  PROVE  DownloadInv'
<1> DEFINE at == IF worker[w].failures + 1 = PartAttempts THEN "over" ELSE "ask"
           n == worker[w].failures + 1
           m == [worker[w] EXCEPT !.at = at, !.body = None, !.failures = n]
<1>1. RunTypes /\ RunInv
  BY DEF DownloadInv
<1>2. worker[w] \in Download!Requests
  BY <1>1 DEF RunTypes, Download!TypeOK
<1>3. worker' = [worker EXCEPT ![w] = m] /\ worker'[w] = m
  BY <1>1 DEF Download!Broken, RunTypes, Download!TypeOK
<1>4. n \in 0..PartAttempts /\ (at = "ask" => n < PartAttempts)
  <2>1. worker[w].failures \in 0..PartAttempts /\ worker[w].failures < PartAttempts
    BY <1>1, <1>2 DEF Download!Broken, Download!Requests, RunInv, WorkerInv
  <2> QED
    BY <2>1, SMT
<1>5. at \in {"ask", "over"}
  OBVIOUS
<1> HIDE DEF n, at
<1>6. m \in Download!Requests
  BY <1>2, <1>4, <1>5, RequestMoves
<1>7. m.at = at /\ m.part = worker[w].part /\ m.failures = n
  BY <1>2 DEF Download!Requests
<1> HIDE DEF m
<1>8. WorkerInv(w)'
  BY <1>1, <1>3, <1>4, <1>5, <1>7 DEF Download!Broken, RunInv, WorkerInv, Busy
<1>9. /\ m.at = "over" => failure' # None
      /\ failure' = failure \/ failure' \in {"changed", "broken"}
  BY <1>3 DEF Download!Broken, Download!Aborted, Download!Failures
<1>10. written' = written \/ written' = [written EXCEPT ![worker[w].part] = Torn]
  BY DEF Download!Broken
<1> QED
  BY <1>3, <1>5, <1>6, <1>7, <1>8, <1>9, <1>10, RequestKeeps DEF Download!Broken, Busy

LEMMA AbandonKeeps ==
  ASSUME DownloadInv, NEW w \in Workers, Download!Abandon(w)
  PROVE  DownloadInv'
<1> DEFINE m == [worker[w] EXCEPT !.at = "over"]
<1>1. RunTypes /\ RunInv
  BY DEF DownloadInv
<1>2. worker[w] \in Download!Requests
  BY <1>1 DEF RunTypes, Download!TypeOK
<1>3. worker' = [worker EXCEPT ![w] = m] /\ worker'[w] = m
  BY <1>1 DEF Download!Abandon, RunTypes, Download!TypeOK
<1>4. m \in Download!Requests
  BY <1>2, RequestMoves
<1>5. m.at = "over" /\ m.part = worker[w].part
  BY <1>2 DEF Download!Requests
<1> HIDE DEF m
<1>6. WorkerInv(w)'
  BY <1>1, <1>3, <1>5 DEF Download!Abandon, RunInv, WorkerInv, Busy
<1>7. written' = written \/ written' = [written EXCEPT ![worker[w].part] = Torn]
  BY DEF Download!Abandon
<1> QED
  BY <1>3, <1>4, <1>5, <1>6, <1>7, RequestKeeps
  DEF Download!Abandon, Download!Aborted, Download!faults

LEMMA TakeKeeps ==
  ASSUME DownloadInv, NEW w \in Workers, Download!Take(w)
  PROVE  DownloadInv'
<1>1. RunTypes /\ SidecarTrue /\ RunInv
  BY DEF DownloadInv
<1> DEFINE p == Download!Min(queue)
           m == [Download!Resting EXCEPT !.at = "ask", !.part = p]
<1>2. p \in queue
  <2>1. queue \subseteq Nat /\ queue # {}
    BY <1>1, PartsAreNumbers DEF Download!Take, RunTypes, Download!TypeOK
  <2> QED
    BY <2>1, MinIsMember DEF Min, Download!Min
<1>3. worker' = [worker EXCEPT ![w] = m] /\ queue' = queue \ {p} /\ worker'[w] = m
  <2>1. worker' = [worker EXCEPT ![w] = m] /\ queue' = queue \ {p}
    BY DEF Download!Take
  <2> HIDE DEF m
  <2> QED
    BY <1>1, <2>1 DEF RunTypes, Download!TypeOK
<1> HIDE DEF p
<1>4. p \in Download!Parts \ done /\ \A v \in Workers : worker[v].part # p
  <2>1. \A v \in Workers : worker[v].part # None => worker[v].part # p
    BY <1>1, <1>2 DEF RunInv, WorkerInv
  <2>2. p \in Download!Parts \ done
    BY <1>1, <1>2 DEF RunTypes, Download!TypeOK
  <2> QED
    BY <2>1, <2>2, PartsAreNumbers
<1>5. m \in Download!Requests /\ m.at = "ask" /\ m.part = p /\ m.failures = 0
  BY <1>1, <1>4, RequestMoves DEF RunTypes, Download!TypeOK
<1> HIDE DEF m
<1>6. \A v \in Workers : v # w => worker'[v] = worker[v]
  BY <1>1, <1>3 DEF RunTypes, Download!TypeOK
<1>7. Download!TypeOK'
  <2>1. /\ worker' \in [Workers -> Download!Requests]
        /\ \A u, v \in Workers :
             u # v /\ worker'[u].part = worker'[v].part => worker'[u].part = None
    BY <1>1, <1>3, <1>4, <1>5, WorkerMoved DEF RunTypes
  <2> QED
    BY <1>1, <1>3, <2>1
    DEF RunTypes, Download!Take, Download!TypeOK, Download!files, Download!faults
<1>8. RunTypes' /\ SidecarTrue'
  BY <1>1, <1>7 DEF Download!Take, Download!files, RunTypes, SidecarTrue
<1>9. FirstInv' /\ PinnedInv'
  BY <1>1 DEF Download!Take, Download!files, RunInv, FirstInv, PinnedInv
<1>10. SnapshotsInv'
  BY <1>1, <1>6 DEF Download!Take, Download!files, RunInv, RunTypes, SnapshotsInv, ShotType
<1>11. PartsInv'
  BY <1>1, <1>3, <1>6, <1>5 DEF Download!Take, RunInv, PartsInv, Busy
<1>12. \A v \in Workers : WorkerInv(v)'
  <2>1. WorkerInv(w)'
    <3>1. 0 < PartAttempts
      BY SMT
    <3>2. done' = done
      BY DEF Download!Take
    <3> QED
      BY <1>3, <1>4, <1>5, <3>1, <3>2 DEF WorkerInv, Busy
  <2>2. \A v \in Workers : v # w => WorkerInv(v)'
    BY <1>1, <1>3, <1>6 DEF Download!Take, Download!files, RunInv, WorkerInv
  <2> QED
    BY <2>1, <2>2
<1> QED
  BY <1>8, <1>9, <1>10, <1>11, <1>12 DEF Download!Take, DownloadInv, RunInv

LEMMA SyncKeeps ==
  ASSUME DownloadInv, NEW w \in Workers, Download!Sync(w)
  PROVE  DownloadInv'
<1> DEFINE p == worker[w].part
           m == [worker[w] EXCEPT !.at = "persist"]
           shot == [by |-> w, etag |-> etag, done |-> done \cup {p}]
<1>1. RunTypes /\ SidecarTrue /\ RunInv
  BY DEF DownloadInv
<1>2. /\ phase \in {"first", "parts"} /\ written # None /\ written \in Download!Contents
      /\ p \in Download!Parts \ done
      /\ phase = "first" => w = Lead /\ sidecar = None
      /\ \A i \in DOMAIN snapshots : snapshots[i].by # w
      /\ failure # "mismatch"
  BY BusyIsRunning DEF Download!Sync, Busy
<1>3. worker[w] \in Download!Requests
  BY <1>1 DEF RunTypes, Download!TypeOK
<1>4. /\ worker' = [worker EXCEPT ![w] = m] /\ worker'[w] = m
      /\ \A v \in Workers : v # w => worker'[v] = worker[v]
  BY <1>1 DEF Download!Sync, RunTypes, Download!TypeOK
<1>5. m.at = "persist" /\ m.part = p /\ m \in Download!Requests
  <2>1. m \in Download!Requests
    BY <1>3, RequestMoves
  <2> QED
    BY <1>3, <2>1 DEF Download!Requests
<1>6. etag # None /\ written[p] = etag /\ p \notin queue
  BY <1>1, <1>2, PartsAreNumbers DEF Download!Sync, RunInv, WorkerInv
<1>7. done' = done \cup {p} /\ onDisk' = written /\ snapshots' = Append(snapshots, shot)
  BY DEF Download!Sync, Download!Synced
<1>8. shot \in ShotType /\ shot.by = w /\ shot.etag = etag /\ shot.done = done'
  BY <1>1, <1>2, <1>6, <1>7 DEF RunTypes, Download!TypeOK, ShotType
<1> HIDE DEF m, p, shot
<1>9. /\ snapshots' \in Seq(ShotType) /\ DOMAIN snapshots' = 1..(Len(snapshots) + 1)
      /\ snapshots'[Len(snapshots) + 1] = shot
      /\ \A i \in DOMAIN snapshots : snapshots'[i] = snapshots[i]
      /\ DOMAIN snapshots = 1..Len(snapshots) /\ Len(snapshots) \in Nat
  BY <1>1, <1>7, <1>8 DEF RunTypes
<1>10. Download!TypeOK'
  <2>1. /\ worker' \in [Workers -> Download!Requests]
        /\ \A u, v \in Workers :
             u # v /\ worker'[u].part = worker'[v].part => worker'[u].part = None
    BY <1>1, <1>4, <1>5, WorkerMoved DEF RunTypes, p
  <2> QED
    BY <1>1, <1>2, <1>6, <1>7, <2>1 DEF Download!Sync, Download!faults, RunTypes, Download!TypeOK
<1>11. RunTypes' /\ SidecarTrue'
  BY <1>1, <1>2, <1>7, <1>9, <1>10
  DEF Download!Sync, RunInv, RunTypes, PinnedInv, SidecarTrue, Download!TypeOK, Download!Sidecars
<1>12. FirstInv'
  BY <1>1, <1>2, <1>4, <1>5, <1>6 DEF Download!Sync, RunInv, FirstInv
<1>13. PinnedInv'
  BY <1>1, <1>2, <1>6, <1>7 DEF Download!Sync, RunInv, PinnedInv
<1>14. SnapshotsInv'
  <2>1. \A i \in DOMAIN snapshots :
          /\ snapshots'[i] = snapshots[i] /\ worker'[snapshots[i].by].at = "persist"
          /\ snapshots[i].etag = etag /\ snapshots[i].done \subseteq done
    BY <1>1, <1>2, <1>4, <1>9 DEF RunInv, RunTypes, SnapshotsInv, ShotType
  <2>2. /\ sidecar # None => sidecar.done \subseteq done
        /\ etag' = etag /\ sidecar' = sidecar /\ done \subseteq done'
    BY <1>1, <1>2, <1>7 DEF Download!Sync, RunInv, PinnedInv
  <2>3. \A i \in DOMAIN snapshots' : i \in DOMAIN snapshots \/ snapshots'[i] = shot
    BY <1>9
  <2>4. \A i, j \in DOMAIN snapshots' : i < j => i \in DOMAIN snapshots
    BY <1>9
  <2>5. \A i, j \in DOMAIN snapshots : i < j =>
          snapshots[i].by # snapshots[j].by /\ snapshots[i].done \subseteq snapshots[j].done
    BY <1>1 DEF RunInv, SnapshotsInv
  <2>6. \A i \in DOMAIN snapshots : sidecar # None => sidecar.done \subseteq snapshots[i].done
    BY <1>1 DEF RunInv, SnapshotsInv
  <2> QED
    BY <1>2, <1>4, <1>5, <1>8, <2>1, <2>2, <2>3, <2>4, <2>5, <2>6 DEF SnapshotsInv
<1>15. PartsInv'
  BY <1>1, <1>2, <1>4, <1>5, <1>7 DEF Download!Sync, RunInv, PartsInv, Busy, p
<1>16. \A v \in Workers : WorkerInv(v)'
  <2>1. \A v \in Workers : v # w /\ worker[v].part # None => worker[v].part # p
    BY <1>1, <1>2, PartsAreNumbers DEF RunTypes, Download!TypeOK, p
  <2>2. WorkerInv(w)'
    BY <1>4, <1>5, <1>6 DEF Download!Sync, WorkerInv, Busy
  <2>3. \A v \in Workers : v # w => WorkerInv(v)'
    BY <1>1, <1>4, <1>7, <2>1, PartsAreNumbers DEF Download!Sync, RunInv, WorkerInv, Busy
  <2> QED
    BY <2>2, <2>3
<1> QED
  BY <1>1, <1>2, <1>11, <1>12, <1>13, <1>14, <1>15, <1>16 DEF Download!Sync, DownloadInv, RunInv

\* The record at the head of the chain leaves it, written or not: its worker goes on.
LEMMA ShotLeaves ==
  ASSUME DownloadInv, snapshots # <<>>, NEW m \in Download!Requests,
         worker' = [worker EXCEPT ![snapshots[1].by] = m],
         m.part \in {None, worker[snapshots[1].by].part}, m.at \in {"rest", "over"},
         snapshots' = Tail(snapshots),
         failure' = failure \/ failure' \in {"changed", "broken"},
         \/ phase' = phase /\ sidecar' = sidecar
         \/ /\ phase' = "parts"
            /\ sidecar' = [etag |-> snapshots[1].etag, done |-> snapshots[1].done],
         UNCHANGED <<object, written, onDisk, ready, refused, etag, done, queue>>
  PROVE  DownloadInv'
<1> DEFINE w == snapshots[1].by
<1>1. RunTypes /\ SidecarTrue /\ RunInv
  BY DEF DownloadInv
<1>2. /\ snapshots[1] \in ShotType /\ 1 \in DOMAIN snapshots
      /\ snapshots' \in Seq(ShotType)
      /\ \A i \in DOMAIN snapshots' :
           i + 1 \in DOMAIN snapshots /\ i + 1 # 1 /\ snapshots'[i] = snapshots[i + 1]
  BY <1>1, ShotsMove DEF RunTypes
<1>3. /\ w \in Workers /\ worker[w].at = "persist" /\ snapshots[1].etag = etag
      /\ snapshots[1].done \subseteq done
      /\ sidecar # None => sidecar.done \subseteq snapshots[1].done
  BY <1>1, <1>2 DEF ShotType, RunInv, SnapshotsInv
<1>4. /\ phase \in {"first", "parts"} /\ phase' \in {"first", "parts"}
      /\ written # None /\ etag # None /\ failure # "mismatch"
  <2>1. phase \in {"first", "parts"}
    BY <1>1 DEF RunInv, Still
  <2> QED
    BY <1>1, <2>1 DEF RunInv, RunTypes, FirstInv, PinnedInv, PartsInv
<1>5. worker'[w] = m /\ \A v \in Workers : v # w => worker'[v] = worker[v]
  BY <1>1, <1>3 DEF RunTypes, Download!TypeOK
<1>6. DOMAIN snapshots' \subseteq Nat /\ DOMAIN snapshots \subseteq Nat
  BY <1>1, <1>2, LenProperties DEF RunTypes
<1>7. sidecar' # None => sidecar'.etag = etag /\ sidecar'.done \subseteq done
  BY <1>1, <1>3, <1>4 DEF RunInv, PinnedInv
<1>8. \A i \in DOMAIN snapshots' : sidecar' # None => sidecar'.done \subseteq snapshots'[i].done
  <2> SUFFICES ASSUME NEW i \in DOMAIN snapshots', sidecar' # None
               PROVE  sidecar'.done \subseteq snapshots'[i].done
    OBVIOUS
  <2>1. i + 1 \in DOMAIN snapshots /\ snapshots'[i] = snapshots[i + 1] /\ 1 < i + 1
    BY <1>2, <1>6, LenProperties DEF RunTypes
  <2>2. snapshots[1].done \subseteq snapshots[i + 1].done
    BY <1>1, <1>2, <2>1 DEF RunInv, SnapshotsInv
  <2> QED
    BY <1>3, <2>1, <2>2
<1> HIDE DEF w
<1>9. RunTypes'
  <2>1. /\ worker' \in [Workers -> Download!Requests]
        /\ \A u, v \in Workers :
             u # v /\ worker'[u].part = worker'[v].part => worker'[u].part = None
    BY <1>1, <1>3, WorkerMoved DEF RunTypes, w
  <2>2. sidecar' \in Download!Sidecars \cup {None}
    BY <1>1, <1>2 DEF RunTypes, Download!TypeOK, Download!Sidecars, ShotType
  <2>3. failure' \in Download!Failures \cup {None}
    BY <1>1 DEF RunTypes, Download!TypeOK, Download!Failures
  <2> QED
    BY <1>1, <1>2, <1>4, <2>1, <2>2, <2>3 DEF RunTypes, Download!TypeOK
<1>10. SidecarTrue'
  BY <1>1, <1>4, <1>7 DEF SidecarTrue, RunInv, PinnedInv
<1>11. FirstInv'
  <2>1. phase' = "first" => phase = "first" /\ sidecar' = sidecar
    OBVIOUS
  <2>2. phase = "first" => w = Lead
    BY <1>1, <1>3 DEF RunInv, FirstInv, Download!Resting
  <2> QED
    BY <1>1, <1>3, <1>4, <1>5, <2>1, <2>2 DEF RunInv, FirstInv
<1>12. PinnedInv'
  BY <1>1, <1>4, <1>7 DEF RunInv, PinnedInv
<1>13. SnapshotsInv'
  <2> SUFFICES ASSUME NEW i \in DOMAIN snapshots'
               PROVE  /\ worker'[snapshots'[i].by].at = "persist"
                      /\ snapshots'[i].etag = etag' /\ snapshots'[i].done \subseteq done'
                      /\ sidecar' # None => sidecar'.done \subseteq snapshots'[i].done
                      /\ \A j \in DOMAIN snapshots' : i < j =>
                           /\ snapshots'[i].by # snapshots'[j].by
                           /\ snapshots'[i].done \subseteq snapshots'[j].done
    BY DEF SnapshotsInv
  <2>1. /\ i + 1 \in DOMAIN snapshots /\ snapshots'[i] = snapshots[i + 1] /\ 1 < i + 1
        /\ snapshots[i + 1] \in ShotType
    BY <1>1, <1>2, <1>6, LenProperties DEF RunTypes
  <2>2. snapshots[i + 1].by # w /\ snapshots[i + 1].by \in Workers
    BY <1>1, <1>2, <2>1 DEF RunInv, SnapshotsInv, ShotType, w
  <2>3. \A j \in DOMAIN snapshots' : i < j =>
          /\ snapshots'[i].by # snapshots'[j].by
          /\ snapshots'[i].done \subseteq snapshots'[j].done
    <3> SUFFICES ASSUME NEW j \in DOMAIN snapshots', i < j
                 PROVE  /\ snapshots'[i].by # snapshots'[j].by
                        /\ snapshots'[i].done \subseteq snapshots'[j].done
      OBVIOUS
    <3>1. j + 1 \in DOMAIN snapshots /\ snapshots'[j] = snapshots[j + 1] /\ i + 1 < j + 1
      BY <1>2, <1>6
    <3> QED
      BY <1>1, <2>1, <3>1 DEF RunInv, SnapshotsInv
  <2>4. /\ worker[snapshots[i + 1].by].at = "persist"
        /\ snapshots[i + 1].etag = etag /\ snapshots[i + 1].done \subseteq done
    BY <1>1, <2>1 DEF RunInv, SnapshotsInv
  <2> QED
    BY <1>5, <1>8, <2>1, <2>2, <2>3, <2>4
<1>14. PartsInv'
  BY <1>1, <1>3, <1>4, <1>5 DEF RunInv, PartsInv, Busy, Download!Failures
<1>15. \A v \in Workers : WorkerInv(v)'
  BY <1>1, <1>3, <1>5 DEF RunInv, WorkerInv, Busy, w
<1> QED
  BY <1>4, <1>9, <1>10, <1>11, <1>12, <1>13, <1>14, <1>15 DEF DownloadInv, RunInv

LEMMA PersistKeeps ==
  ASSUME DownloadInv, Download!Persist
  PROVE  DownloadInv'
<1>1. snapshots # <<>> /\ snapshots \in Seq(ShotType)
  BY DEF DownloadInv, RunTypes, Download!Persist, Download!NextSnapshots
<1>2. /\ snapshots' = SubSeq(snapshots, 1, 0) \o SubSeq(snapshots, 2, Len(snapshots))
      /\ sidecar' = [etag |-> snapshots[1].etag, done |-> snapshots[1].done]
      /\ worker' = [worker EXCEPT ![snapshots[1].by] = Download!Resting]
      /\ phase' = "parts"
      /\ UNCHANGED <<object, written, onDisk, ready, refused, etag, done, queue, failure>>
  BY DEF Download!Persist, Download!NextSnapshots, Download!faults
<1>3. snapshots' = Tail(snapshots)
  BY <1>1, <1>2, ShotsMove
<1>4. Download!Resting \in Download!Requests
  <2>1. Lead \in Workers /\ worker \in [Workers -> Download!Requests]
    BY DEF DownloadInv, RunTypes, Download!TypeOK
  <2> QED
    BY <2>1, RequestMoves
<1>5. Download!Resting.part = None /\ Download!Resting.at = "rest"
  BY DEF Download!Resting
<1> QED
  BY <1>1, <1>2, <1>3, <1>4, <1>5, ShotLeaves

LEMMA PersistFailsKeeps ==
  ASSUME DownloadInv, Download!PersistFails
  PROVE  DownloadInv'
<1> DEFINE w == snapshots[1].by
           m == [worker[w] EXCEPT !.at = "over"]
<1>1. /\ snapshots # <<>> /\ snapshots \in Seq(ShotType)
      /\ worker \in [Workers -> Download!Requests]
  BY DEF DownloadInv, RunTypes, Download!TypeOK, Download!PersistFails
<1>2. w \in Workers /\ Head(snapshots) = snapshots[1]
  BY <1>1, ShotsMove DEF ShotType
<1>3. worker' = [worker EXCEPT ![w] = m]
  BY <1>1, <1>2 DEF Download!PersistFails
<1>4. m \in Download!Requests
  BY <1>1, <1>2, RequestMoves
<1>5. m.at = "over" /\ m.part = worker[w].part
  BY <1>1, <1>2 DEF Download!Requests
<1> HIDE DEF m
<1>6. failure' = failure \/ failure' \in {"changed", "broken"}
  BY DEF Download!PersistFails
<1> QED
  BY <1>1, <1>3, <1>4, <1>5, <1>6, ShotLeaves DEF Download!PersistFails, Download!files

\* The run begins where the sidecar says.
LEMMA ResumeKeeps ==
  ASSUME DownloadInv, Download!Resume
  PROVE  DownloadInv'
<1>1. RunTypes /\ SidecarTrue /\ Quiet
  BY DEF DownloadInv, RunInv, Download!Resume
<1>2. /\ sidecar # None /\ written # None
      /\ sidecar.etag \in Versions /\ sidecar.done \subseteq Download!Parts
  BY <1>1 DEF Download!Resume, Download!Usable, RunTypes, Download!TypeOK, Download!Sidecars
<1>3. RunTypes' /\ SidecarTrue'
  BY <1>1, <1>2
  DEF Download!Resume, Download!files, Download!faults, RunTypes, SidecarTrue, Download!TypeOK
<1>4. FirstInv' /\ PinnedInv' /\ SnapshotsInv' /\ PartsInv'
  BY <1>1, <1>2
  DEF Download!Resume, Download!files, SidecarTrue, Quiet, FirstInv, PinnedInv, SnapshotsInv,
      PartsInv, Download!Failures
<1>5. \A w \in Workers : WorkerInv(w)'
  BY <1>1 DEF Download!Resume, Quiet, Download!Resting, WorkerInv, Busy
<1> QED
  BY <1>3, <1>4, <1>5 DEF Download!Resume, DownloadInv, RunInv

\* The run begins with the lone first request.
LEMMA StartOverKeeps ==
  ASSUME DownloadInv, Download!StartOver
  PROVE  DownloadInv'
<1> DEFINE m == [Download!Resting EXCEPT !.at = "ask", !.part = 0]
<1>1. RunTypes /\ Quiet
  BY DEF DownloadInv, RunInv, Download!StartOver
<1>2. 0 \in Download!Parts
  BY SMT DEF Download!Parts
<1>3. \A v \in Workers : worker[v] = Download!Resting /\ worker[v].part = None
  BY <1>1 DEF Quiet, Download!Resting
<1>4. worker' = [worker EXCEPT ![Lead] = m] /\ worker \in [Workers -> Download!Requests]
  BY <1>1 DEF Download!StartOver, RunTypes, Download!TypeOK
<1>5. \A v \in Workers : worker[v] \in Download!Requests
  BY <1>4
<1>6. m \in Download!Requests /\ m.at = "ask" /\ m.part = 0 /\ m.failures = 0
  BY <1>2, <1>5, RequestMoves
<1> HIDE DEF m
<1>7. worker'[Lead] = m /\ \A v \in Workers : v # Lead => worker'[v] = Download!Resting
  BY <1>3, <1>4
<1>8. /\ worker' \in [Workers -> Download!Requests]
      /\ \A u, v \in Workers :
           u # v /\ worker'[u].part = worker'[v].part => worker'[u].part = None
  BY <1>1, <1>2, <1>3, <1>4, <1>5, <1>6, PartsAreNumbers, WorkerMoved DEF RunTypes
<1>9. written' \in Download!Contents /\ written' # None /\ onDisk' = written' /\ sidecar' = None
  BY DEF Download!StartOver, Download!Contents
<1>10. RunTypes' /\ SidecarTrue'
  BY <1>1, <1>8, <1>9
  DEF Download!StartOver, Download!faults, RunTypes, SidecarTrue, Quiet, Download!TypeOK
<1>11. FirstInv' /\ PinnedInv' /\ SnapshotsInv'
  BY <1>1, <1>7, <1>9 DEF Download!StartOver, Quiet, FirstInv, PinnedInv, SnapshotsInv
<1>12. PartsInv'
  BY <1>1, <1>6, <1>7 DEF Download!StartOver, Quiet, PartsInv, Busy, Download!Failures
<1>13. \A w \in Workers : WorkerInv(w)'
  <2>1. 0 < PartAttempts
    BY SMT
  <2> QED
    BY <1>1, <1>2, <1>6, <1>7, <2>1
    DEF Download!StartOver, Quiet, Download!Resting, WorkerInv, Busy
<1> QED
  BY <1>10, <1>11, <1>12, <1>13 DEF Download!StartOver, DownloadInv, RunInv

\* The one stream takes the place of the first request.
LEMMA StreamInsteadKeeps ==
  ASSUME DownloadInv, Download!StreamInstead
  PROVE  DownloadInv'
<1>1. RunTypes /\ RunInv
  BY DEF DownloadInv
<1>2. /\ sidecar = None /\ done = {}
      /\ \A w \in Workers \ {Lead} : worker[w] = Download!Resting
  BY <1>1 DEF Download!StreamInstead, RunInv, FirstInv, PinnedInv
<1>3. Download!Resting \in Download!Requests /\ worker \in [Workers -> Download!Requests]
  BY <1>1, RequestMoves DEF RunTypes, Download!TypeOK
<1>4. \A w \in Workers : worker'[w] = Download!Resting
  BY <1>2, <1>3 DEF Download!StreamInstead
<1>5. Download!Resting.at = "rest" /\ Download!Resting.part = None
  BY DEF Download!Resting
<1>6. snapshots = <<>>
  <2>1. snapshots # <<>> =>
          /\ 1 \in DOMAIN snapshots /\ snapshots[1].by \in Workers
          /\ worker[snapshots[1].by].at = "persist"
    BY <1>1, ShotsMove DEF RunTypes, RunInv, SnapshotsInv, ShotType
  <2> QED
    BY <1>2, <1>5, <2>1 DEF Download!StreamInstead
<1>7. RunTypes' /\ SidecarTrue'
  <2>1. /\ worker' \in [Workers -> Download!Requests]
        /\ \A u, v \in Workers :
             u # v /\ worker'[u].part = worker'[v].part => worker'[u].part = None
    BY <1>3, <1>4, <1>5 DEF Download!StreamInstead
  <2> QED
    BY <1>1, <1>2, <2>1
    DEF Download!StreamInstead, Download!faults, RunTypes, SidecarTrue, Download!TypeOK
<1>8. Still' /\ FirstInv' /\ PinnedInv' /\ SnapshotsInv'
  BY <1>4, <1>5, <1>6 DEF Download!StreamInstead, Still, FirstInv, PinnedInv, SnapshotsInv
<1>9. PartsInv'
  BY <1>1 DEF Download!StreamInstead, RunInv, PartsInv
<1>10. \A w \in Workers : WorkerInv(w)'
  BY <1>4, <1>5 DEF WorkerInv, Busy
<1> QED
  BY <1>7, <1>8, <1>9, <1>10 DEF Download!StreamInstead, DownloadInv, RunInv

\* When all parts are done, the file is whole and of the pinned version.
LEMMA RunWholeKeeps ==
  ASSUME DownloadInv, Download!RunWhole
  PROVE  DownloadInv'
<1>1. RunTypes /\ SidecarTrue /\ RunInv /\ Still
  BY OverIsStill DEF DownloadInv, Download!RunWhole
<1>2. done = Download!Parts
  <2>1. done \subseteq Download!Parts
    BY <1>1 DEF RunTypes, Download!TypeOK
  <2>2. \A w \in Workers : worker[w].at \notin Busy
    BY <1>1 DEF Still, Busy
  <2> QED
    BY <1>1, <2>1, <2>2 DEF Download!RunWhole, Download!Aborted, RunInv, PartsInv
<1>3. RunTypes' /\ SidecarTrue'
  BY <1>1 DEF Download!RunWhole, Download!run, Download!faults, RunInv, RunTypes, SidecarTrue,
              Download!TypeOK
<1>4. Still' /\ FirstInv' /\ PinnedInv' /\ SnapshotsInv'
  BY <1>1 DEF Download!RunWhole, Download!run, RunInv, Still, FirstInv, PinnedInv, SnapshotsInv
<1>5. PartsInv'
  BY <1>1, <1>2 DEF Download!RunWhole, Download!run, Download!Aborted, RunInv, PartsInv
<1>6. \A w \in Workers : WorkerInv(w)'
  BY <1>1 DEF Download!RunWhole, Download!run, RunInv, WorkerInv
<1> QED
  BY <1>3, <1>4, <1>5, <1>6 DEF Download!RunWhole, DownloadInv, RunInv

LEMMA RunFailsKeeps ==
  ASSUME DownloadInv, Download!RunFails
  PROVE  DownloadInv'
<1>1. RunTypes /\ SidecarTrue /\ RunInv /\ Still
  BY OverIsStill DEF DownloadInv, Download!RunFails
<1>2. CASE failure = "broken"
  BY <1>1, <1>2, ForgetKeeps
  DEF Download!RunFails, Download!files, Download!faults, SidecarTrue, RunTypes, Download!TypeOK
<1>3. CASE failure # "broken"
  <2>1. phase' = "discard" /\ UNCHANGED <<object, Download!files, refused, Download!run>>
    BY <1>3 DEF Download!RunFails
  <2>2. RunTypes' /\ SidecarTrue'
    BY <1>1, <2>1 DEF Download!files, Download!run, RunTypes, SidecarTrue, Download!TypeOK
  <2>3. Still' /\ FirstInv' /\ PinnedInv' /\ SnapshotsInv'
    BY <1>1, <2>1 DEF Download!files, Download!run, RunInv, Still, FirstInv, PinnedInv, SnapshotsInv
  <2>4. PartsInv'
    BY <1>1, <2>1 DEF Download!RunFails, Download!run, RunInv, PartsInv
  <2>5. \A w \in Workers : WorkerInv(w)'
    BY <1>1, <2>1 DEF Download!files, Download!run, RunInv, WorkerInv
  <2> QED
    BY <2>1, <2>2, <2>3, <2>4, <2>5 DEF DownloadInv, RunInv
<1> QED
  BY <1>2, <1>3

\* The digest is that of another version: then another one was pinned.
LEMMA MismatchKeeps ==
  ASSUME DownloadInv, Download!Mismatch
  PROVE  DownloadInv'
<1>1. RunTypes /\ SidecarTrue /\ RunInv /\ Still
  BY DEF DownloadInv, RunInv, Download!Mismatch
<1>2. etag # Wanted
  BY <1>1 DEF Download!Mismatch, RunInv, PinnedInv, PartsInv
<1>3. RunTypes' /\ SidecarTrue'
  BY <1>1 DEF Download!Mismatch, Download!files, Download!faults, RunTypes, SidecarTrue,
              Download!TypeOK, Download!Failures
<1>4. Still' /\ FirstInv' /\ PinnedInv' /\ SnapshotsInv'
  BY <1>1 DEF Download!Mismatch, Download!files, RunInv, Still, FirstInv, PinnedInv, SnapshotsInv
<1>5. PartsInv'
  BY <1>2 DEF Download!Mismatch, PartsInv
<1>6. \A w \in Workers : WorkerInv(w)'
  BY <1>1 DEF Download!Mismatch, Download!files, RunInv, WorkerInv
<1> QED
  BY <1>3, <1>4, <1>5, <1>6 DEF Download!Mismatch, DownloadInv, RunInv

\* Steps that take the files away, outside of a run.
LEMMA FilesGoKeeps ==
  ASSUME DownloadInv, Download!Place \/ Download!DiscardPartial
  PROVE  DownloadInv'
<1>1. RunTypes /\ SidecarTrue /\ RunInv /\ Still
  BY DEF DownloadInv, RunInv, Download!Place, Download!DiscardPartial
<1>2. /\ written' = None /\ onDisk' = None /\ phase' \in {"placed", "discard"}
      /\ ready' \in BOOLEAN /\ (failure = "mismatch" => phase' = phase)
      /\ UNCHANGED <<object, sidecar, refused, Download!run>>
  BY <1>1 DEF Download!Place, Download!DiscardPartial, Download!faults, RunTypes, RunInv, PartsInv,
              Download!TypeOK
<1>3. RunTypes' /\ SidecarTrue'
  BY <1>1, <1>2 DEF Download!run, RunTypes, SidecarTrue, Download!TypeOK
<1>4. Still' /\ FirstInv' /\ PinnedInv' /\ SnapshotsInv'
  BY <1>1, <1>2 DEF Download!run, RunInv, Still, FirstInv, PinnedInv, SnapshotsInv
<1>5. PartsInv'
  BY <1>1, <1>2 DEF Download!run, RunInv, PartsInv
<1>6. \A w \in Workers : WorkerInv(w)'
  BY <1>1, <1>2 DEF Download!run, RunInv, Still, WorkerInv, Busy
<1> QED
  BY <1>2, <1>3, <1>4, <1>5, <1>6 DEF DownloadInv, RunInv

\* The call begins, and an object is replaced in storage.
LEMMA OutsideKeeps ==
  ASSUME DownloadInv, Download!Begin \/ Download!Replace
  PROVE  DownloadInv'
<1>1. RunTypes /\ SidecarTrue /\ RunInv
  BY DEF DownloadInv
<1>2. /\ object' \in Versions /\ UNCHANGED <<Download!run, Download!files, refused>>
      /\ (phase' = phase \/ (phase = "idle" /\ phase' = "open"))
  BY <1>1 DEF Download!Begin, Download!Replace, RunTypes, Download!TypeOK
<1>3. RunTypes' /\ SidecarTrue'
  BY <1>1, <1>2 DEF Download!run, Download!files, RunTypes, SidecarTrue, Download!TypeOK
<1>4. /\ phase' \in {"idle", "open"} => Quiet'
      /\ phase' \notin {"first", "parts"} => Still'
  BY <1>1, <1>2 DEF Download!run, RunInv, Quiet, Still
<1>5. FirstInv' /\ PinnedInv' /\ SnapshotsInv'
  BY <1>1, <1>2 DEF Download!run, Download!files, RunInv, FirstInv, PinnedInv, SnapshotsInv
<1>6. PartsInv'
  BY <1>1, <1>2 DEF Download!run, RunInv, PartsInv
<1>7. \A w \in Workers : WorkerInv(w)'
  BY <1>1, <1>2 DEF Download!run, Download!files, RunInv, WorkerInv
<1> QED
  BY <1>3, <1>4, <1>5, <1>6, <1>7 DEF DownloadInv, RunInv

\* The steps that end a run, or the pod.
LEMMA EndsKeep ==
  ASSUME DownloadInv,
         Download!StreamEnds \/ Download!StreamBreaks \/ Download!DropSidecar \/ Download!Discarded
  PROVE  DownloadInv'
<1>1. RunTypes /\ SidecarTrue
  BY DEF DownloadInv
<1>2. phase' \in {"idle", "open"} /\ Download!Forget
  BY DEF Download!StreamEnds, Download!StreamBreaks, Download!DropSidecar, Download!Discarded
<1>3. /\ object' \in Versions /\ UNCHANGED <<written, onDisk>>
      /\ sidecar' \in {sidecar, None} /\ {ready', refused'} \subseteq BOOLEAN
  BY <1>1 DEF Download!StreamEnds, Download!StreamBreaks, Download!DropSidecar, Download!Discarded,
              Download!files, Download!faults, RunTypes, Download!TypeOK
<1> QED
  BY <1>1, <1>2, <1>3, ForgetKeeps DEF RunTypes, Download!TypeOK, SidecarTrue

\* What a crash leaves of a part is what was there or what was written; of a part that
\* is recorded, both are the whole part.
LEMMA CrashKeeps ==
  ASSUME DownloadInv, Download!Crash
  PROVE  DownloadInv'
<1>1. RunTypes /\ SidecarTrue
  BY DEF DownloadInv
<1>2. CASE written = None
  <2>1. written' = None /\ onDisk' = None
    BY <1>2 DEF Download!Crash
  <2> QED
    BY <1>1, <2>1, ForgetKeeps DEF Download!Crash, SidecarTrue, RunTypes, Download!TypeOK
<1>3. CASE written # None
  <2>1. /\ written \in Download!Contents /\ onDisk \in Download!Contents
        /\ object' \in Versions /\ sidecar' = sidecar /\ sidecar \in Download!Sidecars \cup {None}
        /\ {ready', refused'} \subseteq BOOLEAN
    BY <1>1, <1>3 DEF Download!Crash, RunTypes, Download!TypeOK
  <2> DEFINE C == {written[p] : p \in Download!Parts} \cup {onDisk[p] : p \in Download!Parts}
  <2>2. /\ onDisk' \in [Download!Parts -> C] /\ written' = onDisk'
        /\ \A p \in Download!Parts : onDisk'[p] \in {written[p], onDisk[p]}
    BY <1>3 DEF Download!Crash
  <2>3. C \subseteq Versions \cup {Hole, Torn}
    BY <2>1 DEF Download!Contents
  <2> HIDE DEF C
  <2>4. onDisk' \in Download!Contents /\ onDisk' # None
    <3>1. onDisk' \in [Download!Parts -> Versions \cup {Hole, Torn}]
      BY <2>2, <2>3
    <3> QED
      BY <3>1 DEF Download!Contents
  <2>5. SidecarTrue'
    BY <1>1, <1>3, <2>1, <2>2 DEF SidecarTrue, Download!Sidecars
  <2> QED
    BY <2>1, <2>2, <2>4, <2>5, ForgetKeeps DEF Download!Crash
<1> QED
  BY <1>2, <1>3

LEMMA DownloadHolds ==
  ASSUME DownloadInv, Download!Next
  PROVE  DownloadInv'
  BY AnsweredKeeps, RefusedKeeps, ReceivedKeeps, BrokenKeeps, AbandonKeeps, TakeKeeps, SyncKeeps,
     PersistKeeps, PersistFailsKeeps, ResumeKeeps, StartOverKeeps, StreamInsteadKeeps,
     RunWholeKeeps, RunFailsKeeps, MismatchKeeps, FilesGoKeeps, OutsideKeeps, EndsKeep, CrashKeeps
  DEF Download!Next, Download!Advance, Download!Step

LEMMA DownloadBegins ==
  ASSUME Download!Init
  PROVE  DownloadInv
<1>1. worker = [w \in Workers |-> Download!Resting] /\ Download!Resting \in Download!Requests
  <2>1. [at |-> "rest", part |-> None, body |-> None, failures |-> 0] \in Download!Requests
    <3>1. 0 \in 0..PartAttempts
      BY SMT
    <3> QED
      BY <3>1 DEF Download!Requests
  <2> QED
    BY <2>1 DEF Download!Init, Download!Resting
<1>2. Download!Resting.part = None /\ Download!Resting.at = "rest"
  BY DEF Download!Resting
<1>3. RunTypes /\ SidecarTrue
  <2>1. /\ worker \in [Workers -> Download!Requests]
        /\ \A u, v \in Workers :
             u # v /\ worker[u].part = worker[v].part => worker[u].part = None
    BY <1>1, <1>2
  <2>2. snapshots \in Seq(ShotType)
    BY EmptySeq DEF Download!Init
  <2> QED
    BY <2>1, <2>2 DEF Download!Init, RunTypes, SidecarTrue, Download!TypeOK
<1>4. Quiet /\ Still /\ FirstInv /\ PinnedInv /\ SnapshotsInv
  BY <1>1, <1>2 DEF Download!Init, Quiet, Still, FirstInv, PinnedInv, SnapshotsInv
<1>5. PartsInv /\ \A w \in Workers : WorkerInv(w)
  BY <1>1, <1>2 DEF Download!Init, PartsInv, WorkerInv, Busy, Download!Failures
<1> QED
  BY <1>3, <1>4, <1>5 DEF Download!Init, DownloadInv, RunInv

LEMMA DownloadRests ==
  ASSUME DownloadInv, UNCHANGED downloadVars
  PROVE  DownloadInv'
  BY DEF DownloadInv, downloadVars, RunTypes, Download!TypeOK, SidecarTrue, RunInv, Quiet, Still,
         FirstInv, PinnedInv, SnapshotsInv, PartsInv, WorkerInv

-----------------------------------------------------------------------------
\* In every behaviour of the bootstrap, whatever is lost, broken, replaced or resumed, the
\* parts that count as finished are on disk and of the one version the sidecar pins.
THEOREM DumpIsNeverSpliced == AllSpec => []DumpOfOneVersion
<1>1. AllInit => DownloadInv
  BY DownloadBegins DEF AllInit
<1>2. DownloadInv /\ [ImportStep \/ DownloadStep]_<<part, vars, downloadVars>> => DownloadInv'
  BY DownloadHolds, DownloadRests DEF ImportStep, DownloadStep
<1>3. DownloadInv => DumpOfOneVersion
  BY DEF DownloadInv, SidecarTrue, RunTypes, DumpOfOneVersion, Download!NeverSpliced,
         Download!TypeOK, Download!Sidecars
<1> QED
  BY <1>1, <1>2, <1>3, PTL DEF AllSpec

\* No step of the bootstrap records an integrity failure for the version that was wanted,
\* or replaces the record of finished parts by a smaller one of the same download.
THEOREM ProgressIsKept == AllSpec => DownloadKeepsProgress
<1>1. AllInit => DownloadInv
  BY DownloadBegins DEF AllInit
<1>2. DownloadInv /\ [ImportStep \/ DownloadStep]_<<part, vars, downloadVars>> => DownloadInv'
  BY DownloadHolds, DownloadRests DEF ImportStep, DownloadStep
<1> DEFINE Cause == refused' /\ ~refused => etag # Wanted
           Kept == sidecar # None /\ sidecar' # None =>
                     sidecar'.etag = sidecar.etag /\ sidecar.done \subseteq sidecar'.done
<1>3. DownloadInv /\ [ImportStep \/ DownloadStep]_<<part, vars, downloadVars>>
        => [Cause]_Download!vars
  <2> SUFFICES ASSUME DownloadInv, Download!Next PROVE Cause
    BY DEF ImportStep, DownloadStep, downloadVars, Download!vars, Download!run, Download!files,
           Download!faults
  <2>1. PartsInv
    BY DEF DownloadInv, RunInv
  <2> QED
    BY <2>1
    DEF Download!Next, Download!Advance, Download!Step, PartsInv,
        Download!Begin, Download!Resume, Download!StartOver, Download!StreamInstead,
        Download!StreamEnds, Download!StreamBreaks, Download!Take, Download!Answered,
        Download!Refused, Download!Received, Download!Broken, Download!Sync, Download!Persist,
        Download!PersistFails, Download!Abandon, Download!RunWhole, Download!RunFails,
        Download!Place, Download!DropSidecar, Download!Mismatch, Download!DiscardPartial,
        Download!Discarded, Download!Replace, Download!Crash
<1>4. DownloadInv /\ [ImportStep \/ DownloadStep]_<<part, vars, downloadVars>>
        => [Kept]_Download!vars
  <2> SUFFICES ASSUME DownloadInv, Download!Next PROVE Kept
    BY DEF ImportStep, DownloadStep, downloadVars, Download!vars, Download!run, Download!files,
           Download!faults
  <2>1. CASE Download!Persist
    <3>1. snapshots # <<>> /\ 1 \in DOMAIN snapshots
      BY <2>1 DEF Download!Persist, Download!NextSnapshots
    <3>2. sidecar' = [etag |-> snapshots[1].etag, done |-> snapshots[1].done]
      BY <2>1 DEF Download!Persist, Download!NextSnapshots
    <3>3. /\ snapshots[1].etag = etag
          /\ sidecar # None => sidecar.done \subseteq snapshots[1].done
      BY <3>1 DEF DownloadInv, RunInv, SnapshotsInv
    <3>4. phase \in {"first", "parts"}
      BY <3>1 DEF DownloadInv, RunInv, Still
    <3>5. sidecar # None => sidecar.etag = etag
      BY <3>4 DEF DownloadInv, RunInv, PinnedInv
    <3> QED
      BY <3>2, <3>3, <3>5
  <2>2. CASE ~Download!Persist
    <3>1. sidecar' = sidecar \/ sidecar' = None
      BY <2>2
      DEF Download!Next, Download!Advance, Download!Step, Download!files,
          Download!Begin, Download!Resume, Download!StartOver, Download!StreamInstead,
          Download!StreamEnds, Download!StreamBreaks, Download!Take, Download!Answered,
          Download!Refused, Download!Received, Download!Broken, Download!Sync,
          Download!PersistFails, Download!Abandon, Download!RunWhole, Download!RunFails,
          Download!Place, Download!DropSidecar, Download!Mismatch, Download!DiscardPartial,
          Download!Discarded, Download!Replace, Download!Crash
    <3> QED
      BY <3>1
  <2> QED
    BY <2>1, <2>2
<1> QED
  BY <1>1, <1>2, <1>3, <1>4, PTL
  DEF AllSpec, DownloadKeepsProgress, Download!RefusedForCause, Download!ProgressKept

=============================================================================
