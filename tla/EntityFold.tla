----------------------------- MODULE EntityFold -----------------------------
(***************************************************************************)
(* How the entity index turns stored operations into versions: the rows of *)
(* a key's transactions, paired with the receipt logs, replayed in order   *)
(* on top of the genesis state.                                            *)
(*                                                                         *)
(* A transaction is a record [block, ok, ops, logs].  Attribute values     *)
(* and owners are abstract; the decoding of words is left out.       *)
(***************************************************************************)
EXTENDS Integers, Sequences, FiniteSets, FiniteSetsExt, SequencesExt, Folds

CONSTANTS
  None,
  Keys,       \* entity keys
  Names,      \* attribute names
  MaxExpiry   \* PERMANENT_EXPIRY: 2^64 - 1

NoAttributes == [n \in Names |-> None]

\* max(expiresAt, block + minLifetime), capped.
resolveRequestedExpiry(block, expires, lifetime) ==
  Min({Max({expires, block + lifetime}), MaxExpiry})

\* compareOps: a place on the chain, [block, transaction, operation], before another.
Earlier(p, q) ==
  \/ p[1] < q[1]
  \/ p[1] = q[1] /\ p[2] < q[2]
  \/ p[1] = q[1] /\ p[2] = q[2] /\ p[3] < q[3]

\* attachEventsToOps: the n-th operation of a kind in the transaction and the
\* n-th log of that kind belong together, unless their keys disagree.
attachEvents(tx, i) ==
  LET kind == tx.ops[i].kind
      rank(rows, j) == Cardinality({h \in 1..j : rows[h].kind = kind})
      nth == {l \in DOMAIN tx.logs :
                tx.logs[l].kind = kind /\ rank(tx.logs, l) = rank(tx.ops, i)}
  IN  IF \E l \in nth : tx.logs[l].key = tx.ops[i].key
      THEN tx.logs[CHOOSE l \in nth : TRUE] ELSE None

\* Mutant of Applied: what a reverted transaction asked for is applied too.
AppliedOrNot(tx) == TRUE

\* Only a transaction that succeeded changed anything.
Applied(tx) == tx.ok

\* An operation as it is loaded: with its place on the chain and its event.
Row(txs, t, i) ==
  [op |-> txs[t].ops[i], block |-> txs[t].block, at |-> <<txs[t].block, t, i>>,
   event |-> attachEvents(txs[t], i)]

\* loadEntityOps: the operations on a key up to a block.
loadEntityOps(txs, key, through) ==
  UNION {{Row(txs, t, i) : i \in {j \in DOMAIN txs[t].ops : txs[t].ops[j].key = key}} :
           t \in {u \in DOMAIN txs : Applied(txs[u]) /\ txs[u].block <= through}}

\* Cell by cell in calldata order; a tombstone (None) unsets.
applyAttributes(attributes, cells) ==
  FoldLeft(LAMBDA a, c : [a EXCEPT ![c.name] = c.value], attributes, cells)

\* The event's expiry when the logs are stored, else the calldata's.
resolveExpiry(r) ==
  IF r.event # None THEN r.event.expires
  ELSE resolveRequestedExpiry(r.block, r.op.expires, r.op.lifetime)

FirstVersion(r) ==
  [from |-> r.block, to |-> None, deleted |-> FALSE,
   owner |-> r.op.sender, created |-> r.at, expires |-> resolveExpiry(r),
   attributes |-> applyAttributes(NoAttributes, r.op.cells)]

\* What an operation makes of the version before it.
NextVersion(v, r) ==
  LET base == [v EXCEPT !.from = r.block, !.to = None]
  IN  CASE r.op.kind = "patch"    -> [base EXCEPT !.attributes = applyAttributes(@, r.op.cells)]
        [] r.op.kind = "extend"   -> [base EXCEPT !.expires = resolveExpiry(r)]
        [] r.op.kind = "transfer" -> [base EXCEPT !.owner = r.op.newOwner]
        [] r.op.kind = "delete"   -> [base EXCEPT !.deleted = TRUE]

\* A new version closes the one before it.
Push(versions, v) ==
  Append([i \in DOMAIN versions |-> IF i = Len(versions)
                                    THEN [versions[i] EXCEPT !.to = v.from]
                                    ELSE versions[i]], v)

\* One step of foldEntityVersions.
Replay(versions, r) ==
  IF versions = << >>
  THEN IF r.op.kind = "create" THEN <<FirstVersion(r)>> ELSE versions
  ELSE IF Last(versions).deleted \/ r.op.kind = "create" THEN versions
  ELSE Push(versions, NextVersion(Last(versions), r))

Latest(records) == CHOOSE r \in records : \A q \in records : ~Earlier(r.at, q.at)

\* The records in chain order, one after the other.
foldEntityVersions(records, base) ==
  MapThenFoldSet(LAMBDA r, versions : Replay(versions, r), base, LAMBDA r : r, Latest, records)

\* loadGenesisBases: version 0, when it is valid from block 0 on, opened again.
GenesisBase(versions) ==
  IF versions # << >> /\ Head(versions).from = 0
  THEN <<[Head(versions) EXCEPT !.to = None]>> ELSE << >>

\* refoldEntities, for one key: its versions are replaced.
refold(txs, key, through, versions) ==
  foldEntityVersions(loadEntityOps(txs, key, through), GenesisBase(versions))
=============================================================================
