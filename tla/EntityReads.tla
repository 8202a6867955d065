---------------------------- MODULE EntityReads ----------------------------
(***************************************************************************)
(* The entity index between the chain that writes and the requests that    *)
(* read: the node applies transactions, the projector folds the operations *)
(* of stored blocks, and a client walks through the pages of a query.      *)
(*                                                                         *)
(* A request reads the projection head first and the versions in a second  *)
(* statement; a fold may commit between the two.  The client reads one     *)
(* thing at a time, since reads do not disturb each other.                 *)
(***************************************************************************)
EXTENDS EntityFold

CONSTANTS
  Owners, AttributeValues,   \* who may own an entity, what an attribute may be set to
  Contents,   \* the transactions a block may hold: sequences of operations
  Genesis,    \* the genesis entities, as versions: [Keys -> version or None]
  Queries,    \* a query: the name of an attribute that must be set, or None
  PageSize,
  Gone, Rejected,   \* an entity deleted; an operation the node refuses
  MaxBlock    \* bound: the length of the chain

Kinds      == {"create", "patch", "extend", "transfer", "delete"}
Attributes == [Names -> AttributeValues \cup {None}]
Places     == Nat \X Nat \X Nat
Cell       == [name : Names, value : AttributeValues \cup {None}]
Expiries   == 0..MaxExpiry

\* What is stored of an operation, and what its log tells.
Operation ==
  {o \in [kind : Kinds, key : Keys, sender : Owners, newOwner : Owners \cup {None},
          cells : Seq(Cell), expires : Nat, lifetime : Nat] : o.kind = "transfer" => o.newOwner # None}
Event == [kind : Kinds, key : Keys, expires : Expiries]

\* An entity as the node has it, and a version of it in the index.
State == [owner : Owners, expires : Expiries, attributes : Attributes, created : Places]
Version ==
  [from : Nat, to : Nat \cup {None}, deleted : BOOLEAN, owner : Owners, created : Places,
   expires : Expiries, attributes : Attributes]

\* A request that has resolved its block, what a cursor says, and a history of pages.
Call   == [query : Queries, block : Nat, atHead : BOOLEAN, after : Places \cup {None}]
Cursor == [query : Queries, block : Nat, after : Places]
Walk   == [query : Queries, block : Nat, pinned : BOOLEAN, seen : Seq(State)]

ReadsAssumption ==
  /\ MaxBlock \in Nat /\ MaxExpiry \in Nat /\ PageSize \in Nat \ {0}
  /\ IsFiniteSet(Keys)
  /\ Queries \subseteq Names \cup {None}
  /\ Contents \subseteq Seq(Operation)
  /\ Genesis \in [Keys -> Version \cup {None}]
  /\ \A k \in Keys : Genesis[k] # None =>
       /\ Genesis[k].from = 0 /\ Genesis[k].to = None /\ ~Genesis[k].deleted
       /\ Genesis[k].created[1] = 0
       /\ \A l \in Keys \ {k} : Genesis[l] # None => Genesis[l].created # Genesis[k].created
  /\ None \notin Nat /\ None \notin Places /\ None \notin Version /\ None \notin Event
  /\ None \notin Call /\ None \notin Cursor /\ None \notin Walk
  /\ None # Gone /\ Rejected \notin {None, Gone} /\ {None, Gone, Rejected} \cap State = {}
  /\ Rejected \notin [Keys -> State \cup {None, Gone}]

VARIABLES
  head, txs,     \* the chain: its height and its transactions
  node,          \* the chain: each block's entities
  versions,      \* index: the versions of each key
  projected,     \* index: projectedThroughBlock
  call,          \* a request that has resolved its block
  cursor,        \* what the client holds to go on with
  walk,          \* history: what the pages have said so far
  asOf, shown    \* the state of one entity: the head read, the version shown

chain  == <<head, txs, node>>
index  == <<versions, projected>>
paging == <<call, cursor, walk>>
vars == <<head, txs, node, versions, projected, call, cursor, walk, asOf, shown>>

-----------------------------------------------------------------------------
(* The node (external). *)

Entity(v) == [owner |-> v.owner, expires |-> v.expires, attributes |-> v.attributes,
              created |-> v.created]

\* What an operation leaves of an entity, or Rejected.
Engine(e, op, block, at) ==
  LET expires == resolveRequestedExpiry(block, op.expires, op.lifetime)
      live    == e # None /\ e # Gone /\ e.expires > block
      mine    == live /\ e.owner = op.sender
  IN  CASE op.kind = "create" /\ e = None ->
             [owner |-> op.sender, expires |-> expires, created |-> at,
              attributes |-> [n \in Names |->
                 LET set == {i \in DOMAIN op.cells : op.cells[i].name = n}
                 IN  IF set = {} THEN None ELSE op.cells[Max(set)].value]]
        [] op.kind = "patch" /\ mine ->
             [e EXCEPT !.attributes = [n \in Names |->
                 LET set == {i \in DOMAIN op.cells : op.cells[i].name = n}
                 IN  IF set = {} THEN @[n] ELSE op.cells[Max(set)].value]]
        [] op.kind = "extend" /\ live -> [e EXCEPT !.expires = expires]
        [] op.kind = "transfer" /\ mine -> [e EXCEPT !.owner = op.newOwner]
        [] op.kind = "delete" /\ mine -> Gone
        [] OTHER -> Rejected

\* The entities after a transaction, operation by operation.
Execute(entities, ops, block, t) ==
  FoldLeft(LAMBDA s, i :
             IF s = Rejected THEN s
             ELSE LET e == Engine(s[ops[i].key], ops[i], block, <<block, t, i>>)
                  IN  IF e = Rejected THEN e ELSE [s EXCEPT ![ops[i].key] = e],
           entities, [i \in DOMAIN ops |-> i])

\* One event per operation; its data is what the engine decided.
Events(ops, block) ==
  [i \in DOMAIN ops |->
    [kind |-> ops[i].kind, key |-> ops[i].key,
     expires |-> resolveRequestedExpiry(block, ops[i].expires, ops[i].lifetime)]]

\* A block is mined and scanned; the logs of its transaction may not be stored.
MineBlock ==
  /\ head < MaxBlock
  /\ head' = head + 1
  /\ \E ops \in Contents, logged \in BOOLEAN :
       LET after == Execute(node[head], ops, head + 1, Len(txs) + 1)
           ok    == after # Rejected
       IN  /\ node' = [b \in 0..head + 1 |->
                IF b <= head THEN node[b] ELSE IF ok THEN after ELSE node[head]]
           /\ txs' = Append(txs, [block |-> head + 1, ok |-> ok, ops |-> ops,
                logs |-> IF ok /\ logged THEN Events(ops, head + 1) ELSE << >>])
  /\ UNCHANGED <<index, paging, asOf, shown>>

-----------------------------------------------------------------------------
(* The projector. *)

\* foldChunk: the keys touched since are folded anew, with the head, at once.
Fold ==
  /\ projected < head
  /\ \E through \in (projected + 1)..head :
       /\ projected' = through
       /\ LET touched == {tx \in {txs[t] : t \in DOMAIN txs} :
                            projected < tx.block /\ tx.block <= through}
              keys == {k \in Keys : \E tx \in touched :
                                      \E i \in DOMAIN tx.ops : tx.ops[i].key = k}
          IN  versions' = [k \in Keys |->
                IF k \in keys THEN refold(txs, k, through, versions[k]) ELSE versions[k]]
  /\ UNCHANGED <<chain, paging, asOf, shown>>

-----------------------------------------------------------------------------
(* arkiv_query. *)

\* resolveBlock: the head when no block is asked for, else one not above it.
Resolve(query, requested, after) ==
  /\ call = None
  /\ requested # None => requested <= projected
  /\ call' = [query |-> query,
              block |-> IF requested = None THEN projected ELSE requested,
              atHead |-> requested \in {None, projected},
              after |-> after]

FirstPage ==
  /\ \E query \in Queries, requested \in (0..head) \cup {None} :
       Resolve(query, requested, None)
  /\ asOf = None
  /\ walk' = None /\ cursor' = None /\ shown' = None
  /\ UNCHANGED <<chain, index, asOf>>

\* decodeCursor: a cursor goes on only with its own query and block.
Resumes(query, block) == cursor # None /\ cursor.query = query /\ cursor.block = block

NextPage ==
  /\ \E query \in Queries, block \in 0..head :
       Resumes(query, block) /\ Resolve(query, block, cursor.after)
  /\ cursor' = None
  /\ UNCHANGED <<chain, index, walk, asOf, shown>>

\* Mutant of liveFilter: the head's answer may show what came after it.
liveFilterLeaking(v, block, atHead) ==
  /\ IF atHead THEN v.to = None
     ELSE v.from <= block /\ (v.to # None => v.to > block)
  /\ ~v.deleted /\ v.expires > block

\* The version of a key that is live at the block; at the head, the last one.
liveFilter(v, block, atHead) ==
  /\ v.from <= block
  /\ IF atHead THEN v.to = None ELSE v.to # None => v.to > block
  /\ ~v.deleted /\ v.expires > block

Selected(query, v) == query = None \/ v.attributes[query] # None

Matching(c) ==
  {v \in UNION {{versions[k][i] : i \in DOMAIN versions[k]} : k \in Keys} :
     /\ liveFilter(v, c.block, c.atHead) /\ Selected(c.query, v)
     /\ c.after # None => Earlier(c.after, v.created)}

\* Some versions in creation order.
InOrder(S) ==
  CHOOSE s \in [1..Cardinality(S) -> S] :
    \A i, j \in DOMAIN s : i < j => Earlier(s[i].created, s[j].created)

\* queryEntities: one page in creation order, and a cursor when there is more.
Answer ==
  /\ call # None
  /\ LET rows == InOrder(Matching(call))
         more == Len(rows) > PageSize
         page == IF more THEN SubSeq(rows, 1, PageSize) ELSE rows
         told == IF walk = None
                 THEN [query |-> call.query, block |-> call.block, pinned |-> TRUE, seen |-> << >>]
                 ELSE walk
     IN  /\ cursor' = IF more THEN [query |-> call.query, block |-> call.block,
                                    after |-> Last(page).created]
                      ELSE None
         /\ walk' = [told EXCEPT !.pinned = @ /\ ~call.atHead,
                                 !.seen = @ \o [i \in DOMAIN page |-> Entity(page[i])]]
  /\ call' = None
  /\ UNCHANGED <<chain, index, asOf, shown>>

-----------------------------------------------------------------------------
(* GET /entity/<key>: the state of one entity. *)

ReadProgress ==
  /\ asOf = None /\ call = None
  /\ asOf' = projected
  /\ walk' = None /\ cursor' = None /\ shown' = None
  /\ UNCHANGED <<chain, index, call>>

\* getLatestVersion, whatever state it is in.
ReadLatest ==
  /\ asOf # None
  /\ \E k \in Keys : versions[k] # << >> /\
       shown' = [key |-> k, asOf |-> asOf, version |-> Last(versions[k])]
  /\ asOf' = None
  /\ UNCHANGED <<chain, index, paging>>

-----------------------------------------------------------------------------
Init ==
  /\ head = 0 /\ txs = << >>
  /\ node = [b \in {0} |-> [k \in Keys |->
       IF Genesis[k] = None THEN None ELSE Entity(Genesis[k])]]
  /\ versions = [k \in Keys |-> IF Genesis[k] = None THEN << >> ELSE <<Genesis[k]>>]
  /\ projected = 0
  /\ call = None /\ cursor = None /\ walk = None
  /\ asOf = None /\ shown = None

Next ==
  \/ MineBlock \/ Fold
  \/ FirstPage \/ NextPage \/ Answer
  \/ ReadProgress \/ ReadLatest

Spec == Init /\ [][Next]_vars

-----------------------------------------------------------------------------
\* The entities live at a block, as the node has them.
LiveAt(block) ==
  {k \in Keys : /\ node[block][k] # None /\ node[block][k] # Gone
                /\ node[block][k].expires > block}

\* Types of the variables.
TypeOK ==
  /\ head \in 0..MaxBlock /\ Len(txs) = head
  /\ DOMAIN node = 0..head
  /\ \A k \in Keys : \A i \in DOMAIN versions[k] :
       /\ versions[k][i].from \in 0..head
       /\ versions[k][i].to \in (0..head) \cup {None}
       /\ versions[k][i].expires \in 0..MaxExpiry
  /\ projected \in 0..head
  /\ call # None => call.block \in 0..projected
  /\ cursor # None => cursor.block \in 0..projected
  /\ walk # None => walk.block \in 0..projected
  /\ asOf \in (0..head) \cup {None}

\* "A query evaluated atBlock a past block sees exactly what was live then":
\* at every projected block the versions that are live are the node's entities,
\* whether the logs were stored or not, and however the folds were cut.
FoldIsNode ==
  \A block \in 0..projected :
    UNION {{[key |-> k, entity |-> Entity(v)] : v \in
        {versions[k][i] : i \in {j \in DOMAIN versions[k] :
                                  liveFilter(versions[k][j], block, FALSE)}}} : k \in Keys}
      = {[key |-> k, entity |-> node[block][k]] : k \in LiveAt(block)}

\* "The n-th operation of a kind pairs with the n-th event of that kind": where
\* the logs are stored, every operation finds the event it emitted, also when
\* operations on other entities sit in between.
EventsFound ==
  \A t \in DOMAIN txs : txs[t].logs # << >> =>
    \A i \in DOMAIN txs[t].ops : attachEvents(txs[t], i) = txs[t].logs[i]

\* Every entity in an answer is live at the block the answer names, in the
\* state it had there, and no entity comes twice or out of order, over all the
\* pages and whatever is folded between two of them.
NothingLeaks ==
  walk # None =>
    /\ \A i \in DOMAIN walk.seen :
         \E k \in LiveAt(walk.block) : walk.seen[i] = node[walk.block][k]
    /\ \A i, j \in DOMAIN walk.seen :
         i < j => Earlier(walk.seen[i].created, walk.seen[j].created)

\* What an answer for a block has to list.
Listed(query, block) ==
  {node[block][k] : k \in {l \in LiveAt(block) :
     query = None \/ node[block][l].attributes[query] # None}}

\* A walk is over when the last page came without a cursor.
Finished == walk # None /\ call = None /\ cursor = None

Missing == Listed(walk.query, walk.block) \ {walk.seen[i] : i \in DOMAIN walk.seen}

\* A walk through the pages of a block below the head leaves nothing out.
PinnedComplete == Finished /\ walk.pinned => Missing = {}

\* "blockNumber in every reply says which block answered": neither does an
\* answer for the head.
HeadComplete == Finished => Missing = {}

\* The state shown is never older than the head it is said to be as of.
StateNotBehind ==
  shown # None =>
    \A i \in DOMAIN versions[shown.key] :
      versions[shown.key][i].from <= shown.asOf
        => ~Earlier(<<shown.version.from, 0, 0>>, <<versions[shown.key][i].from, 0, 0>>)
=============================================================================
