----------------------- MODULE Baseload_proofs -----------------------
(***************************************************************************)
(* What a worker of the load generator pays and what it makes of its       *)
(* batches, for every cap, tip and number of bumps, every set of base      *)
(* fees, and any number of tasks, batches and faults.                      *)
(*                                                                         *)
(* The nonce of a batch is chosen once, so that its copies differ in their *)
(* fees only and at most one of them is mined.  A task that is done with a *)
(* batch leaves no copy it knows of with the node: the nonce is spent.     *)
(***************************************************************************)
EXTENDS Baseload, FiniteSetTheorems, TLAPS

Fresh == {"nonce", "send"}             \* begun, and not yet sent
Waits == {"wait", "check", "bump"}
Over == {"idle", "finished"}           \* done with its batch

Slots == 0..MaxBatches + MaxFaults
Sent == Transactions \ {None}

\* What a task holds of its batch.
TaskInv(t) ==
  /\ task[t].pc \in Fresh \cup Waits => task[t].batch # None
  /\ task[t].batch # None => task[t].batch <= begun /\ task[t].pc # "unborn"
  /\ task[t].nextNonce # None => task[t].nextNonce <= latest
  /\ task[t].pc \in Waits \cup {"send"} => task[t].nonce # None /\ task[t].nonce <= latest
  /\ task[t].pc \in Waits => task[t].fees # None
  /\ task[t].pc \in Fresh => task[t].bumps = 0

\* The hashes it was told of: those of this batch are the ones it keeps, and their
\* nonce is its own; that of an earlier batch is spent.
KnownInv(t) ==
  /\ \A tx \in known[t] :
       /\ task[t].batch # None /\ tx.batch <= task[t].batch
       /\ \/ tx.nonce < latest
          \/ /\ tx.nonce = task[t].nonce /\ tx.batch = task[t].batch
             /\ task[t].pc \in Waits \cup {"finished"}
  /\ task[t].pc \in Fresh => \A tx \in known[t] : tx.batch # task[t].batch
  /\ task[t].pc \in Waits =>
       ToSet(task[t].sent) = {tx \in known[t] : tx.batch = task[t].batch}
  /\ task[t].pc \in Waits =>
       \A tx \in known[t] : tx.batch = task[t].batch => tx.nonce = task[t].nonce

\* A transaction that reached the node, and the task whose batch it is.
SentInv(tx) ==
  /\ tx.batch <= begun /\ tx.max <= Cap /\ tx.tip <= tx.max
  /\ \A t \in Tasks :
       task[t].batch = tx.batch =>
         /\ task[t].pc \notin Fresh
         /\ task[t].pc \in Waits =>
              /\ tx.nonce = task[t].nonce
              /\ tx.max <= task[t].fees.max /\ tx.tip <= task[t].fees.tip

TasksInv == \A t \in Tasks : TaskInv(t) /\ KnownInv(t)
NoTwice == \A t, u \in Tasks : t # u /\ task[t].batch # None => task[t].batch # task[u].batch
AllSentInv == \A tx \in Sent : SentInv(tx)
OneNonce == \A tx, ty \in Sent : tx.batch = ty.batch => tx.nonce = ty.nonce
PoolInv == \A n \in Slots : pool[n] # None => pool[n].nonce = n /\ n >= latest
MinedInv == \A i \in 1..latest : mined[i].tx # None => mined[i].tx.nonce = i - 1

\* Every nonce is spent by a batch of its own or by somebody else.
MinedBatches ==
  {b \in Batches : \E i \in 1..latest : mined[i].tx # None /\ mined[i].tx.batch = b}
SpentInv == latest <= Cardinality(MinedBatches) + faults

CountedInv ==
  \A b \in counted :
    \E i \in 1..latest : mined[i].ok /\ mined[i].tx # None /\ mined[i].tx.batch = b

\* A batch given up is behind its task, and the copies the task knows of have lost.
GaveUpInv ==
  \A g \in gaveUp :
    /\ task[g[1]].batch # None /\ g[2] <= task[g[1]].batch
    /\ g[2] = task[g[1]].batch => task[g[1]].pc \in Over
    /\ \A tx \in known[g[1]] : tx.batch = g[2] => tx.nonce < latest
    /\ \A i \in 1..latest : mined[i].tx \in known[g[1]] => mined[i].tx.batch # g[2]

Node == AllSentInv /\ OneNonce /\ PoolInv /\ MinedInv /\ SpentInv
IInv ==
  TypeOK /\ TasksInv /\ NoTwice /\ Node /\ CountedInv /\ GaveUpInv /\ NeverUnderpriced

-----------------------------------------------------------------------------
LEMMA SentTypes ==
  ASSUME TypeOK
  PROVE  Sent \subseteq TransactionType /\ latest \in Nat
<1>1. \A n \in Slots : pool[n] \in TransactionType \cup {None}
  BY DEF TypeOK, Slots
<1>2. DOMAIN pool = Slots /\ DOMAIN mined = 1..latest /\ latest \in Nat
  BY DEF TypeOK, Slots, latest
<1>3. \A i \in 1..latest : mined[i].tx \in TransactionType \cup {None}
  <2> DEFINE Entries == [tx : TransactionType \cup {None}, ok : BOOLEAN]
  <2>1. mined \in Seq(Entries)
    BY DEF TypeOK
  <2>2. \A e \in Entries : e.tx \in TransactionType \cup {None}
    OBVIOUS
  <2> HIDE DEF Entries
  <2> QED
    BY <2>1, <2>2 DEF latest
<1> QED
  BY <1>1, <1>2, <1>3 DEF Sent, Transactions

LEMMA SentAre ==
  ASSUME TypeOK
  PROVE  /\ \A n \in Slots : pool[n] # None => pool[n] \in Sent
         /\ \A i \in 1..latest : mined[i].tx # None => mined[i].tx \in Sent
<1>1. DOMAIN pool = Slots /\ DOMAIN mined = 1..latest
  BY DEF TypeOK, Slots, latest
<1> QED
  BY <1>1 DEF Sent, Transactions

LEMMA InitHolds == ASSUME BaseloadAssumption, Init PROVE IInv
<1>1. /\ mined = << >> /\ latest = 0 /\ begun = 0 /\ counted = {} /\ gaveUp = {} /\ faults = 0
      /\ pool = [n \in Slots |-> None] /\ task = [t \in Tasks |-> NoTask]
      /\ known = [t \in Tasks |-> {}] /\ underpriced = FALSE
  BY DEF Init, Slots, latest
<1>2. NoTask \in TaskType /\ Len(NoTask.sent) = 0
  BY DEF BaseloadAssumption, NoTask, TaskType
<1>3. TypeOK
  <2>1. /\ baseFee \in BaseFees /\ moves \in 0..MaxMoves /\ faults \in 0..MaxFaults
        /\ current \in 0..MaxTasks /\ begun \in 0..MaxBatches
    BY DEF Init, BaseloadAssumption
  <2>2. \A t \in Tasks : Len(task[t].sent) <= task[t].bumps + 1
    BY <1>1, <1>2 DEF NoTask
  <2>3. /\ mined \in Seq([tx : TransactionType \cup {None}, ok : BOOLEAN])
        /\ pool \in [Slots -> TransactionType \cup {None}]
        /\ known \in [Tasks -> SUBSET TransactionType] /\ task \in [Tasks -> TaskType]
    BY <1>1, <1>2
  <2> QED
    BY <1>1, <2>1, <2>2, <2>3 DEF TypeOK, Slots
<1>4. Sent = {}
  BY <1>1 DEF Sent, Transactions, Slots
<1>5. TasksInv /\ NoTwice
  BY <1>1 DEF TasksInv, TaskInv, KnownInv, NoTwice, NoTask, Fresh, Waits
<1>6. SpentInv
  <2>1. MinedBatches = {}
    BY <1>1 DEF MinedBatches
  <2> QED
    BY <1>1, <2>1, FS_EmptySet DEF SpentInv
<1>7. Node
  BY <1>1, <1>4, <1>6 DEF Node, AllSentInv, OneNonce, PoolInv, MinedInv
<1> QED
  BY <1>1, <1>3, <1>5, <1>7 DEF IInv, CountedInv, GaveUpInv, NeverUnderpriced

-----------------------------------------------------------------------------
(* What the steps have in common. *)

\* One task moves.
Only(t) ==
  /\ task' \in [Tasks -> TaskType]
  /\ \A u \in Tasks : u # t => task'[u] = task[u]

\* It stays with its batch, keeps what it holds of it, and rests only when that is spent.
Goes(t) ==
  /\ Only(t)
  /\ task'[t].batch = task[t].batch
  /\ task'[t].pc \in Fresh => task[t].pc \in Fresh
  /\ task'[t].pc \in Waits =>
       /\ task[t].pc \in Waits /\ task'[t].nonce = task[t].nonce
       /\ task'[t].sent = task[t].sent /\ task'[t].fees # None
       /\ task[t].fees.max <= task'[t].fees.max /\ task[t].fees.tip <= task'[t].fees.tip
  /\ task'[t].pc = "finished" => task'[t].nonce = task[t].nonce
  /\ task'[t].pc = "idle" /\ task[t].pc \in Waits => task[t].nonce < latest
  /\ task[t].pc = "finished" => task'[t].pc = "finished"
  /\ task'[t].pc \notin Over => task[t].pc \notin Over
  /\ task'[t].pc # "unborn" \/ task[t].pc = "unborn"

\* The last conjunct of GaveUpInv, for one batch.
GivenUp(g) ==
  /\ task[g[1]].batch # None /\ g[2] <= task[g[1]].batch
  /\ g[2] = task[g[1]].batch => task[g[1]].pc \in Over
  /\ \A tx \in known[g[1]] : tx.batch = g[2] => tx.nonce < latest
  /\ \A i \in 1..latest : mined[i].tx \in known[g[1]] => mined[i].tx.batch # g[2]

LEMMA GaveUpIs == GaveUpInv <=> \A g \in gaveUp : GivenUp(g)
  BY DEF GaveUpInv, GivenUp

\* The node's side is as it was.
LEMMA NodeStays ==
  ASSUME BaseloadAssumption, IInv, NEW t \in Tasks, Goes(t),
         UNCHANGED <<pool, mined, begun>>, faults' \in Int, faults' >= faults
  PROVE  Node'
<1>1. Sent' = Sent /\ latest' = latest /\ MinedBatches' = MinedBatches
  BY DEF Sent, Transactions, latest, MinedBatches
<1>2. TypeOK /\ Sent \subseteq TransactionType
  BY SentTypes DEF IInv
<1>3. AllSentInv'
  <2> SUFFICES ASSUME NEW tx \in Sent PROVE SentInv(tx)'
    BY <1>1 DEF AllSentInv
  <2>1. SentInv(tx)
    BY DEF IInv, Node, AllSentInv
  <2>2. ASSUME NEW u \in Tasks, task'[u].batch = tx.batch
        PROVE  /\ task'[u].pc \notin Fresh
               /\ task'[u].pc \in Waits =>
                    /\ tx.nonce = task'[u].nonce
                    /\ tx.max <= task'[u].fees.max /\ tx.tip <= task'[u].fees.tip
    <3>1. CASE u # t
      BY <2>1, <2>2, <3>1 DEF SentInv, Goes, Only
    <3>2. CASE u = t
      <4>1. task[t].batch = tx.batch
        BY <2>2, <3>2 DEF Goes
      <4>2. task'[t].pc \notin Fresh
        BY <2>1, <4>1 DEF SentInv, Goes
      <4>3. ASSUME task'[t].pc \in Waits
            PROVE  /\ tx.nonce = task'[t].nonce
                   /\ tx.max <= task'[t].fees.max /\ tx.tip <= task'[t].fees.tip
        <5>1. /\ tx.nonce = task[t].nonce
              /\ tx.max <= task[t].fees.max /\ tx.tip <= task[t].fees.tip
              /\ task[t].pc \in Waits
          BY <2>1, <4>1, <4>3 DEF SentInv, Goes
        <5>2. /\ task[t].fees.max <= task'[t].fees.max /\ task[t].fees.tip <= task'[t].fees.tip
              /\ task'[t].nonce = task[t].nonce /\ task'[t].fees # None
          BY <4>3 DEF Goes
        <5>3. task[t].fees # None
          BY <5>1 DEF IInv, TasksInv, TaskInv
        <5>4. task[t].fees \in FeesType /\ task'[t].fees \in FeesType
          BY <1>2, <5>2, <5>3 DEF TypeOK, TaskType, Goes, Only
        <5>5. tx.max \in Nat /\ tx.tip \in Nat
          BY <1>2 DEF TransactionType
        <5> QED
          BY <5>1, <5>2, <5>4, <5>5, SMT DEF FeesType
      <4> QED
        BY <3>2, <4>2, <4>3
    <3> QED
      BY <3>1, <3>2
  <2> QED
    BY <2>1, <2>2 DEF SentInv
<1>4. SpentInv'
  <2>1. MinedBatches \subseteq Batches /\ IsFiniteSet(Batches)
    <3>1. 1 \in Int /\ MaxBatches \in Int
      BY DEF BaseloadAssumption
    <3>2. IsFiniteSet(1..MaxBatches)
      BY <3>1, FS_Interval
    <3> QED
      BY <3>2 DEF MinedBatches, Batches
  <2>2. Cardinality(MinedBatches) \in Nat /\ latest \in Nat /\ faults \in Nat
    BY <2>1, FS_Subset, FS_CardinalityType, SentTypes, <1>2 DEF TypeOK
  <2>3. latest <= Cardinality(MinedBatches) + faults
    BY DEF IInv, Node, SpentInv
  <2> HIDE DEF MinedBatches, latest
  <2>4. latest <= Cardinality(MinedBatches) + faults'
    BY <2>2, <2>3, SMT
  <2> QED
    BY <1>1, <2>4 DEF SpentInv
<1> QED
  BY <1>1, <1>3, <1>4 DEF IInv, Node, OneNonce, PoolInv, MinedInv

\* And so are the tasks' accounts.
LEMMA TaskGoes ==
  ASSUME BaseloadAssumption, IInv, NEW t \in Tasks, Goes(t), TaskInv(t)',
         UNCHANGED <<pool, mined, begun, known>>
  PROVE  TasksInv' /\ NoTwice' /\ \A g \in gaveUp : GivenUp(g)'
<1>1. latest' = latest /\ known' = known /\ mined' = mined /\ begun' = begun /\ TypeOK
  BY DEF latest, IInv
<1>2. ASSUME NEW u \in Tasks, u # t PROVE (TaskInv(u) /\ KnownInv(u))'
  <2>1. TaskInv(u) /\ KnownInv(u) /\ task'[u] = task[u]
    BY <1>2 DEF IInv, TasksInv, Goes, Only
  <2> HIDE DEF latest
  <2>2. TaskInv(u)'
    BY <1>1, <2>1 DEF TaskInv
  <2>3. KnownInv(u)'
    BY <1>1, <2>1 DEF KnownInv
  <2> QED
    BY <2>2, <2>3
<1>3. KnownInv(t)'
  <2>1. KnownInv(t)
    BY DEF IInv, TasksInv
  <2>2. ASSUME NEW tx \in known[t]
        PROVE  /\ task'[t].batch # None /\ tx.batch <= task'[t].batch
               /\ \/ tx.nonce < latest
                  \/ /\ tx.nonce = task'[t].nonce /\ tx.batch = task'[t].batch
                     /\ task'[t].pc \in Waits \cup {"finished"}
    <3>1. task'[t].batch = task[t].batch /\ task[t].batch # None /\ tx.batch <= task[t].batch
      BY <2>1, <2>2 DEF Goes, KnownInv
    <3>2. CASE tx.nonce < latest
      BY <3>1, <3>2
    <3>3. CASE /\ tx.nonce = task[t].nonce /\ tx.batch = task[t].batch
               /\ task[t].pc \in Waits \cup {"finished"}
      <4>1. task'[t].pc \in {"idle", "finished"} \cup Waits \cup Fresh \cup {"unborn"}
        BY DEF Goes, Only, TaskType, Fresh, Waits
      <4>2. CASE task'[t].pc \in Fresh
        BY <3>1, <3>3, <4>2 DEF Goes, Fresh, Waits
      <4>3. CASE task'[t].pc = "idle"
        BY <3>1, <3>3, <4>3 DEF Goes, Waits
      <4>4. CASE task'[t].pc \in Waits \cup {"finished"}
        BY <3>1, <3>3, <4>4 DEF Goes
      <4>5. task'[t].pc # "unborn"
        BY <3>3 DEF Goes, Waits
      <4> QED
        BY <4>1, <4>2, <4>3, <4>4, <4>5
    <3> QED
      BY <2>1, <2>2, <3>2, <3>3 DEF KnownInv
  <2>3. task'[t].pc \in Fresh => \A tx \in known[t] : tx.batch # task'[t].batch
    BY <2>1 DEF KnownInv, Goes
  <2>4. task'[t].pc \in Waits =>
          /\ ToSet(task'[t].sent) = {tx \in known[t] : tx.batch = task'[t].batch}
          /\ \A tx \in known[t] : tx.batch = task'[t].batch => tx.nonce = task'[t].nonce
    BY <2>1 DEF KnownInv, Goes
  <2> QED
    BY <1>1, <2>2, <2>3, <2>4 DEF KnownInv
<1>4. TasksInv'
  BY <1>2, <1>3 DEF TasksInv
<1>5. NoTwice'
  BY DEF IInv, NoTwice, Goes, Only
<1>6. ASSUME NEW g \in gaveUp PROVE GivenUp(g)'
  <2>1. GivenUp(g) /\ g[1] \in Tasks
    BY <1>1, GaveUpIs DEF IInv, TypeOK
  <2>2. task'[g[1]].batch = task[g[1]].batch
    BY <2>1 DEF Goes, Only
  <2>3. task[g[1]].pc \in Over => task'[g[1]].pc \in Over
    BY <2>1 DEF Goes, Only, Over
  <2> QED
    BY <1>1, <2>1, <2>2, <2>3 DEF GivenUp
<1> QED
  BY <1>4, <1>5, <1>6

\* No nonce lies beyond what the pool of the model holds.
LEMMA InSlots ==
  ASSUME BaseloadAssumption, IInv
  PROVE  latest \in Slots /\ \A n \in Nat : n <= latest => n \in Slots
<1>1. MinedBatches \subseteq Batches /\ IsFiniteSet(Batches) /\ Cardinality(Batches) = MaxBatches
  BY FS_Interval, SMT DEF MinedBatches, Batches, BaseloadAssumption
<1>2. /\ Cardinality(MinedBatches) \in Nat /\ Cardinality(MinedBatches) <= MaxBatches
      /\ IsFiniteSet(MinedBatches)
  BY <1>1, FS_Subset, FS_CardinalityType
<1>3. latest \in Nat /\ faults \in 0..MaxFaults /\ MaxFaults \in Nat /\ MaxBatches \in Nat
  BY SentTypes DEF IInv, TypeOK, BaseloadAssumption
<1>4. latest <= Cardinality(MinedBatches) + faults
  BY DEF IInv, Node, SpentInv
<1> HIDE DEF MinedBatches, latest
<1>5. latest <= MaxBatches + MaxFaults
  BY <1>2, <1>3, <1>4, SMT
<1> QED
  BY <1>3, <1>5, SMT DEF Slots

\* A transaction of a task's batch is taken by the node, and the task is told or not.
Sends(t, tx) ==
  /\ Only(t) /\ TaskInv(t)'
  /\ task[t].pc \in {"send", "bump"} /\ task'[t].batch = task[t].batch
  /\ task'[t].pc = "wait" \/ (task'[t].pc = "idle" /\ task[t].pc = "send" /\ known' = known)
  /\ task'[t].pc = "wait" =>
       /\ task'[t].nonce = task[t].nonce
       /\ task'[t].fees.max = tx.max /\ task'[t].fees.tip = tx.tip
       /\ ToSet(task'[t].sent) = {x \in known'[t] : x.batch = task[t].batch}
  /\ task[t].pc = "bump" => task[t].fees.max <= tx.max /\ task[t].fees.tip <= tx.tip
  /\ tx \in TransactionType /\ tx.nonce = task[t].nonce /\ tx.batch = task[t].batch
  /\ tx.max <= Cap /\ tx.tip <= tx.max
  /\ Accepts(tx) /\ pool' = [pool EXCEPT ![tx.nonce] = tx]
  /\ known' = known \/ known' = [known EXCEPT ![t] = @ \cup {tx}]
  /\ UNCHANGED <<mined, begun>> /\ faults' \in Int /\ faults' >= faults

LEMMA SendKeeps ==
  ASSUME BaseloadAssumption, IInv, NEW t \in Tasks, \E tx \in TransactionType : Sends(t, tx)
  PROVE  Node' /\ TasksInv' /\ NoTwice' /\ \A g \in gaveUp : GivenUp(g)'
<1> PICK tx \in TransactionType : Sends(t, tx)
  OBVIOUS
<1>1. TypeOK /\ Sent \subseteq TransactionType /\ latest \in Nat
  BY SentTypes DEF IInv
<1>2. /\ latest' = latest /\ mined' = mined /\ begun' = begun /\ MinedBatches' = MinedBatches
      /\ \A u \in Tasks : u # t => task'[u] = task[u]
      /\ task'[t].batch = task[t].batch
  BY DEF Sends, Only, latest, MinedBatches
<1>3. /\ TaskInv(t) /\ KnownInv(t) /\ task[t].batch # None /\ task[t].nonce # None
      /\ task[t].nonce <= latest /\ task[t].pc \in {"send", "bump"} /\ task[t].batch <= begun
  BY DEF Sends, IInv, TasksInv, TaskInv, Waits, Fresh
<1>4. task \in [Tasks -> TaskType] /\ tx.nonce \in Slots /\ tx.nonce \in Nat /\ tx \in TransactionType
  <2>1. task \in [Tasks -> TaskType]
    BY <1>1 DEF TypeOK
  <2>2. tx.nonce \in Nat /\ tx.nonce <= latest
    BY <1>3 DEF Sends, TransactionType
  <2> QED
    BY <2>1, <2>2, InSlots
<1>5. /\ tx.nonce = task[t].nonce /\ tx.batch = task[t].batch /\ tx.nonce >= latest
      /\ \A n \in Slots : pool'[n] = IF n = tx.nonce THEN tx ELSE pool[n]
      /\ DOMAIN pool = Slots /\ DOMAIN pool' = Slots
  BY <1>1, <1>4 DEF Sends, TypeOK, Slots, Accepts
<1>6. Sent' \subseteq Sent \cup {tx}
  BY <1>2, <1>5 DEF Sent, Transactions
<1>7. \A x \in Sent : x.batch = tx.batch =>
        task[t].pc = "bump" /\ x.nonce = tx.nonce /\ x.max <= tx.max /\ x.tip <= tx.tip
  <2> SUFFICES ASSUME NEW x \in Sent, x.batch = tx.batch
               PROVE  task[t].pc = "bump" /\ x.nonce = tx.nonce /\ x.max <= tx.max /\ x.tip <= tx.tip
    OBVIOUS
  <2>1. SentInv(x)
    BY DEF IInv, Node, AllSentInv
  <2>2. /\ task[t].pc = "bump" /\ x.nonce = task[t].nonce
        /\ x.max <= task[t].fees.max /\ x.tip <= task[t].fees.tip
    BY <1>3, <1>5, <2>1 DEF SentInv, Fresh, Waits
  <2>3. task[t].fees.max <= tx.max /\ task[t].fees.tip <= tx.tip
    BY <2>2 DEF Sends
  <2>4. task[t].fees \in FeesType
    BY <1>3, <1>4, <2>2 DEF TaskInv, Waits, TaskType
  <2>5. x.max \in Nat /\ x.tip \in Nat /\ tx.max \in Nat /\ tx.tip \in Nat
    BY <1>1 DEF TransactionType
  <2> QED
    BY <1>5, <2>2, <2>3, <2>4, <2>5, SMT DEF FeesType
<1>8. AllSentInv'
  <2> SUFFICES ASSUME NEW x \in Sent \cup {tx} PROVE SentInv(x)'
    BY <1>6 DEF AllSentInv
  <2>1. x.batch <= begun /\ x.max <= Cap /\ x.tip <= x.max
    BY <1>3, <1>5 DEF IInv, Node, AllSentInv, SentInv, Sends
  <2>2. ASSUME NEW u \in Tasks, u # t, task'[u].batch = x.batch
        PROVE  /\ task'[u].pc \notin Fresh
               /\ task'[u].pc \in Waits =>
                    /\ x.nonce = task'[u].nonce
                    /\ x.max <= task'[u].fees.max /\ x.tip <= task'[u].fees.tip
    <3>1. x # tx
      BY <1>2, <1>3, <1>5, <2>2 DEF IInv, NoTwice
    <3> QED
      BY <1>2, <2>2, <3>1 DEF IInv, Node, AllSentInv, SentInv
  <2>3. ASSUME task'[t].batch = x.batch
        PROVE  /\ task'[t].pc \notin Fresh
               /\ task'[t].pc \in Waits =>
                    /\ x.nonce = task'[t].nonce
                    /\ x.max <= task'[t].fees.max /\ x.tip <= task'[t].fees.tip
    <3>1. x.nonce = tx.nonce /\ x.max <= tx.max /\ x.tip <= tx.tip
      <4>1. tx.max <= tx.max /\ tx.tip <= tx.tip
        BY DEF TransactionType
      <4> QED
        BY <1>2, <1>5, <1>7, <2>3, <4>1
    <3>2. task'[t].pc \in {"wait", "idle"}
      BY DEF Sends
    <3>3. task'[t].pc \notin Fresh /\ (task'[t].pc \in Waits => task'[t].pc = "wait")
      BY <3>2 DEF Fresh, Waits
    <3> QED
      BY <1>5, <3>1, <3>3 DEF Sends
  <2> QED
    BY <1>2, <2>1, <2>2, <2>3 DEF SentInv
<1>9. OneNonce'
  BY <1>6, <1>7 DEF IInv, Node, OneNonce
<1>10. PoolInv'
  BY <1>2, <1>5 DEF IInv, Node, PoolInv
<1>11. SpentInv'
  <2>1. MinedBatches \subseteq Batches /\ IsFiniteSet(Batches)
    <3>1. 1 \in Int /\ MaxBatches \in Int
      BY DEF BaseloadAssumption
    <3>2. IsFiniteSet(1..MaxBatches)
      BY <3>1, FS_Interval
    <3> QED
      BY <3>2 DEF MinedBatches, Batches
  <2>2. Cardinality(MinedBatches) \in Nat /\ faults \in Nat /\ faults' \in Int /\ faults' >= faults
    BY <1>1, <2>1, FS_Subset, FS_CardinalityType DEF TypeOK, Sends
  <2>3. latest <= Cardinality(MinedBatches) + faults
    BY DEF IInv, Node, SpentInv
  <2> HIDE DEF MinedBatches, latest
  <2>4. latest <= Cardinality(MinedBatches) + faults'
    BY <1>1, <2>2, <2>3, SMT
  <2> QED
    BY <1>2, <2>4 DEF SpentInv
<1>12. Node'
  BY <1>2, <1>8, <1>9, <1>10, <1>11 DEF IInv, Node, MinedInv
<1>13. known'[t] = known[t] \/ (known'[t] = known[t] \cup {tx} /\ task'[t].pc = "wait")
  <2>1. known \in [Tasks -> SUBSET TransactionType]
    BY <1>1 DEF TypeOK
  <2>2. task'[t].pc = "wait" \/ known' = known
    BY DEF Sends
  <2>3. known' = known \/ known' = [known EXCEPT ![t] = @ \cup {tx}]
    BY DEF Sends
  <2> QED
    BY <2>1, <2>2, <2>3
<1>14. \A u \in Tasks : u # t => known'[u] = known[u]
  <2>1. known \in [Tasks -> SUBSET TransactionType]
    BY <1>1 DEF TypeOK
  <2> QED
    BY <2>1 DEF Sends
<1>15. ASSUME NEW u \in Tasks, u # t PROVE (TaskInv(u) /\ KnownInv(u))'
  <2>1. TaskInv(u) /\ KnownInv(u) /\ task'[u] = task[u] /\ known'[u] = known[u]
    BY <1>2, <1>14, <1>15 DEF IInv, TasksInv
  <2> HIDE DEF latest
  <2>2. TaskInv(u)'
    BY <1>2, <2>1 DEF TaskInv
  <2>3. KnownInv(u)'
    BY <1>2, <2>1 DEF KnownInv
  <2> QED
    BY <2>2, <2>3
<1>16. KnownInv(t)'
  <2> HIDE DEF latest
  <2>1. task'[t].pc \in {"wait", "idle"} /\ task'[t].pc \notin Fresh
    BY DEF Sends, Fresh
  <2>2. ASSUME NEW x \in known'[t]
        PROVE  /\ task'[t].batch # None /\ x.batch <= task'[t].batch
               /\ \/ x.nonce < latest
                  \/ /\ x.nonce = task'[t].nonce /\ x.batch = task'[t].batch
                     /\ task'[t].pc \in Waits \cup {"finished"}
               /\ task'[t].pc \in Waits /\ x.batch = task'[t].batch => x.nonce = task'[t].nonce
    <3>1. CASE x \in known[t]
      <4>1. /\ x.batch <= task[t].batch
            /\ \/ x.nonce < latest
               \/ x.nonce = task[t].nonce /\ x.batch = task[t].batch /\ task[t].pc \in Waits
        BY <1>3, <3>1 DEF KnownInv
      <4>2. CASE task[t].pc = "send"
        BY <1>2, <1>3, <3>1, <4>1, <4>2 DEF KnownInv, Waits, Fresh
      <4>3. CASE task[t].pc = "bump"
        <5>1. task'[t].pc = "wait" /\ task'[t].nonce = task[t].nonce
          BY <4>3 DEF Sends
        <5>2. x.batch = task[t].batch => x.nonce = task[t].nonce
          BY <1>3, <3>1, <4>3 DEF KnownInv, Waits
        <5> QED
          BY <1>2, <1>3, <4>1, <5>1, <5>2 DEF Waits
      <4> QED
        BY <1>3, <4>2, <4>3
    <3>2. CASE x \notin known[t]
      <4>1. x = tx /\ task'[t].pc = "wait" /\ task'[t].nonce = task[t].nonce
        BY <1>13, <2>2, <3>2 DEF Sends
      <4>2. task[t].batch \in Int
        BY <1>3, <1>4 DEF TaskType, Batches
      <4> QED
        BY <1>2, <1>3, <1>5, <4>1, <4>2 DEF Waits
    <3> QED
      BY <3>1, <3>2
  <2>3. task'[t].pc \in Waits => ToSet(task'[t].sent) = {x \in known'[t] : x.batch = task'[t].batch}
    BY <1>2, <2>1 DEF Sends, Waits
  <2> QED
    BY <1>2, <2>1, <2>2, <2>3 DEF KnownInv
<1>17. TasksInv'
  BY <1>15, <1>16 DEF TasksInv, Sends
<1>18. NoTwice'
  BY <1>2 DEF IInv, NoTwice
<1>19. ASSUME NEW g \in gaveUp PROVE GivenUp(g)'
  <2>1. GivenUp(g) /\ g[1] \in Tasks
    BY <1>1, GaveUpIs DEF IInv, TypeOK
  <2> HIDE DEF latest
  <2>2. CASE g[1] # t
    BY <1>2, <1>14, <2>1, <2>2 DEF GivenUp
  <2>3. CASE g[1] = t
    <3>1. tx.batch # g[2] /\ g[2] # task[t].batch
      BY <1>3, <1>5, <2>1, <2>3 DEF GivenUp, Over
    <3> QED
      BY <1>2, <1>13, <2>1, <2>3, <3>1 DEF GivenUp
  <2> QED
    BY <2>2, <2>3
<1> QED
  BY <1>12, <1>17, <1>18, <1>19

\* A nonce is spent: by what the pool holds at it, or by somebody else.
Spends(e) ==
  /\ e \in [tx : TransactionType \cup {None}, ok : BOOLEAN]
  /\ mined' = Append(mined, e) /\ pool' = [pool EXCEPT ![latest] = None]
  /\ \/ e.tx = pool[latest] /\ e.tx # None /\ faults' \in Nat /\ faults' >= faults
     \/ e.tx = None /\ faults' = faults + 1
  /\ UNCHANGED <<task, begun, known>>

LEMMA SpendKeeps ==
  ASSUME BaseloadAssumption, IInv,
         \E e \in [tx : TransactionType \cup {None}, ok : BOOLEAN] : Spends(e)
  PROVE  /\ Node' /\ TasksInv' /\ NoTwice' /\ \A g \in gaveUp : GivenUp(g)'
         /\ latest' = latest + 1 /\ \A i \in 1..latest : mined'[i] = mined[i]
<1> PICK e \in [tx : TransactionType \cup {None}, ok : BOOLEAN] : Spends(e)
  OBVIOUS
<1>1. TypeOK /\ Sent \subseteq TransactionType /\ latest \in Nat /\ latest \in Slots
  BY SentTypes, InSlots DEF IInv
<1>2. task' = task /\ begun' = begun /\ known' = known
  BY DEF Spends
<1>3. /\ latest' = latest + 1 /\ mined'[latest + 1] = e
      /\ \A i \in 1..latest : mined'[i] = mined[i]
      /\ DOMAIN mined = 1..latest /\ DOMAIN mined' = 1..(latest + 1)
  <2> DEFINE Entries == [tx : TransactionType \cup {None}, ok : BOOLEAN]
  <2>1. mined \in Seq(Entries) /\ e \in Entries /\ mined' = Append(mined, e)
    BY <1>1 DEF TypeOK, Spends
  <2> HIDE DEF Entries
  <2> QED
    BY <2>1 DEF latest
<1>4. /\ DOMAIN pool = Slots /\ DOMAIN pool' = Slots
      /\ \A n \in Slots : pool'[n] = IF n = latest THEN None ELSE pool[n]
  BY <1>1 DEF Spends, TypeOK, Slots
<1>5. e.tx # None => e.tx = pool[latest] /\ e.tx \in Sent /\ e.tx.nonce = latest
  BY <1>1, SentAre DEF Spends, IInv, Node, PoolInv
<1>6. Sent' \subseteq Sent
  <2> SUFFICES ASSUME NEW x \in Sent' PROVE x \in Sent
    OBVIOUS
  <2>1. x # None /\ (\/ \E n \in Slots : x = pool'[n]
                     \/ \E i \in 1..(latest + 1) : x = mined'[i].tx)
    BY <1>3, <1>4 DEF Sent, Transactions
  <2> HIDE DEF latest
  <2>2. CASE \E n \in Slots : x = pool'[n]
    BY <1>1, <1>4, <2>1, <2>2, SentAre
  <2>3. CASE \E i \in 1..(latest + 1) : x = mined'[i].tx
    <3>1. PICK i \in 1..(latest + 1) : x = mined'[i].tx
      BY <2>3
    <3>2. CASE i = latest + 1
      BY <1>3, <1>5, <2>1, <3>1, <3>2
    <3>3. CASE i # latest + 1
      <4>1. i \in 1..latest
        BY <1>1, <3>1, <3>3, SMT
      <4> QED
        BY <1>1, <1>3, <2>1, <3>1, <4>1, SentAre
    <3> QED
      BY <3>2, <3>3
  <2> QED
    BY <2>1, <2>2, <2>3
<1> HIDE DEF latest
<1>7. AllSentInv'
  BY <1>2, <1>6 DEF IInv, Node, AllSentInv, SentInv
<1>8. OneNonce'
  BY <1>6 DEF IInv, Node, OneNonce
<1>9. PoolInv'
  <2> SUFFICES ASSUME NEW n \in Slots, pool'[n] # None
               PROVE  pool'[n].nonce = n /\ n >= latest + 1
    BY <1>3 DEF PoolInv
  <2>1. n # latest /\ pool[n] # None /\ pool'[n] = pool[n]
    BY <1>4
  <2>2. pool[n].nonce = n /\ n >= latest
    BY <2>1 DEF IInv, Node, PoolInv
  <2>3. n \in Int
    BY DEF Slots
  <2> QED
    BY <1>1, <2>1, <2>2, <2>3, SMT
<1>10. MinedInv'
  <2> SUFFICES ASSUME NEW i \in 1..(latest + 1), mined'[i].tx # None
               PROVE  mined'[i].tx.nonce = i - 1
    BY <1>3 DEF MinedInv
  <2>1. CASE i = latest + 1
    <3>1. mined'[i].tx.nonce = latest
      BY <1>3, <1>5, <2>1
    <3> QED
      BY <1>1, <2>1, <3>1, SMT
  <2>2. CASE i # latest + 1
    <3>1. i \in 1..latest
      BY <1>1, <2>2, SMT
    <3> QED
      BY <1>3, <3>1 DEF IInv, Node, MinedInv
  <2> QED
    BY <2>1, <2>2
<1>11. SpentInv'
  <2>1. MinedBatches \subseteq Batches /\ IsFiniteSet(Batches) /\ MinedBatches' \subseteq Batches
    <3>1. 1 \in Int /\ MaxBatches \in Int
      BY DEF BaseloadAssumption
    <3>2. IsFiniteSet(1..MaxBatches)
      BY <3>1, FS_Interval
    <3> QED
      BY <3>2 DEF MinedBatches, Batches
  <2>2. /\ IsFiniteSet(MinedBatches) /\ IsFiniteSet(MinedBatches')
        /\ Cardinality(MinedBatches) \in Nat /\ Cardinality(MinedBatches') \in Nat
    BY <2>1, FS_Subset, FS_CardinalityType
  <2>3. latest <= Cardinality(MinedBatches) + faults /\ faults \in Nat
    BY <1>1 DEF IInv, Node, SpentInv, TypeOK
  <2>4. \A i \in 1..latest : i \in 1..(latest + 1)
    BY <1>1, SMT
  <2>5. MinedBatches \subseteq MinedBatches'
    <3> SUFFICES ASSUME NEW b \in MinedBatches PROVE b \in MinedBatches'
      OBVIOUS
    <3>1. b \in Batches
      BY DEF MinedBatches
    <3>2. PICK i \in 1..latest : mined[i].tx # None /\ mined[i].tx.batch = b
      BY DEF MinedBatches
    <3>3. mined'[i].tx # None /\ mined'[i].tx.batch = b /\ i \in 1..(latest + 1)
      BY <1>3, <2>4, <3>2
    <3> QED
      BY <1>3, <3>1, <3>3 DEF MinedBatches
  <2>6. CASE e.tx = None
    <3>1. Cardinality(MinedBatches) <= Cardinality(MinedBatches')
      BY <2>2, <2>5, FS_Subset
    <3>2. faults' = faults + 1
      BY <2>6 DEF Spends
    <3> HIDE DEF MinedBatches
    <3>3. latest + 1 <= Cardinality(MinedBatches') + faults'
      BY <1>1, <2>2, <2>3, <3>1, <3>2, SMT
    <3> QED
      BY <1>3, <3>3 DEF SpentInv
  <2>7. CASE e.tx # None
    <3> DEFINE b == e.tx.batch
    <3>1. e.tx \in Sent /\ e.tx.nonce = latest /\ b \in Batches
      BY <1>1, <1>5, <2>7 DEF TransactionType
    <3>2. b \notin MinedBatches
      <4> SUFFICES ASSUME NEW i \in 1..latest, mined[i].tx # None, mined[i].tx.batch = b
                   PROVE  FALSE
        BY DEF MinedBatches
      <4>1. mined[i].tx \in Sent
        BY <1>1, SentAre
      <4>2. mined[i].tx.nonce = latest
        BY <3>1, <4>1 DEF IInv, Node, OneNonce
      <4>3. mined[i].tx.nonce = i - 1
        BY DEF IInv, Node, MinedInv
      <4> QED
        BY <1>1, <4>2, <4>3, SMT
    <3>3. b \in MinedBatches'
      <4>1. latest + 1 \in 1..(latest + 1)
        BY <1>1, SMT
      <4> QED
        BY <1>3, <2>7, <3>1, <4>1 DEF MinedBatches
    <3>4. Cardinality(MinedBatches \cup {b}) = Cardinality(MinedBatches) + 1
      BY <2>2, <3>2, FS_AddElement
    <3>5. Cardinality(MinedBatches \cup {b}) <= Cardinality(MinedBatches')
      BY <2>2, <2>5, <3>3, FS_Subset
    <3>6. faults' \in Nat /\ faults' >= faults
      BY <2>7 DEF Spends
    <3> HIDE DEF MinedBatches, b
    <3>7. latest + 1 <= Cardinality(MinedBatches') + faults'
      BY <1>1, <2>2, <2>3, <3>4, <3>5, <3>6, SMT
    <3> QED
      BY <1>3, <3>7 DEF SpentInv
  <2> QED
    BY <2>6, <2>7
<1>12. Node'
  BY <1>7, <1>8, <1>9, <1>10, <1>11 DEF Node
<1>13. TypeOK /\ known \in [Tasks -> SUBSET TransactionType] /\ task \in [Tasks -> TaskType]
  BY <1>1 DEF TypeOK
<1>14. ASSUME NEW t \in Tasks PROVE (TaskInv(t) /\ KnownInv(t))'
  <2>1. TaskInv(t) /\ KnownInv(t)
    BY DEF IInv, TasksInv
  <2>2. TaskInv(t)'
    <3>1. /\ task[t].nextNonce # None => task[t].nextNonce \in Nat
          /\ task[t].nonce # None => task[t].nonce \in Nat
      BY <1>13 DEF TaskType
    <3>2. \A n \in Nat : n <= latest => n <= latest + 1
      BY <1>1, SMT
    <3> QED
      BY <1>2, <1>3, <2>1, <3>1, <3>2 DEF TaskInv
  <2>3. KnownInv(t)'
    <3>1. \A x \in known[t] : x.nonce < latest => x.nonce < latest + 1
      BY <1>1, <1>13 DEF TransactionType
    <3> QED
      BY <1>2, <1>3, <2>1, <3>1 DEF KnownInv
  <2> QED
    BY <2>2, <2>3
<1>15. ASSUME NEW g \in gaveUp PROVE GivenUp(g)'
  <2>1. GivenUp(g) /\ g[1] \in Tasks
    BY <1>1, GaveUpIs DEF IInv, TypeOK
  <2>2. \A x \in known[g[1]] : x.batch = g[2] => x.nonce < latest + 1
    BY <1>1, <1>13, <2>1 DEF GivenUp, TransactionType
  <2>3. ASSUME NEW i \in 1..(latest + 1), mined'[i].tx \in known[g[1]]
        PROVE  mined'[i].tx.batch # g[2]
    <3>1. CASE i = latest + 1
      <4>1. e.tx \in known[g[1]]
        BY <1>3, <2>3, <3>1
      <4>2. e.tx # None
        BY <1>13, <2>1, <4>1 DEF BaseloadAssumption
      <4>3. ~(e.tx.nonce < latest)
        BY <1>1, <1>5, <4>2, SMT
      <4> QED
        BY <1>3, <2>1, <3>1, <4>1, <4>3 DEF GivenUp
    <3>2. CASE i # latest + 1
      <4>1. i \in 1..latest
        BY <1>1, <3>2, SMT
      <4> QED
        BY <1>3, <2>1, <2>3, <4>1 DEF GivenUp
    <3> QED
      BY <3>1, <3>2
  <2> QED
    BY <1>2, <1>3, <2>1, <2>2, <2>3 DEF GivenUp
<1> QED
  BY <1>2, <1>3, <1>12, <1>14, <1>15 DEF IInv, TasksInv, NoTwice

-----------------------------------------------------------------------------
(* The steps, one by one. *)

\* What TypeOK says besides the tasks.
OthersOK ==
  /\ baseFee \in BaseFees /\ moves \in 0..MaxMoves /\ faults \in 0..MaxFaults
  /\ mined \in Seq([tx : TransactionType \cup {None}, ok : BOOLEAN])
  /\ pool \in [0..MaxBatches + MaxFaults -> TransactionType \cup {None}]
  /\ current \in 0..MaxTasks /\ begun \in 0..MaxBatches
  /\ known \in [Tasks -> SUBSET TransactionType]
  /\ counted \subseteq Batches /\ gaveUp \subseteq Tasks \X Batches
  /\ underpriced \in BOOLEAN

LEMMA TypeSplits ==
  TypeOK <=> /\ OthersOK /\ task \in [Tasks -> TaskType]
             /\ \A t \in Tasks : Len(task[t].sent) <= task[t].bumps + 1
  BY DEF TypeOK, OthersOK

LEMMA FaultKeeps == ASSUME BaseloadAssumption, OthersOK, Fault \/ UNCHANGED faults
  PROVE  faults' \in 0..MaxFaults /\ faults' \in Int /\ faults' >= faults
  BY SMT DEF OthersOK, Fault, BaseloadAssumption

\* A step of one task that leaves the node alone.
Alone ==
  /\ UNCHANGED <<node, begun, known, underpriced>> /\ current' \in 0..MaxTasks
  /\ counted' \subseteq Batches /\ gaveUp' \subseteq Tasks \X Batches
  /\ Fault \/ UNCHANGED faults

LEMMA AloneKeeps ==
  ASSUME BaseloadAssumption, IInv, NEW t \in Tasks, Goes(t), TaskInv(t)', Alone,
         Len(task'[t].sent) <= task'[t].bumps + 1
  PROVE  /\ TypeOK' /\ TasksInv' /\ NoTwice' /\ Node' /\ NeverUnderpriced'
         /\ \A g \in gaveUp : GivenUp(g)'
<1>1. OthersOK /\ task \in [Tasks -> TaskType]
      /\ \A u \in Tasks : Len(task[u].sent) <= task[u].bumps + 1
  BY TypeSplits DEF IInv
<1>2. faults' \in 0..MaxFaults /\ faults' \in Int /\ faults' >= faults
  BY <1>1, FaultKeeps DEF Alone
<1>3. UNCHANGED <<pool, mined, begun, known, underpriced>>
  BY DEF Alone, node
<1>4. Node' /\ TasksInv' /\ NoTwice' /\ \A g \in gaveUp : GivenUp(g)'
  BY <1>2, <1>3, NodeStays, TaskGoes
<1>5. OthersOK'
  BY <1>1, <1>2, <1>3 DEF OthersOK, Alone, node
<1>6. TypeOK'
  <2>1. task' \in [Tasks -> TaskType]
    BY DEF Goes, Only
  <2>2. \A u \in Tasks : Len(task'[u].sent) <= task'[u].bumps + 1
    BY <1>1 DEF Goes, Only
  <2> QED
    BY <1>5, <2>1, <2>2 DEF TypeOK, OthersOK
<1> QED
  BY <1>3, <1>4, <1>6 DEF IInv, NeverUnderpriced

\* And that settles nothing.
Plain == UNCHANGED <<node, begun, histories>> /\ current' \in 0..MaxTasks /\ (Fault \/ UNCHANGED faults)

LEMMA PlainKeeps ==
  ASSUME BaseloadAssumption, IInv, NEW t \in Tasks, Goes(t), TaskInv(t)', Plain,
         Len(task'[t].sent) <= task'[t].bumps + 1
  PROVE  IInv'
<1>1. UNCHANGED <<mined, counted, gaveUp, known>> /\ Alone
  <2>1. counted \subseteq Batches /\ gaveUp \subseteq Tasks \X Batches
    BY DEF IInv, TypeOK
  <2> QED
    BY <2>1 DEF Plain, Alone, node, histories
<1>2. /\ TypeOK' /\ TasksInv' /\ NoTwice' /\ Node' /\ NeverUnderpriced'
      /\ \A g \in gaveUp : GivenUp(g)'
  BY <1>1, AloneKeeps
<1>3. GaveUpInv'
  BY <1>1, <1>2 DEF GaveUpInv, GivenUp
<1>4. CountedInv'
  BY <1>1 DEF IInv, CountedInv, latest
<1> QED
  BY <1>2, <1>3, <1>4 DEF IInv

LEMMA MineKeeps == ASSUME BaseloadAssumption, IInv, Mine \/ Foreign PROVE IInv'
<1>1. OthersOK /\ task \in [Tasks -> TaskType] /\ TypeOK
      /\ \A u \in Tasks : Len(task[u].sent) <= task[u].bumps + 1
  BY TypeSplits DEF IInv
<1>2. latest \in Slots /\ pool[latest] \in TransactionType \cup {None}
  BY <1>1, InSlots DEF OthersOK, Slots
<1>3. Fault => faults' = faults + 1
  BY DEF Fault
<1>4. Fault \/ UNCHANGED faults
  BY DEF Mine, Foreign
<1>5. faults' \in 0..MaxFaults /\ faults' \in Nat /\ faults' >= faults
  BY <1>1, <1>4, FaultKeeps, SMT
<1>6. /\ UNCHANGED <<task, begun, known, baseFee, moves, current, counted, gaveUp, underpriced>>
      /\ pool' = [pool EXCEPT ![latest] = None]
  BY DEF Mine, Foreign, histories
<1>7. \E e \in [tx : TransactionType \cup {None}, ok : BOOLEAN] : Spends(e)
  <2>1. CASE Mine
    <3>1. PICK ok \in BOOLEAN : mined' = Append(mined, [tx |-> pool[latest], ok |-> ok])
      BY <2>1 DEF Mine
    <3> DEFINE e == [tx |-> pool[latest], ok |-> ok]
    <3>2. e \in [tx : TransactionType \cup {None}, ok : BOOLEAN] /\ e.tx = pool[latest]
      BY <1>2
    <3>3. e.tx # None
      BY <2>1, <3>2 DEF Mine
    <3>4. Spends(e)
      BY <1>5, <1>6, <3>1, <3>2, <3>3 DEF Spends
    <3> QED
      BY <3>2, <3>4
  <2>2. CASE Foreign
    <3> DEFINE e == [tx |-> None, ok |-> TRUE]
    <3>1. e \in [tx : TransactionType \cup {None}, ok : BOOLEAN] /\ e.tx = None
      OBVIOUS
    <3>2. mined' = Append(mined, e) /\ faults' = faults + 1
      BY <1>3, <2>2 DEF Foreign
    <3>3. Spends(e)
      BY <1>6, <3>1, <3>2 DEF Spends
    <3> QED
      BY <3>1, <3>3
  <2> QED
    BY <2>1, <2>2
<1>8. /\ Node' /\ TasksInv' /\ NoTwice' /\ \A g \in gaveUp : GivenUp(g)'
      /\ latest' = latest + 1 /\ \A i \in 1..latest : mined'[i] = mined[i]
  BY <1>7, SpendKeeps
<1>9. OthersOK'
  <2> DEFINE Entries == [tx : TransactionType \cup {None}, ok : BOOLEAN]
  <2>1. mined' \in Seq(Entries)
    <3>1. PICK e \in Entries : mined' = Append(mined, e)
      BY <1>7 DEF Spends
    <3>2. mined \in Seq(Entries)
      BY <1>1 DEF OthersOK
    <3> HIDE DEF Entries
    <3> QED
      BY <3>1, <3>2
  <2>2. pool' \in [0..MaxBatches + MaxFaults -> TransactionType \cup {None}]
    BY <1>1, <1>6 DEF OthersOK
  <2> QED
    BY <1>1, <1>5, <1>6, <2>1, <2>2 DEF OthersOK
<1>10. TypeOK'
  BY <1>1, <1>6, <1>9 DEF TypeOK, OthersOK
<1>11. GaveUpInv'
  BY <1>6, <1>8 DEF GaveUpInv, GivenUp
<1>12. CountedInv'
  <2>1. latest \in Nat
    BY <1>1, SentTypes
  <2> HIDE DEF latest
  <2>2. \A i \in 1..latest : i \in 1..(latest + 1)
    BY <2>1, SMT
  <2> QED
    BY <1>6, <1>8, <2>2 DEF IInv, CountedInv
<1> QED
  BY <1>6, <1>8, <1>10, <1>11, <1>12 DEF IInv, NeverUnderpriced

LEMMA FeeMovesKeeps == ASSUME BaseloadAssumption, IInv, FeeMoves PROVE IInv'
<1>1. UNCHANGED <<mined, pool, task, current, begun, known, counted, gaveUp, underpriced, faults>>
  BY DEF FeeMoves, histories
<1>2. baseFee' \in BaseFees /\ moves' \in 0..MaxMoves
  BY SMT DEF FeeMoves, IInv, TypeOK, BaseloadAssumption
<1>3. TypeOK'
  BY <1>1, <1>2 DEF IInv, TypeOK
<1>4. /\ Sent' = Sent /\ latest' = latest /\ MinedBatches' = MinedBatches
      /\ \A t \in Tasks : TaskInv(t)' = TaskInv(t) /\ KnownInv(t)' = KnownInv(t)
  BY <1>1 DEF Sent, Transactions, latest, MinedBatches, TaskInv, KnownInv
<1>5. TasksInv' /\ NoTwice'
  BY <1>1, <1>4 DEF IInv, TasksInv, NoTwice
<1>6. Node'
  BY <1>1, <1>4 DEF IInv, Node, AllSentInv, SentInv, OneNonce, PoolInv, MinedInv, SpentInv
<1>7. CountedInv' /\ GaveUpInv' /\ NeverUnderpriced'
  BY <1>1, <1>4 DEF IInv, CountedInv, GaveUpInv, NeverUnderpriced
<1> QED
  BY <1>3, <1>5, <1>6, <1>7 DEF IInv

\* What is known of a task before it moves.
LEMMA Before ==
  ASSUME BaseloadAssumption, IInv, NEW t \in Tasks
  PROVE  /\ task \in [Tasks -> TaskType] /\ task[t] \in TaskType /\ TaskInv(t) /\ KnownInv(t)
         /\ Len(task[t].sent) \in Nat /\ Len(task[t].sent) <= task[t].bumps + 1
         /\ latest \in Nat /\ current \in 0..MaxTasks /\ begun \in 0..MaxBatches
         /\ MaxTasks \in Nat /\ MaxBatches \in Nat /\ MaxBumps \in Nat
         /\ task[t].pc \in Waits =>
              /\ task[t].fees # None /\ task[t].fees \in FeesType
              /\ task[t].fees.max <= task[t].fees.max /\ task[t].fees.tip <= task[t].fees.tip
<1>1. task \in [Tasks -> TaskType] /\ task[t] \in TaskType
  BY DEF IInv, TypeOK
<1>2. Len(task[t].sent) \in Nat
  BY <1>1 DEF TaskType
<1>3. latest \in Nat
  BY SentTypes DEF IInv
<1>4. TaskInv(t) /\ KnownInv(t)
  BY DEF IInv, TasksInv
<1>5. ASSUME task[t].pc \in Waits
      PROVE  /\ task[t].fees # None /\ task[t].fees \in FeesType
             /\ task[t].fees.max <= task[t].fees.max /\ task[t].fees.tip <= task[t].fees.tip
  <2>1. task[t].fees \in FeesType /\ task[t].fees # None
    BY <1>1, <1>4, <1>5 DEF TaskInv, TaskType
  <2> QED
    BY <2>1 DEF FeesType
<1> QED
  BY <1>1, <1>2, <1>3, <1>4, <1>5 DEF IInv, TypeOK, BaseloadAssumption

LEMMA StopWorkerKeeps == ASSUME BaseloadAssumption, IInv, StopWorker PROVE IInv'
<1>1. PICK t \in Tasks : current = t
  BY SMT DEF StopWorker, IInv, TypeOK, Tasks, BaseloadAssumption
<1> DEFINE r == [task[t] EXCEPT !.aborted = TRUE]
<1>2. task' = [task EXCEPT ![t].aborted = TRUE] /\ Plain
  <2>1. 0 \in 0..MaxTasks
    BY <1>1, Before, SMT
  <2> QED
    BY <1>1, <2>1 DEF StopWorker, Plain
<1>3. task'[t] = r /\ r \in TaskType
  BY <1>2, Before DEF TaskType
<1>4. Goes(t)
  BY <1>2, <1>3, Before DEF Goes, Only, TaskInv, TaskType, Fresh, Waits, Over
<1>5. TaskInv(t)' /\ Len(task'[t].sent) <= task'[t].bumps + 1
  BY <1>2, <1>3, Before DEF TaskInv, TaskType, Plain, node, latest
<1> QED
  BY <1>2, <1>4, <1>5, PlainKeeps

LEMMA StartWorkerKeeps == ASSUME BaseloadAssumption, IInv, StartWorker PROVE IInv'
<1>1. PICK t \in Tasks : /\ task[t].pc = "unborn" /\ task' = [task EXCEPT ![t].pc = "idle"]
                         /\ current' = t /\ UNCHANGED <<node, begun, histories, faults>>
  BY DEF StartWorker
<1>2. t \in 0..MaxTasks
  BY Before, SMT DEF Tasks
<1>3. task'[t] = [task[t] EXCEPT !.pc = "idle"] /\ [task[t] EXCEPT !.pc = "idle"] \in TaskType /\ Plain
  BY <1>1, <1>2, Before DEF TaskType, Plain
<1>4. Goes(t)
  BY <1>1, <1>3, Before DEF Goes, Only, TaskInv, TaskType, Fresh, Waits, Over
<1>5. TaskInv(t)' /\ Len(task'[t].sent) <= task'[t].bumps + 1
  BY <1>1, <1>3, Before DEF TaskInv, TaskType, Plain, node, latest, Fresh, Waits
<1> QED
  BY <1>1, <1>3, <1>4, <1>5, PlainKeeps

LEMMA FinishKeeps == ASSUME BaseloadAssumption, IInv, NEW t \in Tasks, Finish(t) PROVE IInv'
<1>1. /\ task[t].pc = "idle" /\ task' = [task EXCEPT ![t].pc = "finished"] /\ Plain
  BY Before DEF Finish, At, Goto, Plain
<1>2. task'[t] = [task[t] EXCEPT !.pc = "finished"] /\ [task[t] EXCEPT !.pc = "finished"] \in TaskType
  BY <1>1, Before DEF TaskType
<1>3. Goes(t)
  BY <1>1, <1>2, Before DEF Goes, Only, TaskInv, TaskType, Fresh, Waits, Over
<1>4. TaskInv(t)' /\ Len(task'[t].sent) <= task'[t].bumps + 1
  BY <1>1, <1>2, Before DEF TaskInv, TaskType, Plain, node, latest, Fresh, Waits
<1> QED
  BY <1>1, <1>3, <1>4, PlainKeeps

LEMMA ReadNonceKeeps == ASSUME BaseloadAssumption, IInv, NEW t \in Tasks, ReadNonce(t) PROVE IInv'
<1> DEFINE n == IF task[t].nextNonce = None THEN latest ELSE task[t].nextNonce
           r == [task[t] EXCEPT !.pc = "send", !.nextNonce = n, !.nonce = n]
<1>1. /\ task[t].pc = "nonce" /\ Plain
      /\ task' = [task EXCEPT ![t].pc = "send", ![t].nextNonce = n, ![t].nonce = n]
  BY Before DEF ReadNonce, At, Plain
<1>2. n \in Nat /\ n <= latest
  BY Before DEF TaskInv, TaskType
<1>3. n # None
  BY <1>2 DEF BaseloadAssumption
<1> HIDE DEF n
<1>4. task'[t] = r /\ r \in TaskType
  BY <1>1, <1>2, Before DEF TaskType
<1>5. Goes(t)
  BY <1>1, <1>4, Before DEF Goes, Only, TaskInv, TaskType, Fresh, Waits, Over
<1>6. TaskInv(t)' /\ Len(task'[t].sent) <= task'[t].bumps + 1
  BY <1>1, <1>2, <1>3, <1>4, Before DEF TaskInv, TaskType, Plain, node, latest, Fresh, Waits
<1> QED
  BY <1>1, <1>5, <1>6, PlainKeeps

LEMMA TimedOutKeeps == ASSUME BaseloadAssumption, IInv, NEW t \in Tasks, TimedOut(t) PROVE IInv'
<1>1. /\ task[t].pc = "wait" /\ task' = [task EXCEPT ![t].pc = "check"] /\ Plain
  BY Before DEF TimedOut, At, Goto, Plain
<1>2. task'[t] = [task[t] EXCEPT !.pc = "check"] /\ [task[t] EXCEPT !.pc = "check"] \in TaskType
  BY <1>1, Before DEF TaskType
<1>3. Goes(t)
  BY <1>1, <1>2, Before DEF Goes, Only, TaskInv, TaskType, Fresh, Waits, Over
<1>4. TaskInv(t)' /\ Len(task'[t].sent) <= task'[t].bumps + 1
  BY <1>1, <1>2, Before DEF TaskInv, TaskType, Plain, node, latest, Fresh, Waits
<1> QED
  BY <1>1, <1>3, <1>4, PlainKeeps

LEMMA UnspentKeeps == ASSUME BaseloadAssumption, IInv, NEW t \in Tasks, Unspent(t) PROVE IInv'
<1>1. PICK pc \in {"wait", "bump"} : task' = [task EXCEPT ![t].pc = pc]
  BY DEF Unspent, Goto
<1>2. task[t].pc = "check" /\ Plain
  <2>1. task[t].pc = "check"
    BY DEF Unspent, At
  <2>2. task[t].nonce \in Nat /\ latest \in Nat
    BY <2>1, Before DEF TaskInv, TaskType, Waits
  <2> HIDE DEF latest
  <2>3. latest > task[t].nonce \/ latest <= task[t].nonce
    BY <2>2, SMT
  <2>4. Fault \/ UNCHANGED faults
    BY <2>3 DEF Unspent
  <2> QED
    BY <2>1, <2>4, Before DEF Unspent, Plain
<1>3. task'[t] = [task[t] EXCEPT !.pc = pc] /\ [task[t] EXCEPT !.pc = pc] \in TaskType
  BY <1>1, Before DEF TaskType
<1>4. Goes(t)
  BY <1>1, <1>2, <1>3, Before DEF Goes, Only, TaskInv, TaskType, Fresh, Waits, Over
<1>5. TaskInv(t)' /\ Len(task'[t].sent) <= task'[t].bumps + 1
  BY <1>1, <1>2, <1>3, Before DEF TaskInv, TaskType, Plain, node, latest, Fresh, Waits
<1> QED
  BY <1>2, <1>4, <1>5, PlainKeeps

LEMMA NoMoreBumpsKeeps ==
  ASSUME BaseloadAssumption, IInv, NEW t \in Tasks, NoMoreBumps(t) PROVE IInv'
<1> DEFINE r == [task[t] EXCEPT !.pc = "wait", !.exhausted = TRUE]
<1>1. /\ task[t].pc = "bump" /\ Plain
      /\ task' = [task EXCEPT ![t].pc = "wait", ![t].exhausted = TRUE]
  BY Before DEF NoMoreBumps, At, Plain
<1>2. task'[t] = r /\ r \in TaskType
  BY <1>1, Before DEF TaskType
<1>3. Goes(t)
  BY <1>1, <1>2, Before DEF Goes, Only, TaskInv, TaskType, Fresh, Waits, Over
<1>4. TaskInv(t)' /\ Len(task'[t].sent) <= task'[t].bumps + 1
  BY <1>1, <1>2, Before DEF TaskInv, TaskType, Plain, node, latest, Fresh, Waits
<1> QED
  BY <1>1, <1>3, <1>4, PlainKeeps

\* StopWaiting and StopBumping.
LEMMA StopKeeps ==
  ASSUME BaseloadAssumption, IInv, NEW t \in Tasks, StopWaiting(t) \/ StopBumping(t) PROVE IInv'
<1> DEFINE r == [task[t] EXCEPT !.pc = "finished", !.nextNonce = None]
<1>1. /\ task[t].pc \in Waits /\ Plain /\ task' = [Fail(t) EXCEPT ![t].pc = "finished"]
  BY Before DEF StopWaiting, StopBumping, At, Plain, Waits
<1>2. task'[t] = r /\ r \in TaskType /\ (\A u \in Tasks : u # t => task'[u] = task[u])
      /\ task' \in [Tasks -> TaskType]
  BY <1>1, Before DEF TaskType, Fail
<1>3. Goes(t)
  BY <1>1, <1>2, Before DEF Goes, Only, TaskInv, TaskType, Fresh, Waits, Over
<1>4. TaskInv(t)' /\ Len(task'[t].sent) <= task'[t].bumps + 1
  BY <1>1, <1>2, Before DEF TaskInv, TaskType, Plain, node, latest, Fresh, Waits
<1> QED
  BY <1>1, <1>3, <1>4, PlainKeeps

LEMMA BeginKeeps == ASSUME BaseloadAssumption, IInv, NEW t \in Tasks, Begin(t) PROVE IInv'
<1> DEFINE r == [task[t] EXCEPT !.pc = "nonce", !.batch = begun + 1, !.sent = << >>,
                                !.bumps = 0, !.exhausted = FALSE]
<1>1. /\ task[t].pc = "idle" /\ begun' = begun + 1 /\ begun < MaxBatches
      /\ task' = [task EXCEPT ![t].pc = "nonce", ![t].batch = begun + 1, ![t].sent = << >>,
                              ![t].bumps = 0, ![t].exhausted = FALSE]
      /\ UNCHANGED <<baseFee, moves, mined, pool, current, known, counted, gaveUp, underpriced,
                     faults>>
  BY DEF Begin, At, node, histories
<1>2. begun + 1 \in Batches /\ begun \in Nat /\ begun + 1 # None /\ begun + 1 \in 0..MaxBatches
  BY <1>1, Before, SMT DEF Batches, BaseloadAssumption
<1>3. /\ task'[t] = r /\ r \in TaskType /\ task' \in [Tasks -> TaskType]
      /\ \A u \in Tasks : u # t => task'[u] = task[u]
  <2>1. << >> \in Seq(TransactionType) /\ 0 \in 0..MaxBumps
    BY Before
  <2>2. r \in TaskType
    BY <1>2, <2>1, Before DEF TaskType
  <2>3. task'[t] = r /\ \A u \in Tasks : u # t => task'[u] = task[u]
    BY <1>1, Before
  <2>4. task' \in [Tasks -> TaskType]
    <3>1. task' = [task EXCEPT ![t] = task'[t]]
      BY <1>1, Before
    <3> HIDE DEF r
    <3> QED
      BY <2>2, <2>3, <3>1, Before
  <2> QED
    BY <2>2, <2>3, <2>4
<1>4. TypeOK'
  <2>1. Len(<< >>) <= 0 + 1
    OBVIOUS
  <2>2. \A u \in Tasks : Len(task'[u].sent) <= task'[u].bumps + 1
    <3>1. \A u \in Tasks : Len(task[u].sent) <= task[u].bumps + 1
      BY DEF IInv, TypeOK
    <3>2. task'[t].sent = << >> /\ task'[t].bumps = 0
      BY <1>3, Before DEF TaskType
    <3> QED
      BY <1>3, <2>1, <3>1, <3>2
  <2> QED
    BY <1>1, <1>2, <1>3, <2>2 DEF IInv, TypeOK
<1>5. Sent' = Sent /\ latest' = latest /\ MinedBatches' = MinedBatches
  BY <1>1 DEF Sent, Transactions, latest, MinedBatches
<1>6. \A b \in Batches \cup {None} : b # None /\ b <= begun => b <= begun + 1 /\ b # begun + 1
  BY <1>2, SMT DEF Batches
<1>7. \A u \in Tasks : task[u].batch # None =>
        task[u].batch \in Batches /\ task[u].batch <= begun
  BY Before DEF TaskInv, TaskType
<1>8. \A x \in Sent : x.batch \in Batches /\ x.batch # None /\ x.batch <= begun
  BY SentTypes DEF IInv, Node, AllSentInv, SentInv, TransactionType, Batches, BaseloadAssumption
<1>9. \A x \in known[t] : x.batch \in Batches /\ x.batch # None /\ x.batch <= begun /\ x.nonce < latest
  <2> SUFFICES ASSUME NEW x \in known[t]
               PROVE  x.batch \in Batches /\ x.batch # None /\ x.batch <= begun /\ x.nonce < latest
    OBVIOUS
  <2>1. x \in TransactionType
    BY DEF IInv, TypeOK
  <2>2. x.batch <= task[t].batch /\ task[t].batch # None /\ x.nonce < latest
    BY <1>1, Before DEF KnownInv, Waits
  <2>3. x.batch \in Batches /\ task[t].batch \in Batches /\ task[t].batch <= begun
    BY <1>7, <2>1, <2>2 DEF TransactionType
  <2>4. x.batch <= begun /\ x.batch # None
    BY <1>2, <2>2, <2>3, SMT DEF Batches, BaseloadAssumption
  <2> QED
    BY <2>2, <2>3, <2>4
<1> HIDE DEF latest
<1>10. NoTwice'
  <2> SUFFICES ASSUME NEW u \in Tasks, NEW v \in Tasks, u # v, task'[u].batch # None
               PROVE  task'[u].batch # task'[v].batch
    BY DEF NoTwice
  <2>1. CASE u # t /\ v # t
    BY <1>3, <2>1 DEF IInv, NoTwice
  <2>2. task'[t].batch = begun + 1
    BY <1>3, Before DEF TaskType
  <2>3. \A w \in Tasks : w # t => task'[w].batch # begun + 1
    BY <1>2, <1>3, <1>6, <1>7
  <2>4. CASE u = t
    BY <2>2, <2>3, <2>4
  <2>5. CASE v = t
    BY <2>2, <2>3, <2>5
  <2> QED
    BY <2>1, <2>4, <2>5
<1>11. ASSUME NEW u \in Tasks, u # t PROVE (TaskInv(u) /\ KnownInv(u))'
  <2>1. TaskInv(u) /\ KnownInv(u) /\ task'[u] = task[u]
    BY <1>3, <1>11, Before
  <2>2. TaskInv(u)'
    BY <1>1, <1>5, <1>6, <1>7, <2>1 DEF TaskInv
  <2>3. KnownInv(u)'
    BY <1>1, <1>5, <2>1 DEF KnownInv
  <2> QED
    BY <2>2, <2>3
<1>12. TaskInv(t)'
  <2>1. begun + 1 <= begun + 1
    BY <1>2
  <2> QED
    BY <1>1, <1>2, <1>3, <1>5, <2>1, Before DEF TaskInv, TaskType, Fresh, Waits
<1>13. KnownInv(t)'
  BY <1>1, <1>2, <1>3, <1>5, <1>6, <1>9 DEF KnownInv, TaskType, Fresh, Waits
<1>14. TasksInv'
  BY <1>11, <1>12, <1>13 DEF TasksInv
<1>15. AllSentInv'
  <2> SUFFICES ASSUME NEW x \in Sent PROVE SentInv(x)'
    BY <1>5 DEF AllSentInv
  <2>1. SentInv(x)
    BY DEF IInv, Node, AllSentInv
  <2>2. task'[t].batch # x.batch
    BY <1>3, <1>6, <1>8 DEF TaskType
  <2> QED
    BY <1>1, <1>3, <1>6, <1>8, <2>1, <2>2 DEF SentInv
<1>16. Node'
  BY <1>1, <1>5, <1>15 DEF IInv, Node, OneNonce, PoolInv, MinedInv, SpentInv
<1>17. GaveUpInv'
  <2> SUFFICES ASSUME NEW g \in gaveUp PROVE GivenUp(g)'
    BY <1>1 DEF GaveUpInv, GivenUp
  <2>1. GivenUp(g) /\ g[1] \in Tasks /\ g[2] \in Batches
    BY GaveUpIs DEF IInv, TypeOK
  <2>2. CASE g[1] # t
    BY <1>1, <1>3, <1>5, <2>1, <2>2 DEF GivenUp
  <2>3. CASE g[1] = t
    <3>1. g[2] <= task[t].batch /\ task[t].batch \in Batches /\ task[t].batch <= begun
      BY <1>7, <2>1, <2>3 DEF GivenUp
    <3>2. g[2] <= begun + 1 /\ g[2] # begun + 1
      BY <1>2, <2>1, <3>1, SMT DEF Batches
    <3>3. task'[t].batch = begun + 1
      BY <1>3 DEF TaskType
    <3> QED
      BY <1>1, <1>2, <1>5, <2>1, <2>3, <3>2, <3>3 DEF GivenUp
  <2> QED
    BY <2>2, <2>3
<1>18. CountedInv' /\ NeverUnderpriced'
  BY <1>1, <1>5 DEF IInv, CountedInv, NeverUnderpriced
<1> QED
  BY <1>4, <1>10, <1>14, <1>16, <1>17, <1>18 DEF IInv

\* The hashes a waiting task keeps, and what was mined at its nonce.
LEMMA Copies ==
  ASSUME BaseloadAssumption, IInv, NEW t \in Tasks, task[t].pc \in Waits
  PROVE  /\ task[t].batch \in Batches /\ task[t].batch # None /\ task[t].nonce \in Nat
         /\ task[t].nonce <= latest
         /\ ToSet(task[t].sent) = {x \in known[t] : x.batch = task[t].batch}
         /\ known[t] \subseteq TransactionType /\ None \notin known[t]
         /\ \A x \in known[t] : x.batch = task[t].batch => x.nonce = task[t].nonce
         /\ task[t].nonce < latest =>
              task[t].nonce + 1 \in 1..latest /\ task[t].nonce + 1 <= latest
<1>1. known[t] \subseteq TransactionType
  BY DEF IInv, TypeOK
<1>2. task[t].batch \in Batches /\ task[t].batch # None /\ task[t].nonce \in Nat
      /\ task[t].nonce <= latest /\ latest \in Nat
  BY Before DEF TaskInv, TaskType
<1> HIDE DEF latest
<1>3. task[t].nonce < latest => task[t].nonce + 1 \in 1..latest /\ task[t].nonce + 1 <= latest
  BY <1>2, SMT
<1> QED
  BY <1>1, <1>2, <1>3, Before DEF KnownInv, BaseloadAssumption

LEMMA FailGoes ==
  ASSUME BaseloadAssumption, IInv, NEW t \in Tasks, task[t].pc \in Waits, task[t].nonce < latest,
         task' = Fail(t), UNCHANGED <<node, begun>>
  PROVE  Goes(t) /\ TaskInv(t)' /\ Len(task'[t].sent) <= task'[t].bumps + 1
         /\ task'[t].pc = "idle" /\ task'[t].batch = task[t].batch
<1> DEFINE r == [task[t] EXCEPT !.pc = "idle", !.nextNonce = None]
<1>1. task'[t] = r /\ r \in TaskType /\ (\A u \in Tasks : u # t => task'[u] = task[u])
      /\ task' \in [Tasks -> TaskType]
  <2>1. r \in TaskType
    BY Before DEF TaskType
  <2>2. task' = [task EXCEPT ![t] = r]
    BY Before DEF Fail
  <2> HIDE DEF r
  <2> QED
    BY <2>1, <2>2, Before
<1>2. Goes(t)
  BY <1>1, Before DEF Goes, Only, TaskInv, TaskType, Fresh, Waits, Over
<1>3. TaskInv(t)' /\ Len(task'[t].sent) <= task'[t].bumps + 1
  BY <1>1, Before DEF TaskInv, TaskType, node, latest, Fresh, Waits
<1> QED
  BY <1>1, <1>2, <1>3 DEF TaskType

LEMMA SettleGoes ==
  ASSUME BaseloadAssumption, IInv, NEW t \in Tasks, task[t].pc \in Waits, Landed(t), Settle(t),
         UNCHANGED <<node, begun>>
  PROVE  /\ Goes(t) /\ TaskInv(t)' /\ Len(task'[t].sent) <= task'[t].bumps + 1
         /\ counted' \subseteq Batches /\ CountedInv'
<1> DEFINE n == task[t].nonce + 1
<1>1. task[t].nonce < latest /\ mined[n].tx \in ToSet(task[t].sent)
  BY DEF Landed
<1>2. mined[n].tx # None /\ mined[n].tx.batch = task[t].batch /\ n \in 1..latest
  BY <1>1, Copies
<1>3. counted \subseteq Batches /\ latest' = latest /\ mined' = mined
  BY DEF IInv, TypeOK, node, latest
<1>4. CASE mined[n].ok
  <2> DEFINE r == [task[t] EXCEPT !.pc = "idle", !.nextNonce = n]
  <2>1. /\ task' = [task EXCEPT ![t].pc = "idle", ![t].nextNonce = n]
        /\ counted' = counted \cup {task[t].batch}
    BY <1>4 DEF Settle
  <2>2. n \in Nat /\ n <= latest
    BY <1>1, Copies, SMT
  <2> HIDE DEF n
  <2>3. task'[t] = r /\ r \in TaskType
    BY <2>1, <2>2, Before DEF TaskType
  <2>4. Goes(t)
    BY <1>1, <2>1, <2>3, Before DEF Goes, Only, TaskInv, TaskType, Fresh, Waits, Over
  <2>5. TaskInv(t)' /\ Len(task'[t].sent) <= task'[t].bumps + 1
    BY <2>1, <2>2, <2>3, Before DEF TaskInv, TaskType, node, latest, Fresh, Waits
  <2>6. counted' \subseteq Batches
    BY <1>3, <2>1, Copies
  <2>7. CountedInv'
    BY <1>2, <1>3, <1>4, <2>1 DEF IInv, CountedInv
  <2> QED
    BY <2>4, <2>5, <2>6, <2>7
<1>5. CASE ~mined[n].ok
  <2>1. task' = Fail(t) /\ counted' = counted
    BY <1>5 DEF Settle
  <2>2. CountedInv'
    BY <1>3, <2>1 DEF IInv, CountedInv
  <2> QED
    BY <1>1, <1>3, <2>1, <2>2, FailGoes
<1> QED
  BY <1>4, <1>5

LEMMA SettleKeeps ==
  ASSUME BaseloadAssumption, IInv, NEW t \in Tasks, task[t].pc \in Waits, Landed(t), Settle(t),
         UNCHANGED <<node, current, begun, known, gaveUp, underpriced, faults>>
  PROVE  IInv'
<1>1. /\ Goes(t) /\ TaskInv(t)' /\ Len(task'[t].sent) <= task'[t].bumps + 1
      /\ counted' \subseteq Batches /\ CountedInv'
  BY SettleGoes
<1>2. Alone
  BY <1>1 DEF Alone, IInv, TypeOK
<1>3. /\ TypeOK' /\ TasksInv' /\ NoTwice' /\ Node' /\ NeverUnderpriced'
      /\ \A g \in gaveUp : GivenUp(g)'
  BY <1>1, <1>2, AloneKeeps
<1>4. GaveUpInv'
  BY <1>3 DEF GaveUpInv, GivenUp
<1> QED
  BY <1>1, <1>3, <1>4 DEF IInv

LEMMA SpentKeeps == ASSUME BaseloadAssumption, IInv, NEW t \in Tasks, Spent(t) PROVE IInv'
<1>1. /\ task[t].pc = "check" /\ task[t].pc \in Waits /\ task[t].nonce < latest
      /\ UNCHANGED <<node, current, begun, known, underpriced>>
  <2>1. task[t].pc = "check" /\ task[t].pc \in Waits
    BY DEF Spent, At, Waits
  <2>2. latest \in Int /\ task[t].nonce \in Int /\ latest > task[t].nonce
    BY <2>1, Before, Copies DEF Spent
  <2> HIDE DEF latest
  <2>3. task[t].nonce < latest
    BY <2>2, SMT
  <2> QED
    BY <2>1, <2>3 DEF Spent
<1>2. CASE Landed(t) /\ Settle(t) /\ UNCHANGED <<gaveUp, faults>>
  BY <1>1, <1>2, SettleKeeps
<1>3. CASE Fault /\ Goto(t, "wait") /\ UNCHANGED <<counted, gaveUp>>
  <2>1. task' = [task EXCEPT ![t].pc = "wait"] /\ Plain
    BY <1>1, <1>3, Before DEF Goto, Plain, histories
  <2>2. task'[t] = [task[t] EXCEPT !.pc = "wait"] /\ [task[t] EXCEPT !.pc = "wait"] \in TaskType
    BY <2>1, Before DEF TaskType
  <2>3. Goes(t)
    BY <1>1, <2>1, <2>2, Before DEF Goes, Only, TaskInv, TaskType, Fresh, Waits, Over
  <2>4. TaskInv(t)' /\ Len(task'[t].sent) <= task'[t].bumps + 1
    BY <1>1, <2>1, <2>2, Before DEF TaskInv, TaskType, Plain, node, latest, Fresh, Waits
  <2> QED
    BY <2>1, <2>3, <2>4, PlainKeeps
<1>4. CASE /\ ~Landed(t) /\ task' = Fail(t) /\ gaveUp' = gaveUp \cup {<<t, task[t].batch>>}
           /\ UNCHANGED <<counted, faults>>
  <2>1. /\ Goes(t) /\ TaskInv(t)' /\ Len(task'[t].sent) <= task'[t].bumps + 1
        /\ task'[t].pc = "idle" /\ task'[t].batch = task[t].batch
    BY <1>1, <1>4, FailGoes
  <2>2. Alone
    <3>1. <<t, task[t].batch>> \in Tasks \X Batches
      BY <1>1, Copies
    <3> QED
      BY <1>1, <1>4, <3>1 DEF Alone, IInv, TypeOK
  <2>3. /\ TypeOK' /\ TasksInv' /\ NoTwice' /\ Node' /\ NeverUnderpriced'
        /\ \A g \in gaveUp : GivenUp(g)'
    BY <2>1, <2>2, AloneKeeps
  <2>4. latest' = latest /\ mined' = mined /\ known' = known
    BY <1>1 DEF latest, node
  <2>5. PICK b \in Batches : b = task[t].batch
    BY <1>1, Copies
  <2> HIDE DEF latest
  <2>6. GivenUp(<<t, b>>)'
    <3>1. \A x \in known[t] : x.batch = b => x.nonce < latest
      BY <1>1, <2>5, Copies
    <3>2. ASSUME NEW i \in 1..latest, mined[i].tx \in known[t], mined[i].tx.batch = b
          PROVE  FALSE
      <4>1. mined[i].tx # None /\ mined[i].tx.nonce = task[t].nonce
            /\ mined[i].tx \in ToSet(task[t].sent)
        BY <1>1, <2>5, <3>2, Copies
      <4>2. mined[i].tx.nonce = i - 1
        BY <4>1 DEF IInv, Node, MinedInv
      <4>3. i = task[t].nonce + 1
        BY <1>1, <4>1, <4>2, Copies, Before, SMT
      <4> QED
        BY <1>1, <1>4, <4>1, <4>3 DEF Landed
    <3>3. b <= b /\ b # None
      BY <1>1, <2>5, Copies DEF Batches
    <3> QED
      BY <2>1, <2>4, <2>5, <3>1, <3>2, <3>3 DEF GivenUp, Over
  <2>7. GaveUpInv'
    BY <1>4, <2>3, <2>5, <2>6 DEF GaveUpInv, GivenUp
  <2>8. CountedInv'
    BY <1>4, <2>4 DEF IInv, CountedInv
  <2> QED
    BY <2>3, <2>7, <2>8 DEF IInv
<1> QED
  BY <1>2, <1>3, <1>4 DEF Spent

\* A first send that fails.
LEMMA FreshFails ==
  ASSUME BaseloadAssumption, IInv, NEW t \in Tasks, task[t].pc = "send", task' = Fail(t),
         UNCHANGED <<mined, begun>>
  PROVE  /\ Goes(t) /\ Only(t) /\ TaskInv(t)' /\ Len(task'[t].sent) <= task'[t].bumps + 1
         /\ task'[t].pc = "idle" /\ task'[t].batch = task[t].batch
<1> DEFINE r == [task[t] EXCEPT !.pc = "idle", !.nextNonce = None]
<1>1. task'[t] = r /\ r \in TaskType /\ (\A u \in Tasks : u # t => task'[u] = task[u])
      /\ task' \in [Tasks -> TaskType]
  <2>1. r \in TaskType
    BY Before DEF TaskType
  <2>2. task' = [task EXCEPT ![t] = r]
    BY Before DEF Fail
  <2> HIDE DEF r
  <2> QED
    BY <2>1, <2>2, Before
<1>2. Goes(t)
  BY <1>1, Before DEF Goes, Only, TaskInv, TaskType, Fresh, Waits, Over
<1>3. TaskInv(t)' /\ Len(task'[t].sent) <= task'[t].bumps + 1
  BY <1>1, Before DEF TaskInv, TaskType, latest, Fresh, Waits
<1> QED
  BY <1>1, <1>2, <1>3 DEF TaskType, Only

LEMMA AppendAdds ==
  ASSUME NEW S, NEW q \in Seq(S), NEW x \in S
  PROVE  /\ Append(q, x) \in Seq(S) /\ Len(Append(q, x)) = Len(q) + 1
         /\ ToSet(Append(q, x)) = ToSet(q) \cup {x}
<1>1. /\ Append(q, x) \in Seq(S) /\ Len(Append(q, x)) = Len(q) + 1 /\ Len(q) \in Nat
      /\ Append(q, x)[Len(q) + 1] = x /\ \A i \in 1..Len(q) : Append(q, x)[i] = q[i]
  OBVIOUS
<1>2. DOMAIN q = 1..Len(q) /\ DOMAIN Append(q, x) = 1..(Len(q) + 1)
  BY <1>1
<1>3. ToSet(Append(q, x)) \subseteq ToSet(q) \cup {x}
  BY <1>1, <1>2 DEF ToSet
<1>4. ToSet(q) \cup {x} \subseteq ToSet(Append(q, x))
  BY <1>1, <1>2 DEF ToSet
<1> QED
  BY <1>1, <1>3, <1>4

-----------------------------------------------------------------------------
(* Fees. *)

LEMMA FirstFees ==
  ASSUME BaseloadAssumption, TypeOK, NEW reading \in Readings
  PROVE  /\ initialMaxFeePerGas(reading) \in Nat /\ initialMaxFeePerGas(reading) <= Cap
         /\ Tip <= initialMaxFeePerGas(reading) /\ Tip \in Nat
<1>1. reading = None \/ reading \in Nat
  BY DEF Readings, TypeOK, BaseloadAssumption
<1>2. Cap \in Nat /\ Tip \in Nat /\ Tip <= Cap
  BY DEF BaseloadAssumption
<1>3. CASE reading = None
  BY <1>2, <1>3 DEF initialMaxFeePerGas
<1>4. CASE reading # None
  <2>1. reading \in Nat
    BY <1>1, <1>4
  <2> QED
    BY <1>2, <1>4, <2>1, SMT DEF initialMaxFeePerGas
<1> QED
  BY <1>3, <1>4

\* A replacement pays more than a tenth over the fees before, within the cap.
LEMMA BumpedFees ==
  ASSUME BaseloadAssumption, NEW f \in FeesType, bumpReplacementFees(f) # None
  PROVE  LET b == bumpReplacementFees(f)
         IN  /\ b \in FeesType /\ b.max <= Cap /\ b.tip <= b.max
             /\ b.max * 100 > f.max * 110 /\ b.tip * 100 > f.tip * 110
<1>1. f.max \in Nat /\ f.tip \in Nat /\ Cap \in Nat
  BY DEF FeesType, BaseloadAssumption
<1>2. \A w \in Nat : bumpByAnEighth(w) \in Nat
  BY SMT DEF bumpByAnEighth
<1> DEFINE max == IF bumpByAnEighth(f.max) < Cap THEN bumpByAnEighth(f.max) ELSE Cap
           tip == IF bumpByAnEighth(f.tip) < max THEN bumpByAnEighth(f.tip) ELSE max
<1>3. max \in Nat /\ max <= Cap /\ tip \in Nat /\ tip <= max
  <2>1. bumpByAnEighth(f.max) \in Nat /\ bumpByAnEighth(f.tip) \in Nat
    BY <1>1, <1>2
  <2> QED
    BY <1>1, <2>1, SMT
<1>4. /\ bumpReplacementFees(f) = [max |-> max, tip |-> tip]
      /\ clearsReplacementPriceBump(f.max, max) /\ clearsReplacementPriceBump(f.tip, tip)
  BY DEF bumpReplacementFees
<1> HIDE DEF max, tip
<1> QED
  BY <1>3, <1>4 DEF FeesType, clearsReplacementPriceBump

\* What a task sends, it sends for its batch.
LEMMA TransactionIs ==
  ASSUME BaseloadAssumption, IInv, NEW t \in Tasks, task[t].pc \in Waits \cup {"send"},
         NEW f \in FeesType
  PROVE  LET tx == Transaction(t, f)
         IN  /\ tx \in TransactionType /\ tx.nonce = task[t].nonce /\ tx.batch = task[t].batch
             /\ tx.max = f.max /\ tx.tip = f.tip
<1>1. task[t].nonce \in Nat /\ task[t].batch \in Batches
  BY Before DEF TaskInv, TaskType, Waits, Fresh
<1> QED
  BY <1>1 DEF Transaction, TransactionType, FeesType

\* A send that reaches the node, in any case of its reply.
LEMMA SentKeeps ==
  ASSUME BaseloadAssumption, IInv, NEW t \in Tasks,
         \E tx \in TransactionType : Sends(t, tx), Fault \/ UNCHANGED faults,
         UNCHANGED <<baseFee, moves, current, counted, gaveUp, underpriced>>,
         Len(task'[t].sent) <= task'[t].bumps + 1
  PROVE  IInv'
<1> PICK tx \in TransactionType : Sends(t, tx)
  OBVIOUS
<1>1. Node' /\ TasksInv' /\ NoTwice' /\ \A g \in gaveUp : GivenUp(g)'
  BY SendKeeps
<1>2. OthersOK /\ task \in [Tasks -> TaskType]
      /\ \A u \in Tasks : Len(task[u].sent) <= task[u].bumps + 1
  BY TypeSplits DEF IInv
<1>3. faults' \in 0..MaxFaults
  BY <1>2, FaultKeeps
<1>4. UNCHANGED <<mined, begun>>
  BY DEF Sends
<1>5. pool' \in [0..MaxBatches + MaxFaults -> TransactionType \cup {None}]
  <2>1. pool' = [pool EXCEPT ![tx.nonce] = tx]
    BY DEF Sends
  <2> QED
    BY <1>2, <2>1 DEF OthersOK
<1>6. known' \in [Tasks -> SUBSET TransactionType]
  <2>1. known' = known \/ known' = [known EXCEPT ![t] = @ \cup {tx}]
    BY DEF Sends
  <2> QED
    BY <1>2, <2>1 DEF OthersOK
<1>7. OthersOK'
  BY <1>2, <1>3, <1>4, <1>5, <1>6 DEF OthersOK
<1>8. TypeOK'
  <2>1. task' \in [Tasks -> TaskType]
    BY DEF Sends, Only
  <2>2. \A u \in Tasks : Len(task'[u].sent) <= task'[u].bumps + 1
    BY <1>2 DEF Sends, Only
  <2> QED
    BY <1>7, <2>1, <2>2 DEF TypeOK, OthersOK
<1>9. GaveUpInv'
  BY <1>1 DEF GaveUpInv, GivenUp
<1>10. CountedInv' /\ NeverUnderpriced'
  BY <1>4 DEF IInv, CountedInv, NeverUnderpriced, latest
<1> QED
  BY <1>1, <1>8, <1>9, <1>10 DEF IInv

LEMMA SendFirstKeeps == ASSUME BaseloadAssumption, IInv, NEW t \in Tasks, SendFirst(t) PROVE IInv'
<1> DEFINE Fees(reading) == [max |-> initialMaxFeePerGas(reading), tip |-> Tip]
<1>1. PICK reading \in Readings :
        LET tx == Transaction(t, Fees(reading))
        IN  IF Accepts(tx)
            THEN /\ pool' = [pool EXCEPT ![tx.nonce] = tx]
                 /\ \/ /\ task' = [task EXCEPT ![t].pc = "wait", ![t].fees = Fees(reading),
                                               ![t].sent = <<tx>>]
                       /\ known' = [known EXCEPT ![t] = @ \cup {tx}]
                       /\ UNCHANGED faults
                    \/ Fault /\ task' = Fail(t) /\ UNCHANGED known
            ELSE task' = Fail(t) /\ UNCHANGED <<pool, known, faults>>
  BY DEF SendFirst
<1> DEFINE f == Fees(reading)
           tx == Transaction(t, f)
<1>2. /\ task[t].pc = "send"
      /\ UNCHANGED <<baseFee, moves, mined, current, begun, counted, gaveUp, underpriced>>
  BY DEF SendFirst, At
<1>3. f \in FeesType /\ f.max <= Cap /\ f.tip <= f.max
  BY FirstFees DEF FeesType, IInv
<1> HIDE DEF f
<1>4. /\ tx \in TransactionType /\ tx.nonce = task[t].nonce /\ tx.batch = task[t].batch
      /\ tx.max = f.max /\ tx.tip = f.tip
  BY <1>2, <1>3, TransactionIs
<1> HIDE DEF tx
<1>5. IF Accepts(tx)
      THEN /\ pool' = [pool EXCEPT ![tx.nonce] = tx]
           /\ \/ /\ task' = [task EXCEPT ![t].pc = "wait", ![t].fees = f, ![t].sent = <<tx>>]
                 /\ known' = [known EXCEPT ![t] = @ \cup {tx}]
                 /\ UNCHANGED faults
              \/ Fault /\ task' = Fail(t) /\ UNCHANGED known
      ELSE task' = Fail(t) /\ UNCHANGED <<pool, known, faults>>
  BY <1>1 DEF f, tx
<1>6. /\ task[t].bumps = 0 /\ task[t].batch # None /\ faults \in Nat
      /\ \A x \in known[t] : x.batch # task[t].batch
  BY <1>2, Before DEF TaskInv, KnownInv, Fresh, IInv, TypeOK
<1>7. CASE /\ Accepts(tx) /\ pool' = [pool EXCEPT ![tx.nonce] = tx] /\ UNCHANGED faults
           /\ task' = [task EXCEPT ![t].pc = "wait", ![t].fees = f, ![t].sent = <<tx>>]
           /\ known' = [known EXCEPT ![t] = @ \cup {tx}]
  <2> DEFINE r == [task[t] EXCEPT !.pc = "wait", !.fees = f, !.sent = <<tx>>]
  <2>1. <<tx>> \in Seq(TransactionType) /\ Len(<<tx>>) = 1 /\ ToSet(<<tx>>) = {tx}
    BY <1>4 DEF ToSet
  <2>2. r \in TaskType
    BY <1>3, <2>1, Before DEF TaskType
  <2>3. task' = [task EXCEPT ![t] = r]
    BY <1>7, Before
  <2>4. Only(t) /\ task'[t] = r
    <3> HIDE DEF r
    <3> QED
      BY <2>2, <2>3, Before DEF Only
  <2>5. /\ task'[t].pc = "wait" /\ task'[t].fees = f /\ task'[t].sent = <<tx>>
        /\ task'[t].batch = task[t].batch /\ task'[t].nonce = task[t].nonce
        /\ task'[t].bumps = 0 /\ task'[t].nextNonce = task[t].nextNonce
    BY <1>6, <2>4, Before DEF TaskType
  <2>6. f # None
    BY <1>3 DEF BaseloadAssumption
  <2>7. TaskInv(t)'
    BY <1>2, <1>6, <2>5, <2>6, Before DEF TaskInv, Fresh, Waits, latest
  <2>8. known'[t] = known[t] \cup {tx}
    BY <1>7 DEF IInv, TypeOK
  <2>9. ToSet(task'[t].sent) = {x \in known'[t] : x.batch = task[t].batch}
    BY <1>4, <1>6, <2>1, <2>5, <2>8
  <2>10. Sends(t, tx)
    <3>1. faults' \in Int /\ faults' >= faults
      BY <1>6, <1>7
    <3>2. tx.max <= Cap /\ tx.tip <= tx.max
      BY <1>3, <1>4
    <3>3. task'[t].fees.max = tx.max /\ task'[t].fees.tip = tx.tip
      BY <1>4, <2>5
    <3>4. task[t].pc # "bump"
      BY <1>2
    <3> QED
      BY <1>2, <1>4, <1>7, <2>4, <2>5, <2>7, <2>9, <3>1, <3>2, <3>3, <3>4 DEF Sends
  <2>11. Len(task'[t].sent) <= task'[t].bumps + 1
    BY <2>1, <2>5
  <2> QED
    BY <1>2, <1>4, <1>7, <2>10, <2>11, SentKeeps
<1>8. CASE /\ Accepts(tx) /\ pool' = [pool EXCEPT ![tx.nonce] = tx] /\ Fault
           /\ task' = Fail(t) /\ UNCHANGED known
  <2>1. /\ Only(t) /\ TaskInv(t)' /\ Len(task'[t].sent) <= task'[t].bumps + 1
        /\ task'[t].pc = "idle" /\ task'[t].batch = task[t].batch
    BY <1>2, <1>8, FreshFails
  <2>2. faults' \in Int /\ faults' >= faults
    BY <1>8, FaultKeeps, TypeSplits DEF IInv
  <2>3. Sends(t, tx)
    BY <1>2, <1>3, <1>4, <1>8, <2>1, <2>2 DEF Sends
  <2> QED
    BY <1>2, <1>4, <1>8, <2>1, <2>3, SentKeeps
<1>9. CASE task' = Fail(t) /\ UNCHANGED <<pool, known, faults>>
  <2>1. /\ Goes(t) /\ TaskInv(t)' /\ Len(task'[t].sent) <= task'[t].bumps + 1
    BY <1>2, <1>9, FreshFails
  <2>2. Plain
    BY <1>2, <1>9, Before DEF Plain, node, histories
  <2> QED
    BY <2>1, <2>2, PlainKeeps
<1> QED
  BY <1>5, <1>7, <1>8, <1>9

LEMMA BumpKeeps == ASSUME BaseloadAssumption, IInv, NEW t \in Tasks, Bump(t) PROVE IInv'
<1> DEFINE f == NextFees(t)
           tx == Transaction(t, f)
           bumped == [task EXCEPT ![t].pc = "wait", ![t].fees = f, ![t].bumps = @ + 1]
<1>1. /\ task[t].pc = "bump" /\ f # None
      /\ UNCHANGED <<baseFee, moves, mined, current, begun, counted, gaveUp>>
  BY DEF Bump, At
<1>2. IF Accepts(tx)
      THEN /\ pool' = [pool EXCEPT ![tx.nonce] = tx]
           /\ \/ /\ task' = [bumped EXCEPT ![t].sent = Append(@, tx)]
                 /\ known' = [known EXCEPT ![t] = @ \cup {tx}]
                 /\ UNCHANGED faults
              \/ Fault /\ task' = bumped /\ UNCHANGED known
           /\ UNCHANGED underpriced
      ELSE /\ task' = bumped
           /\ underpriced' = (underpriced \/ /\ tx.nonce >= latest
                                             /\ pool[tx.nonce].batch = tx.batch)
           /\ UNCHANGED <<pool, known, faults>>
  BY DEF Bump
<1>3. task[t].fees \in FeesType /\ task[t].bumps \in Nat /\ task[t].bumps + 1 \in 0..MaxBumps
      /\ f = bumpReplacementFees(task[t].fees)
  <2>1. task[t].fees \in FeesType /\ task[t].bumps \in 0..MaxBumps /\ MaxBumps \in Nat
    BY <1>1, Before DEF TaskType, Waits
  <2>2. task[t].bumps < MaxBumps /\ f = bumpReplacementFees(task[t].fees)
    BY <1>1 DEF NextFees
  <2> HIDE DEF f
  <2> QED
    BY <2>1, <2>2, SMT
<1> HIDE DEF f
<1>4. /\ f \in FeesType /\ f.max <= Cap /\ f.tip <= f.max
      /\ f.max * 100 > task[t].fees.max * 110 /\ f.tip * 100 > task[t].fees.tip * 110
  BY <1>1, <1>3, BumpedFees
<1>5. task[t].fees.max <= f.max /\ task[t].fees.tip <= f.tip
  BY <1>3, <1>4, SMT DEF FeesType
<1>6. /\ tx \in TransactionType /\ tx.nonce = task[t].nonce /\ tx.batch = task[t].batch
      /\ tx.max = f.max /\ tx.tip = f.tip
  BY <1>1, <1>4, TransactionIs DEF Waits
<1> HIDE DEF tx
<1> DEFINE r == [task[t] EXCEPT !.pc = "wait", !.fees = f, !.bumps = @ + 1]
           s == [task[t] EXCEPT !.pc = "wait", !.fees = f, !.bumps = @ + 1,
                                !.sent = Append(@, tx)]
<1>7. task[t].sent \in Seq(TransactionType) /\ known[t] \subseteq TransactionType
      /\ known \in [Tasks -> SUBSET TransactionType]
  BY Before DEF TaskType, IInv, TypeOK
<1>8. /\ Append(task[t].sent, tx) \in Seq(TransactionType)
      /\ Len(Append(task[t].sent, tx)) = Len(task[t].sent) + 1
      /\ ToSet(Append(task[t].sent, tx)) = ToSet(task[t].sent) \cup {tx}
  BY <1>6, <1>7, AppendAdds
<1>9. r \in TaskType /\ s \in TaskType
  <2>1. r \in TaskType
    BY <1>3, <1>4, Before DEF TaskType
  <2>2. s = [r EXCEPT !.sent = Append(task[t].sent, tx)]
    BY Before DEF TaskType
  <2> HIDE DEF r, s
  <2> QED
    BY <1>8, <2>1, <2>2 DEF TaskType
<1>10. /\ bumped = [task EXCEPT ![t] = r]
       /\ [bumped EXCEPT ![t].sent = Append(@, tx)] = [task EXCEPT ![t] = s]
  BY Before DEF TaskType
<1>11. /\ r.pc = "wait" /\ r.fees = f /\ r.sent = task[t].sent /\ r.bumps = task[t].bumps + 1
       /\ r.batch = task[t].batch /\ r.nonce = task[t].nonce /\ r.nextNonce = task[t].nextNonce
       /\ s.pc = "wait" /\ s.fees = f /\ s.sent = Append(task[t].sent, tx)
       /\ s.bumps = task[t].bumps + 1
       /\ s.batch = task[t].batch /\ s.nonce = task[t].nonce /\ s.nextNonce = task[t].nextNonce
  BY Before DEF TaskType
<1>12. Len(task[t].sent) <= task[t].bumps + 2 /\ Len(task[t].sent) + 1 <= task[t].bumps + 2
  BY <1>3, Before, SMT
<1> HIDE DEF r, s, bumped
<1>13. CASE /\ Accepts(tx) /\ pool' = [pool EXCEPT ![tx.nonce] = tx]
            /\ UNCHANGED <<faults, underpriced>> /\ task' = [task EXCEPT ![t] = s]
            /\ known' = [known EXCEPT ![t] = @ \cup {tx}]
  <2>1. Only(t) /\ task'[t] = s
    BY <1>9, <1>13, Before DEF Only
  <2>2. TaskInv(t)'
    BY <1>1, <1>11, <2>1, Before DEF TaskInv, Fresh, Waits, latest
  <2>3. known'[t] = known[t] \cup {tx}
    BY <1>7, <1>13
  <2>4. ToSet(s.sent) = {x \in known'[t] : x.batch = task[t].batch}
    <3>1. ToSet(task[t].sent) = {x \in known[t] : x.batch = task[t].batch}
      BY <1>1, Copies DEF Waits
    <3> QED
      BY <1>6, <1>8, <1>11, <2>3, <3>1
  <2>5. Sends(t, tx)
    <3>1. faults' \in Int /\ faults' >= faults
      BY <1>13 DEF IInv, TypeOK
    <3>2. /\ tx.max <= Cap /\ tx.tip <= tx.max
          /\ task[t].fees.max <= tx.max /\ task[t].fees.tip <= tx.tip
      BY <1>4, <1>5, <1>6
    <3> QED
      BY <1>1, <1>6, <1>11, <1>13, <2>1, <2>2, <2>4, <3>1, <3>2 DEF Sends
  <2>6. Len(task'[t].sent) <= task'[t].bumps + 1
    BY <1>3, <1>8, <1>11, <1>12, <2>1, SMT
  <2> QED
    BY <1>1, <1>6, <1>13, <2>5, <2>6, SentKeeps
<1>14. CASE /\ Accepts(tx) /\ pool' = [pool EXCEPT ![tx.nonce] = tx] /\ Fault
            /\ task' = [task EXCEPT ![t] = r] /\ UNCHANGED <<known, underpriced>>
  <2>1. Only(t) /\ task'[t] = r
    BY <1>9, <1>14, Before DEF Only
  <2>2. TaskInv(t)'
    BY <1>1, <1>11, <2>1, Before DEF TaskInv, Fresh, Waits, latest
  <2>3. ToSet(r.sent) = {x \in known'[t] : x.batch = task[t].batch}
    BY <1>1, <1>11, <1>14, Copies DEF Waits
  <2>4. faults' \in Int /\ faults' >= faults
    BY <1>14, FaultKeeps, TypeSplits DEF IInv
  <2>5. Sends(t, tx)
    <3>1. /\ tx.max <= Cap /\ tx.tip <= tx.max
          /\ task[t].fees.max <= tx.max /\ task[t].fees.tip <= tx.tip
      BY <1>4, <1>5, <1>6
    <3> QED
      <4>1. /\ known' = known /\ task'[t].pc = "wait" /\ task'[t].batch = task[t].batch
            /\ task'[t].nonce = task[t].nonce /\ task'[t].fees.max = tx.max
            /\ task'[t].fees.tip = tx.tip
            /\ ToSet(task'[t].sent) = {x \in known'[t] : x.batch = task[t].batch}
        BY <1>6, <1>11, <1>14, <2>1, <2>3
      <4> QED
        BY <1>1, <1>6, <1>14, <2>1, <2>2, <2>4, <3>1, <4>1 DEF Sends
  <2>6. Len(task'[t].sent) <= task'[t].bumps + 1
    <3>1. task'[t].sent = task[t].sent /\ task'[t].bumps = task[t].bumps + 1
      BY <1>11, <2>1
    <3>2. Len(task[t].sent) \in Nat /\ task[t].bumps \in Nat
      BY <1>3, Before
    <3> QED
      BY <1>12, <3>1, <3>2
  <2> QED
    BY <1>1, <1>6, <1>14, <2>5, <2>6, SentKeeps
<1>15. CASE /\ ~Accepts(tx) /\ task' = [task EXCEPT ![t] = r] /\ UNCHANGED <<pool, known, faults>>
            /\ underpriced' = (underpriced \/ /\ tx.nonce >= latest
                                              /\ pool[tx.nonce].batch = tx.batch)
  \* What the pool holds of this batch pays no more than the fees this bump started from.
  <2>1. ~(tx.nonce >= latest /\ pool[tx.nonce].batch = tx.batch)
    <3> SUFFICES ASSUME tx.nonce >= latest, pool[tx.nonce].batch = tx.batch PROVE FALSE
      OBVIOUS
    <3>1. pool[tx.nonce] # None /\ ~Replaces(pool[tx.nonce], tx)
      BY <1>15 DEF Accepts
    <3>2. tx.nonce \in Slots
      BY <1>1, <1>6, Copies, InSlots DEF Waits
    <3> DEFINE old == pool[tx.nonce]
    <3>3. old \in Sent /\ old \in TransactionType
      BY <3>1, <3>2, SentAre, SentTypes DEF IInv
    <3> HIDE DEF old
    <3>4. SentInv(old) /\ old.batch = task[t].batch
      BY <1>6, <3>3 DEF IInv, Node, AllSentInv, old
    <3>5. old.max <= task[t].fees.max /\ old.tip <= task[t].fees.tip
      BY <1>1, <3>4 DEF SentInv, Waits
    <3>6. old.max \in Nat /\ old.tip \in Nat /\ task[t].fees.max \in Nat /\ task[t].fees.tip \in Nat
          /\ f.max \in Nat /\ f.tip \in Nat
      BY <1>3, <1>4, <3>3 DEF TransactionType, FeesType
    <3>7. f.max * 100 >= old.max * 110 /\ f.tip * 100 >= old.tip * 110
      BY <1>4, <3>5, <3>6, SMT
    <3> QED
      BY <1>6, <3>1, <3>7 DEF Replaces, old
  <2>2. underpriced' = underpriced
    BY <1>15, <2>1 DEF IInv, TypeOK
  <2>3. Only(t) /\ task'[t] = r
    BY <1>9, <1>15, Before DEF Only
  <2>4. f # None
    BY <1>1
  <2>5. Goes(t)
    BY <1>1, <1>5, <1>11, <2>3, <2>4 DEF Goes, Fresh, Waits, Over
  <2>6. TaskInv(t)'
    BY <1>1, <1>11, <2>3, Before DEF TaskInv, Fresh, Waits, latest
  <2>7. Len(task'[t].sent) <= task'[t].bumps + 1
    BY <1>3, <1>11, <1>12, <2>3, Before, SMT
  <2>8. Plain
    BY <1>1, <1>15, <2>2, Before DEF Plain, node, histories
  <2> QED
    BY <2>5, <2>6, <2>7, <2>8, PlainKeeps
<1> QED
  BY <1>2, <1>10, <1>13, <1>14, <1>15

-----------------------------------------------------------------------------
LEMMA StepHolds == BaseloadAssumption /\ IInv /\ [Next]_vars => IInv'
<1> SUFFICES ASSUME BaseloadAssumption, IInv, [Next]_vars PROVE IInv'
  OBVIOUS
<1>1. CASE FeeMoves \/ Mine \/ Foreign \/ StopWorker \/ StartWorker
  BY <1>1, FeeMovesKeeps, MineKeeps, StopWorkerKeeps, StartWorkerKeeps
<1>2. ASSUME NEW t \in Tasks, Begin(t) \/ Finish(t) \/ TaskStep(t) PROVE IInv'
  <2>1. CASE Begin(t) \/ Finish(t) \/ ReadNonce(t) \/ SendFirst(t)
    BY <2>1, BeginKeeps, FinishKeeps, ReadNonceKeeps, SendFirstKeeps
  <2>2. CASE Poll(t)
    BY <2>2, SettleKeeps DEF Poll, At, Waits
  <2>3. CASE StopWaiting(t) \/ StopBumping(t)
    BY <2>3, StopKeeps
  <2>4. CASE TimedOut(t) \/ Unspent(t) \/ Spent(t)
    BY <2>4, TimedOutKeeps, UnspentKeeps, SpentKeeps
  <2>5. CASE NoMoreBumps(t) \/ Bump(t)
    BY <2>5, NoMoreBumpsKeeps, BumpKeeps
  <2> QED
    BY <1>2, <2>1, <2>2, <2>3, <2>4, <2>5 DEF TaskStep
<1>3. CASE UNCHANGED vars
  <2>1. UNCHANGED <<mined, pool, task, current, begun, known, counted, gaveUp, underpriced,
                    faults, baseFee, moves>>
    BY <1>3 DEF vars
  <2> QED
    BY <2>1 DEF IInv, TypeOK, TasksInv, TaskInv, KnownInv, NoTwice, Node, AllSentInv, SentInv,
       OneNonce, PoolInv, MinedInv, SpentInv, MinedBatches, Sent, Transactions, latest,
       CountedInv, GaveUpInv, NeverUnderpriced
<1> QED
  BY <1>1, <1>2, <1>3 DEF Next

LEMMA IInvImplies == BaseloadAssumption /\ IInv => FeesHold /\ BatchesAccounted
<1> SUFFICES ASSUME BaseloadAssumption, IInv PROVE FeesHold /\ BatchesAccounted
  OBVIOUS
<1>1. WithinCap
  BY DEF IInv, Node, AllSentInv, SentInv, Sent, WithinCap
<1>2. NoForeignBatch
  <2> SUFFICES ASSUME NEW t \in Tasks, task[t].pc = "send", pool[task[t].nonce] \in known[t]
               PROVE  FALSE
    BY DEF NoForeignBatch, At
  <2> DEFINE n == task[t].nonce
  <2>1. n \in Nat /\ n <= latest /\ n \in Slots
    BY Before, InSlots DEF TaskInv, TaskType
  <2>2. pool[n] # None
    BY DEF IInv, TypeOK, BaseloadAssumption
  <2>3. pool[n].nonce = n /\ n >= latest
    BY <2>1, <2>2 DEF IInv, Node, PoolInv
  <2>4. pool[n].nonce < latest
    BY Before DEF KnownInv, Waits
  <2> HIDE DEF n
  <2> QED
    BY <2>1, <2>3, <2>4, Before, SMT
<1>3. CountedWasMined
  <2>1. DOMAIN mined = 1..latest
    BY DEF IInv, TypeOK, latest
  <2> QED
    BY <2>1 DEF IInv, CountedInv, GaveUpInv, CountedWasMined
<1> QED
  BY <1>1, <1>2, <1>3 DEF IInv, FeesHold, BatchesAccounted

\* No worker pays more than its cap, and none of its replacements is refused because it
\* pays too little: each pays more than a tenth over whatever copy the node may hold,
\* also over one whose send seemed to fail.
THEOREM FeesAlwaysHold == ASSUME BaseloadAssumption PROVE Spec => []FeesHold
<1>1. Init => IInv
  BY InitHolds
<1>2. IInv /\ [Next]_vars => IInv'
  BY StepHolds
<1>3. IInv => FeesHold
  BY IInvImplies
<1> QED
  BY <1>1, <1>2, <1>3, PTL DEF Spec

\* While the node holds a copy that a task knows of, the task sends no other batch over
\* it, and what the task makes of a batch is what became of it.
THEOREM BatchesAreAccounted == ASSUME BaseloadAssumption PROVE Spec => []BatchesAccounted
<1>1. Init => IInv
  BY InitHolds
<1>2. IInv /\ [Next]_vars => IInv'
  BY StepHolds
<1>3. IInv => BatchesAccounted
  BY IInvImplies
<1> QED
  BY <1>1, <1>2, <1>3, PTL DEF Spec

-----------------------------------------------------------------------------
(* The wallet.  What it holds and what is on its way to it differ from the *)
(* balance that was read by the drips that were mined or sent since.       *)

Drips(n) == Drip * n
Held(b, p) == b + Drips(Len(p))

PollType == [pc : {"idle", "asking", "reading", "login", "post", "posted"},
             age : 0..Latency, seen : Nat, again : BOOLEAN]

WalletTypes ==
  /\ balance \in Nat /\ pending \in Seq(0..MineTime) /\ poll \in PollType
  /\ wait \in 0..PollInterval /\ lastDrip \in 0..Cooldown \cup {None}
  /\ cookie \in BOOLEAN /\ session \in BOOLEAN
  /\ spent \in 0..MaxSpend /\ lost \in 0..MaxLost

\* Every drip on its way was forgotten with a fault, but for the last one: that one the
\* backend is about to remember, or remembers, and it is no younger than that.
LastRemembered ==
  /\ Len(pending) <= lost + 1
  /\ Len(pending) = lost + 1 =>
       poll.pc = "posted" \/ (lastDrip # None /\ lastDrip <= pending[Len(pending)])

\* The balance that was read lacks the drips that were forgotten, and one more only if it
\* is remembered and was sent too late to have been mined.
ReadTrue ==
  poll.pc = "reading" =>
    \/ Held(balance, pending) <= poll.seen + Drips(lost)
    \/ /\ lastDrip # None /\ lastDrip <= MineTime + poll.age
       /\ Held(balance, pending) <= poll.seen + Drips(lost + 1)

\* There is room for the drip that was decided upon.
RoomForDrip ==
  poll.pc \in {"login", "post"} =>
    Len(pending) <= lost /\ Held(balance, pending) < Floor + Drips(lost)

WalletInv ==
  /\ WalletTypes /\ LastRemembered /\ ReadTrue /\ RoomForDrip
  /\ Held(balance, pending) < Floor + Drips(lost + 1)

LEMMA FaucetConstants ==
  /\ Floor \in Nat \ {0} /\ Drip \in Nat \ {0} /\ Ceiling \in Nat /\ Cooldown \in Nat
  /\ PollInterval \in Nat \ {0} /\ MineTime \in Nat /\ Latency \in Nat
  /\ MineTime + Latency < Cooldown /\ MaxSpend \in Nat /\ MaxLost \in Nat /\ None \notin Int
  BY FaucetBounds DEF Faucet!FaucetAssumption

LEMMA DripsAdd ==
  ASSUME NEW n \in Nat
  PROVE  Drips(n) \in Nat /\ Drips(n + 1) = Drips(n) + Drip
  BY FaucetConstants DEF Drips

LEMMA DripsGrow ==
  ASSUME NEW m \in Nat, NEW n \in Nat, m <= n
  PROVE  Drips(m) <= Drips(n)
<1> DEFINE d == n - m
<1>1. d \in Nat /\ n = m + d
  OBVIOUS
<1>2. Drip * n = Drip * m + Drip * d
  BY <1>1, FaucetConstants
<1>3. Drip * d \in Nat /\ Drip * m \in Nat
  BY <1>1, FaucetConstants
<1> QED
  BY <1>2, <1>3 DEF Drips

LEMMA SequenceOf ==
  ASSUME NEW S, NEW s \in Seq(S)
  PROVE  DOMAIN s = 1..Len(s) /\ Len(s) \in Nat /\ \A i \in 1..Len(s) : s[i] \in S
  OBVIOUS

LEMMA NoPollTyped == Faucet!NoPoll \in PollType /\ Faucet!NoPoll.pc = "idle"
  BY FaucetConstants DEF PollType, Faucet!NoPoll

LEMMA WalletStarts == Faucet!Init => WalletInv
<1> SUFFICES ASSUME Faucet!Init PROVE WalletInv
  OBVIOUS
<1>1. /\ balance = 0 /\ pending = << >> /\ poll = Faucet!NoPoll /\ wait = 0 /\ lastDrip = None
      /\ cookie = FALSE /\ session = FALSE /\ spent = 0 /\ lost = 0
  BY DEF Faucet!Init
<1>2. Drips(0) = 0 /\ Drips(0 + 1) = Drip
  BY FaucetConstants DEF Drips
<1>3. WalletTypes
  <2>1. poll \in PollType
    BY <1>1, NoPollTyped
  <2>2. pending \in Seq(0..MineTime)
    BY <1>1
  <2>3. 0 \in 0..PollInterval /\ 0 \in 0..MaxSpend /\ 0 \in 0..MaxLost
    BY FaucetConstants
  <2> QED
    BY <1>1, <2>1, <2>2, <2>3 DEF WalletTypes
<1>4. Len(pending) = 0
  BY <1>1
<1>5. poll.pc = "idle"
  BY <1>1 DEF Faucet!NoPoll
<1>6. LastRemembered /\ ReadTrue /\ RoomForDrip
  BY <1>1, <1>4, <1>5 DEF LastRemembered, ReadTrue, RoomForDrip
<1>7. Held(balance, pending) < Floor + Drips(lost + 1)
  BY <1>1, <1>2, <1>4, FaucetConstants DEF Held
<1> QED
  BY <1>3, <1>6, <1>7 DEF WalletInv

\* What the proofs of the steps need of what the wallet holds.
LEMMA HeldIsNat ==
  ASSUME WalletTypes
  PROVE  /\ Len(pending) \in Nat /\ Held(balance, pending) \in Nat
         /\ Drips(lost) \in Nat /\ Drips(lost + 1) = Drips(lost) + Drip
         /\ lost + 1 \in Nat /\ Drips(lost + 1 + 1) = Drips(lost) + Drip + Drip
<1>1. Len(pending) \in Nat /\ lost \in Nat /\ balance \in Nat
  BY FaucetConstants DEF WalletTypes
<1>2. Drips(Len(pending)) \in Nat
  BY <1>1, DripsAdd
<1>3. lost + 1 \in Nat
  BY <1>1
<1>5. Drips(lost) \in Nat /\ Drips(lost + 1) = Drips(lost) + Drip
  BY <1>1, DripsAdd
<1>4. Drips(lost + 1 + 1) = Drips(lost + 1) + Drip
  BY <1>3, DripsAdd
<1> QED
  BY <1>1, <1>2, <1>3, <1>4, <1>5, FaucetConstants DEF Held

\* A fault: the poll ends, or only the session does.
LEMMA WalletFaultKeeps ==
  ASSUME WalletInv, lost < MaxLost, lost' = lost + 1,
         balance' = balance, pending' = pending, spent' = spent,
         poll' = Faucet!NoPoll \/ (poll' = poll /\ lastDrip' = lastDrip),
         wait' \in 0..PollInterval, lastDrip' \in {lastDrip, None},
         cookie' \in BOOLEAN, session' \in BOOLEAN
  PROVE  WalletInv'
<1>1. /\ Len(pending) \in Nat /\ Held(balance, pending) \in Nat
      /\ Drips(lost) \in Nat /\ Drips(lost + 1) = Drips(lost) + Drip
      /\ lost + 1 \in Nat /\ Drips(lost + 1 + 1) = Drips(lost) + Drip + Drip
  BY HeldIsNat DEF WalletInv
<1>2. WalletTypes'
  <2>1. WalletTypes
    BY DEF WalletInv
  <2>2. poll' \in PollType
    BY <2>1, NoPollTyped DEF WalletTypes
  <2>3. lost + 1 \in 0..MaxLost
    BY <2>1, FaucetConstants DEF WalletTypes
  <2> QED
    BY <2>1, <2>2, <2>3 DEF WalletTypes
<1>3. Len(pending) <= lost + 1 /\ lost \in Nat
  BY FaucetConstants DEF WalletInv, LastRemembered, WalletTypes
<1>4. LastRemembered'
  BY <1>1, <1>3 DEF LastRemembered
<1>5. Held(balance, pending)' = Held(balance, pending)
  BY DEF Held
<1>6. ReadTrue'
  <2>1. CASE poll' = Faucet!NoPoll
    BY <2>1 DEF ReadTrue, Faucet!NoPoll
  <2>2. CASE poll' = poll /\ lastDrip' = lastDrip
    <3>1. poll.seen \in Nat
      BY DEF WalletInv, WalletTypes, PollType
    <3> QED
      BY <1>1, <1>5, <2>2, <3>1, FaucetConstants DEF WalletInv, ReadTrue
  <2> QED
    BY <2>1, <2>2
<1>7. RoomForDrip'
  BY <1>1, <1>3, <1>5, FaucetConstants DEF WalletInv, RoomForDrip, Faucet!NoPoll
<1>8. (Held(balance, pending) < Floor + Drips(lost + 1))'
  BY <1>1, <1>5, FaucetConstants DEF WalletInv
<1> QED
  BY <1>2, <1>4, <1>6, <1>7, <1>8 DEF WalletInv

\* A poll that leaves the wallet and what is on its way alone.
LEMMA PollKeeps ==
  ASSUME WalletInv, lost' = lost, balance' = balance, pending' = pending, spent' = spent,
         session' \in BOOLEAN, cookie' \in BOOLEAN, wait' \in 0..PollInterval,
         poll' \in PollType, poll'.pc # "posted", poll.pc # "posted", lastDrip' = lastDrip,
         ReadTrue', RoomForDrip'
  PROVE  WalletInv'
<1>1. WalletTypes'
  BY DEF WalletInv, WalletTypes
<1>2. Held(balance, pending)' = Held(balance, pending)
  BY DEF Held
<1>3. LastRemembered'
  BY DEF WalletInv, LastRemembered
<1> QED
  BY <1>1, <1>2, <1>3 DEF WalletInv

LEMMA TickKeeps == WalletInv /\ Faucet!Tick => WalletInv'
<1> SUFFICES ASSUME WalletInv, Faucet!Tick PROVE WalletInv'
  OBVIOUS
<1>1. /\ \A i \in DOMAIN pending : pending[i] < MineTime
      /\ pending' = [i \in DOMAIN pending |-> pending[i] + 1]
      /\ poll.pc = "reading" => poll.age < Latency
      /\ poll' = IF poll.pc = "reading" THEN [poll EXCEPT !.age = @ + 1] ELSE poll
      /\ wait' = IF wait > 0 THEN wait - 1 ELSE 0
      /\ lastDrip' = IF lastDrip # None /\ lastDrip < Cooldown THEN lastDrip + 1 ELSE lastDrip
      /\ UNCHANGED <<balance, cookie, session, spent, lost>>
  BY DEF Faucet!Tick
<1>2. /\ pending' \in Seq(0..MineTime) /\ Len(pending') = Len(pending)
      /\ Len(pending) \in Nat
      /\ \A i \in 1..Len(pending) : pending[i] \in 0..MineTime /\ pending'[i] = pending[i] + 1
  <2>1. /\ DOMAIN pending = 1..Len(pending) /\ Len(pending) \in Nat
        /\ \A i \in 1..Len(pending) : pending[i] \in 0..MineTime
    <3>1. pending \in Seq(0..MineTime)
      BY DEF WalletInv, WalletTypes
    <3> QED
      BY <3>1, SequenceOf
  <2>2. \A i \in 1..Len(pending) : pending[i] + 1 \in 0..MineTime
    BY <1>1, <2>1, FaucetConstants
  <2> QED
    BY <1>1, <2>1, <2>2
<1>3. /\ poll' \in PollType /\ poll'.pc = poll.pc /\ poll'.seen = poll.seen
      /\ poll.pc = "reading" => poll'.age = poll.age + 1
  <2>1. poll \in PollType
    BY DEF WalletInv, WalletTypes
  <2>2. poll.pc = "reading" => poll.age + 1 \in 0..Latency
    BY <1>1, <2>1, FaucetConstants DEF PollType
  <2> QED
    BY <1>1, <2>1, <2>2 DEF PollType
<1>4. /\ lastDrip' \in 0..Cooldown \cup {None} /\ wait' \in 0..PollInterval
      /\ lastDrip # None => lastDrip' # None /\ lastDrip' <= lastDrip + 1 /\ lastDrip \in Nat
  <2>1. wait \in 0..PollInterval /\ lastDrip \in 0..Cooldown \cup {None}
    BY DEF WalletInv, WalletTypes
  <2>2. wait' \in 0..PollInterval
    BY <1>1, <2>1, FaucetConstants
  <2>3. CASE lastDrip = None
    BY <1>1, <2>2, <2>3
  <2>4. CASE lastDrip # None
    BY <1>1, <2>1, <2>2, <2>4, FaucetConstants
  <2> QED
    BY <2>3, <2>4
<1>5. WalletTypes'
  BY <1>1, <1>2, <1>3, <1>4 DEF WalletInv, WalletTypes
<1>6. lost \in Nat
  BY FaucetConstants DEF WalletInv, WalletTypes
<1>7. LastRemembered'
  <2>1. Len(pending) <= lost + 1
    BY DEF WalletInv, LastRemembered
  <2>2. ASSUME Len(pending) = lost + 1, poll.pc # "posted"
        PROVE  lastDrip' # None /\ lastDrip' <= pending'[Len(pending')]
    <3>1. lastDrip # None /\ lastDrip <= pending[Len(pending)]
      BY <2>2 DEF WalletInv, LastRemembered
    <3>2. Len(pending) \in 1..Len(pending)
      BY <1>2, <1>6, <2>2
    <3> QED
      BY <1>2, <1>4, <3>1, <3>2, FaucetConstants
  <2> QED
    BY <1>1, <1>2, <1>3, <2>1, <2>2 DEF LastRemembered
<1>8. Held(balance, pending)' = Held(balance, pending)
  BY <1>1, <1>2 DEF Held
<1>9. ReadTrue'
  <2>1. poll.age \in Nat
    BY FaucetConstants DEF WalletInv, WalletTypes, PollType
  <2> QED
    BY <1>1, <1>3, <1>4, <1>8, <2>1, FaucetConstants DEF WalletInv, ReadTrue
<1>10. RoomForDrip'
  BY <1>1, <1>2, <1>3, <1>8 DEF WalletInv, RoomForDrip
<1> QED
  BY <1>1, <1>5, <1>7, <1>8, <1>9, <1>10 DEF WalletInv

LEMMA WalletMineKeeps == WalletInv /\ Faucet!Mine => WalletInv'
<1> SUFFICES ASSUME WalletInv, Faucet!Mine PROVE WalletInv'
  OBVIOUS
<1>1. /\ pending # << >> /\ pending' = Tail(pending) /\ balance' = balance + Drip
      /\ UNCHANGED <<poll, wait, lastDrip, cookie, session, spent, lost>>
  BY DEF Faucet!Mine
<1>2. /\ Len(pending) \in Nat \ {0} /\ Len(pending') = Len(pending) - 1
      /\ pending' \in Seq(0..MineTime)
  <2>1. pending \in Seq(0..MineTime)
    BY DEF WalletInv, WalletTypes
  <2> QED
    BY <1>1, <2>1
<1>3. Held(balance, pending)' = Held(balance, pending)
  <2>1. Drips(Len(pending') + 1) = Drips(Len(pending')) + Drip /\ Drips(Len(pending')) \in Nat
    <3>1. Len(pending') \in Nat
      BY <1>2
    <3> QED
      BY <3>1, DripsAdd
  <2>2. Len(pending') + 1 = Len(pending)
    BY <1>2
  <2>3. balance \in Nat
    BY DEF WalletInv, WalletTypes
  <2> QED
    BY <1>1, <2>1, <2>2, <2>3, FaucetConstants DEF Held
<1>4. balance' \in Nat
  BY <1>1, FaucetConstants DEF WalletInv, WalletTypes
<1>5. lost \in Nat
  BY FaucetConstants DEF WalletInv, WalletTypes
<1>6. Len(pending) <= lost + 1
  BY DEF WalletInv, LastRemembered
<1>7. Len(pending') <= lost /\ Len(pending') # lost + 1
  BY <1>2, <1>5, <1>6
<1>8. LastRemembered' /\ RoomForDrip'
  BY <1>1, <1>3, <1>5, <1>7 DEF WalletInv, LastRemembered, RoomForDrip
<1> QED
  BY <1>1, <1>2, <1>3, <1>4, <1>8 DEF WalletInv, WalletTypes, ReadTrue

LEMMA WalletSpendKeeps == WalletInv /\ Faucet!Spend => WalletInv'
<1> SUFFICES ASSUME WalletInv, Faucet!Spend PROVE WalletInv'
  OBVIOUS
<1>1. /\ balance > 0 /\ spent < MaxSpend /\ balance' = balance - 1 /\ spent' = spent + 1
      /\ UNCHANGED <<pending, poll, wait, lastDrip, cookie, session, lost>>
  BY DEF Faucet!Spend
<1>2. balance' \in Nat /\ spent' \in 0..MaxSpend
  BY <1>1, FaucetConstants DEF WalletInv, WalletTypes
<1>3. /\ Len(pending) \in Nat /\ Held(balance, pending) \in Nat
      /\ Drips(lost) \in Nat /\ Drips(lost + 1) = Drips(lost) + Drip
  BY HeldIsNat DEF WalletInv
<1>4. Drips(Len(pending)) \in Nat /\ balance \in Nat /\ poll.seen \in Nat
  BY <1>3, DripsAdd DEF WalletInv, WalletTypes, PollType
<1>5. Held(balance, pending)' = Held(balance, pending) - 1
  BY <1>1, <1>4 DEF Held
<1>6. ReadTrue' /\ RoomForDrip' /\ (Held(balance, pending) < Floor + Drips(lost + 1))'
  BY <1>1, <1>3, <1>4, <1>5, FaucetConstants DEF WalletInv, ReadTrue, RoomForDrip
<1> QED
  BY <1>1, <1>2, <1>6 DEF WalletInv, WalletTypes, LastRemembered

LEMMA FaultsKeep ==
  WalletInv /\ (Faucet!SessionEnds \/ Faucet!ReadFails \/ Faucet!DripFails \/ Faucet!Restart)
    => WalletInv'
<1> SUFFICES ASSUME WalletInv,
                    Faucet!SessionEnds \/ Faucet!ReadFails \/ Faucet!DripFails \/ Faucet!Restart
             PROVE  WalletInv'
  OBVIOUS
<1>1. /\ wait \in 0..PollInterval /\ 0 \in 0..PollInterval /\ PollInterval \in 0..PollInterval
      /\ cookie \in BOOLEAN /\ session \in BOOLEAN
  BY FaucetConstants DEF WalletInv, WalletTypes
<1>2. /\ lost < MaxLost /\ lost' = lost + 1
      /\ balance' = balance /\ pending' = pending /\ spent' = spent
      /\ poll' = Faucet!NoPoll \/ (poll' = poll /\ lastDrip' = lastDrip)
      /\ wait' \in 0..PollInterval /\ lastDrip' \in {lastDrip, None}
      /\ cookie' \in BOOLEAN /\ session' \in BOOLEAN
  BY <1>1 DEF Faucet!SessionEnds, Faucet!ReadFails, Faucet!DripFails, Faucet!Restart, Faucet!Fault,
     Faucet!EndPoll
<1> QED
  BY <1>2, WalletFaultKeeps

LEMMA ReadBalanceKeeps == WalletInv /\ Faucet!ReadBalance => WalletInv'
<1> SUFFICES ASSUME WalletInv, Faucet!ReadBalance PROVE WalletInv'
  OBVIOUS
<1>1. /\ poll.pc = "asking" /\ poll' = [poll EXCEPT !.pc = "reading", !.seen = balance]
      /\ UNCHANGED <<balance, pending, wait, lastDrip, cookie, session, spent, lost>>
  BY DEF Faucet!ReadBalance
<1>2. WalletTypes /\ poll \in PollType /\ balance \in Nat /\ lost \in Nat
  BY FaucetConstants DEF WalletInv, WalletTypes
<1>3. poll' \in PollType /\ poll'.pc = "reading" /\ poll'.seen = balance /\ poll'.age \in Nat
  <2>1. /\ poll'.pc = "reading" /\ poll'.seen = balance /\ poll'.age = poll.age
        /\ poll' \in PollType
    BY <1>1, <1>2 DEF PollType
  <2> QED
    BY <1>2, <2>1, FaucetConstants DEF PollType
<1>4. /\ Len(pending) \in Nat /\ Drips(lost + 1) = Drips(lost) + Drip /\ Drips(lost) \in Nat
      /\ Drips(Len(pending)) \in Nat
  BY <1>2, HeldIsNat, DripsAdd
<1>5. Held(balance, pending)' = balance + Drips(Len(pending))
  BY <1>1 DEF Held
<1>6. ReadTrue'
  <2>1. CASE Len(pending) <= lost
    <3>1. Drips(Len(pending)) <= Drips(lost)
      BY <1>2, <1>4, <2>1, DripsGrow
    <3> QED
      BY <1>1, <1>2, <1>3, <1>4, <1>5, <3>1 DEF ReadTrue
  <2>2. CASE ~(Len(pending) <= lost)
    <3>1. Len(pending) = lost + 1
      BY <1>2, <1>4, <2>2 DEF WalletInv, LastRemembered
    <3>2. lastDrip # None /\ lastDrip <= pending[Len(pending)]
      BY <1>1, <3>1 DEF WalletInv, LastRemembered
    <3>3. lastDrip \in Nat
      BY <1>2, <3>2, FaucetConstants DEF WalletTypes
    <3>4. pending[Len(pending)] \in 0..MineTime
      <4>1. pending \in Seq(0..MineTime)
        BY <1>2 DEF WalletTypes
      <4>2. Len(pending) \in 1..Len(pending)
        BY <1>2, <3>1
      <4> QED
        BY <4>1, <4>2, SequenceOf
    <3> QED
      <4>1. lastDrip <= MineTime + poll'.age
        BY <1>3, <3>2, <3>3, <3>4, FaucetConstants
      <4>2. Drips(Len(pending)) = Drips(lost + 1) /\ Drips(lost + 1) \in Nat
        BY <1>4, <3>1
      <4>3. Held(balance, pending)' <= poll'.seen + Drips(lost + 1)
        BY <1>2, <1>3, <1>5, <4>2
      <4> QED
        BY <1>1, <3>2, <4>1, <4>3 DEF ReadTrue
  <2> QED
    BY <2>1, <2>2
<1>7. RoomForDrip'
  BY <1>3 DEF RoomForDrip
<1>8. session' \in BOOLEAN /\ cookie' \in BOOLEAN /\ wait' \in 0..PollInterval
  BY <1>1, <1>2 DEF WalletTypes
<1> QED
  BY <1>1, <1>3, <1>6, <1>7, <1>8, PollKeeps

LEMMA DecideKeeps == WalletInv /\ Faucet!Decide => WalletInv'
<1> SUFFICES ASSUME WalletInv, Faucet!Decide PROVE WalletInv'
  OBVIOUS
<1>1. /\ poll.pc = "reading" /\ UNCHANGED <<balance, pending, lastDrip, cookie, session, spent, lost>>
      /\ IF Faucet!decideDrip
         THEN /\ poll' = [poll EXCEPT !.pc = IF cookie THEN "post" ELSE "login"]
              /\ UNCHANGED wait
         ELSE Faucet!EndPoll
  BY DEF Faucet!Decide
<1>2. WalletTypes /\ poll \in PollType /\ lost \in Nat /\ PollInterval \in 0..PollInterval
  BY FaucetConstants DEF WalletInv, WalletTypes
<1>3. session' \in BOOLEAN /\ cookie' \in BOOLEAN
  BY <1>1, <1>2 DEF WalletTypes
<1>4. CASE ~Faucet!decideDrip
  <2>1. poll' = Faucet!NoPoll /\ wait' \in 0..PollInterval
    BY <1>1, <1>2, <1>4 DEF Faucet!EndPoll
  <2>2. poll' \in PollType /\ poll'.pc = "idle"
    BY <2>1, NoPollTyped
  <2>3. ReadTrue' /\ RoomForDrip'
    BY <2>2 DEF ReadTrue, RoomForDrip
  <2> QED
    BY <1>1, <1>3, <2>1, <2>2, <2>3, PollKeeps
<1>5. CASE Faucet!decideDrip
  <2>1. /\ poll' \in PollType /\ poll'.pc \in {"post", "login"}
        /\ wait' \in 0..PollInterval
    BY <1>1, <1>2, <1>5 DEF PollType, WalletTypes
  <2>2. poll.seen < Floor /\ (lastDrip = None \/ lastDrip >= Cooldown)
    BY <1>5 DEF Faucet!decideDrip, Faucet!OutsideCooldown
  <2>3. /\ Len(pending) \in Nat /\ Held(balance, pending) \in Nat
        /\ Drips(lost) \in Nat /\ Drips(lost + 1) = Drips(lost) + Drip
    BY <1>2, HeldIsNat
  <2>4. poll.age \in 0..Latency /\ poll.seen \in Nat
    BY <1>2 DEF PollType
  <2>5. lastDrip # None => lastDrip \in Nat
    BY <1>2, FaucetConstants DEF WalletTypes
  <2>6. Held(balance, pending) < Floor + Drips(lost)
    <3>1. ~(lastDrip # None /\ lastDrip <= MineTime + poll.age)
      BY <2>2, <2>4, <2>5, FaucetConstants
    <3>2. Held(balance, pending) <= poll.seen + Drips(lost)
      BY <1>1, <3>1 DEF WalletInv, ReadTrue
    <3> QED
      BY <2>2, <2>3, <2>4, <3>2, FaucetConstants
  <2>7. Len(pending) <= lost
    <3> SUFFICES ASSUME Len(pending) = lost + 1 PROVE FALSE
      BY <1>2, <2>3 DEF WalletInv, LastRemembered
    <3>1. lastDrip # None /\ lastDrip <= pending[Len(pending)]
      BY <1>1 DEF WalletInv, LastRemembered
    <3>2. pending[Len(pending)] \in 0..MineTime
      <4>1. pending \in Seq(0..MineTime) /\ Len(pending) \in 1..Len(pending)
        BY <1>2, <2>3 DEF WalletTypes
      <4> QED
        BY <4>1, SequenceOf
    <3> QED
      BY <2>2, <2>5, <3>1, <3>2, FaucetConstants
  <2>8. Held(balance, pending)' = Held(balance, pending)
    BY <1>1 DEF Held
  <2>9. ReadTrue' /\ RoomForDrip'
    BY <1>1, <2>1, <2>6, <2>7, <2>8 DEF ReadTrue, RoomForDrip
  <2>10. poll.pc # "posted" /\ poll'.pc # "posted"
    BY <1>1, <2>1
  <2> QED
    BY <1>1, <1>3, <2>1, <2>9, <2>10, PollKeeps
<1> QED
  BY <1>4, <1>5

LEMMA PostKeeps == WalletInv /\ Faucet!Post => WalletInv'
<1> SUFFICES ASSUME WalletInv, Faucet!Post PROVE WalletInv'
  OBVIOUS
<1>1. /\ poll.pc = "post" /\ pending' = Append(pending, 0)
      /\ poll' = [poll EXCEPT !.pc = "posted"]
      /\ UNCHANGED <<balance, wait, lastDrip, cookie, session, spent, lost>>
  BY DEF Faucet!Post
<1>2. WalletTypes /\ poll \in PollType /\ lost \in Nat
  BY FaucetConstants DEF WalletInv, WalletTypes
<1>3. poll' \in PollType /\ poll'.pc = "posted"
  BY <1>1, <1>2 DEF PollType
<1>4. pending' \in Seq(0..MineTime) /\ Len(pending') = Len(pending) + 1 /\ Len(pending) \in Nat
  <2>1. pending \in Seq(0..MineTime) /\ 0 \in 0..MineTime
    BY <1>2, FaucetConstants DEF WalletTypes
  <2> QED
    BY <1>1, <2>1
<1>5. Len(pending) <= lost /\ Held(balance, pending) < Floor + Drips(lost)
  BY <1>1 DEF WalletInv, RoomForDrip
<1>6. /\ Drips(lost) \in Nat /\ Drips(lost + 1) = Drips(lost) + Drip
      /\ Drips(Len(pending)) \in Nat /\ Drips(Len(pending) + 1) = Drips(Len(pending)) + Drip
      /\ balance \in Nat
  <2>1. balance \in Nat
    BY <1>2 DEF WalletTypes
  <2>2. Drips(lost) \in Nat /\ Drips(lost + 1) = Drips(lost) + Drip
    BY <1>2, DripsAdd
  <2>3. Drips(Len(pending)) \in Nat /\ Drips(Len(pending) + 1) = Drips(Len(pending)) + Drip
    BY <1>4, DripsAdd
  <2> QED
    BY <2>1, <2>2, <2>3
<1>7. (Held(balance, pending) < Floor + Drips(lost + 1))'
  <2>1. Held(balance, pending)' = balance + Drips(Len(pending) + 1)
    BY <1>1, <1>4 DEF Held
  <2>2. Held(balance, pending)' = Held(balance, pending) + Drip /\ Held(balance, pending) \in Nat
    BY <1>6, <2>1, FaucetConstants DEF Held
  <2>3. Held(balance, pending)' < Floor + Drips(lost + 1)
    BY <1>5, <1>6, <2>2, FaucetConstants
  <2> QED
    BY <1>1, <2>3
<1>8. WalletTypes'
  BY <1>1, <1>2, <1>3, <1>4 DEF WalletTypes
<1>9. LastRemembered' /\ ReadTrue' /\ RoomForDrip'
  BY <1>1, <1>2, <1>3, <1>4, <1>5 DEF LastRemembered, ReadTrue, RoomForDrip
<1> QED
  BY <1>7, <1>8, <1>9 DEF WalletInv

LEMMA AnsweredKeeps == WalletInv /\ Faucet!Answered => WalletInv'
<1> SUFFICES ASSUME WalletInv, Faucet!Answered PROVE WalletInv'
  OBVIOUS
<1>1. /\ poll.pc = "posted" /\ lastDrip' = 0 /\ poll' = Faucet!NoPoll /\ wait' = PollInterval
      /\ UNCHANGED <<balance, pending, cookie, session, spent, lost>>
  BY DEF Faucet!Answered, Faucet!EndPoll
<1>2. /\ PollInterval \in 0..PollInterval /\ 0 \in 0..Cooldown
      /\ WalletTypes /\ lost \in Nat /\ 0 # None
  BY FaucetConstants DEF WalletInv, WalletTypes
<1>3. poll' \in PollType /\ poll'.pc = "idle"
  BY <1>1, NoPollTyped
<1>4. WalletTypes'
  BY <1>1, <1>2, <1>3 DEF WalletTypes
<1>5. LastRemembered'
  <2>1. Len(pending) <= lost + 1
    BY DEF WalletInv, LastRemembered
  <2>2. ASSUME Len(pending) = lost + 1 PROVE 0 <= pending[Len(pending)]
    <3>1. pending \in Seq(0..MineTime) /\ Len(pending) \in 1..Len(pending)
      BY <1>2, <2>2 DEF WalletTypes
    <3>2. pending[Len(pending)] \in 0..MineTime
      BY <3>1, SequenceOf
    <3> QED
      BY <3>2, FaucetConstants
  <2> QED
    BY <1>1, <1>2, <2>1, <2>2 DEF LastRemembered
<1>6. ReadTrue' /\ RoomForDrip'
  BY <1>3 DEF ReadTrue, RoomForDrip
<1>7. (Held(balance, pending) < Floor + Drips(lost + 1))'
  BY <1>1 DEF WalletInv, Held
<1> QED
  BY <1>4, <1>5, <1>6, <1>7 DEF WalletInv

\* The other steps of a poll: it begins, logs in, or is refused.
LEMMA OtherPollStepsKeep ==
  WalletInv /\ (Faucet!StartPoll \/ Faucet!Login \/ Faucet!Unauthorized) => WalletInv'
<1> SUFFICES ASSUME WalletInv, Faucet!StartPoll \/ Faucet!Login \/ Faucet!Unauthorized
             PROVE  WalletInv'
  OBVIOUS
<1>1. /\ WalletTypes /\ poll \in PollType /\ cookie \in BOOLEAN /\ session \in BOOLEAN
      /\ wait \in 0..PollInterval /\ PollInterval \in 0..PollInterval
  BY FaucetConstants DEF WalletInv, WalletTypes
<1>2. /\ UNCHANGED <<balance, pending, lastDrip, spent, lost>>
      /\ session' \in BOOLEAN /\ cookie' \in BOOLEAN /\ wait' \in 0..PollInterval
  BY <1>1 DEF Faucet!StartPoll, Faucet!Login, Faucet!Unauthorized, Faucet!EndPoll, Faucet!Dropped
<1>3. /\ poll' \in PollType /\ poll'.pc \in {"idle", "asking", "login", "post"}
      /\ poll'.pc \in {"login", "post"} => poll.pc \in {"login", "post"}
      /\ poll.pc # "posted"
  <2>1. CASE Faucet!StartPoll
    BY <2>1, NoPollTyped DEF Faucet!StartPoll, PollType
  <2>2. CASE Faucet!Login
    BY <1>1, <2>2 DEF Faucet!Login, PollType
  <2>3. CASE Faucet!Unauthorized
    <3>1. CASE poll.again
      BY <2>3, <3>1, NoPollTyped DEF Faucet!Unauthorized, Faucet!EndPoll
    <3>2. CASE ~poll.again
      BY <1>1, <2>3, <3>2 DEF Faucet!Unauthorized, Faucet!Dropped, PollType
    <3> QED
      BY <3>1, <3>2
  <2> QED
    BY <2>1, <2>2, <2>3
<1>4. Held(balance, pending)' = Held(balance, pending)
  BY <1>2 DEF Held
<1>5. ReadTrue' /\ RoomForDrip'
  BY <1>2, <1>3, <1>4 DEF WalletInv, ReadTrue, RoomForDrip
<1> QED
  BY <1>2, <1>3, <1>5, PollKeeps

LEMMA WalletStepKeeps ==
  WalletInv /\ [Faucet!Next]_faucetVars => WalletInv'
<1> SUFFICES ASSUME WalletInv, [Faucet!Next]_faucetVars PROVE WalletInv'
  OBVIOUS
<1>1. CASE UNCHANGED faucetVars
  BY <1>1 DEF faucetVars, WalletInv, WalletTypes, LastRemembered, ReadTrue, RoomForDrip, Held
<1>2. CASE Faucet!Tick \/ Faucet!Mine \/ Faucet!Spend
  BY <1>2, TickKeeps, WalletMineKeeps, WalletSpendKeeps
<1>3. CASE Faucet!SessionEnds \/ Faucet!ReadFails \/ Faucet!DripFails \/ Faucet!Restart
  BY <1>3, FaultsKeep
<1>4. CASE Faucet!PollStep
  BY <1>4, ReadBalanceKeeps, DecideKeeps, PostKeeps, AnsweredKeeps, OtherPollStepsKeep
     DEF Faucet!PollStep
<1> QED
  BY <1>1, <1>2, <1>3, <1>4 DEF Faucet!Next

LEMMA WalletInvImplies == WalletInv => WalletBounded
<1> SUFFICES ASSUME WalletInv PROVE Faucet!TypeOK /\ Faucet!RestsBelow
  BY DEF WalletBounded
<1>1. poll \in PollType /\ WalletTypes
  BY DEF WalletInv, WalletTypes
<1>2. Faucet!TypeOK
  BY <1>1 DEF Faucet!TypeOK, WalletTypes, PollType
<1>3. lost + 1 = 1 + lost
  BY <1>1, FaucetConstants DEF WalletTypes
<1> QED
  BY <1>2, <1>3 DEF WalletInv, Held, Drips, Faucet!RestsBelow

\* "Landing in [min, min + dripAmount)": the wallet of a worker never holds more, drips on
\* their way included, except for one drip per lost answer and restart, for any floor,
\* ceiling, drip, cooldown and poll interval, whatever the worker spends in between.
THEOREM WalletStaysBounded == AllSpec => []WalletBounded
<1>1. AllInit => WalletInv
  BY WalletStarts DEF AllInit
<1>2. WalletInv /\ [AllNext]_<<part, vars, faucetVars>> => WalletInv'
  <2> SUFFICES ASSUME WalletInv, [AllNext]_<<part, vars, faucetVars>> PROVE WalletInv'
    OBVIOUS
  <2>1. [Faucet!Next]_faucetVars
    BY DEF AllNext, WorkerStep, FaucetStep
  <2> QED
    BY <2>1, WalletStepKeeps
<1>3. WalletInv => WalletBounded
  BY WalletInvImplies
<1> QED
  BY <1>1, <1>2, <1>3, PTL DEF AllSpec

\* The worker of the composition behaves as BaseloadWorker specifies, so that what is
\* proved of one holds in it: fees and batches, beside the faucet.
THEOREM WorkerBehaves == AllSpec => Spec
<1>1. AllInit => Init
  BY DEF AllInit
<1>2. [AllNext]_<<part, vars, faucetVars>> => [Next]_vars
  BY DEF AllNext, WorkerStep, FaucetStep
<1> QED
  BY <1>1, <1>2, PTL DEF AllSpec, Spec
=============================================================================
