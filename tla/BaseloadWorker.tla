--------------------------- MODULE BaseloadWorker ---------------------------
(***************************************************************************)
(* A load-generating worker of the backend: it sends one batch at a time   *)
(* from its wallet and waits until a transaction of the batch is mined,    *)
(* resending it with higher fees when it is stuck.  A worker that is taken *)
(* out of the configuration and put back gets a new task, while the old    *)
(* one may still be in the middle of a call.                               *)
(*                                                                         *)
(* The node (external) keeps one pending transaction per nonce and lets    *)
(* only a markedly better paid one replace it.  A transaction is its       *)
(* contents; what a batch does, and with which gas limit, is left out.     *)
(***************************************************************************)
EXTENDS Integers, Sequences, FiniteSets, SequencesExt

CONSTANTS
  None,
  Cap,          \* maxGasPriceGwei, the worker's fee cap
  Tip,          \* SUFFICIENT_PRIORITY_FEE_PER_GAS
  MaxBumps,     \* MAX_FEE_BUMPS_PER_NONCE
  BaseFees,     \* environment: the base fees the chain moves between
  MaxTasks,     \* bound: tasks started for the worker
  MaxBatches,   \* bound: batches begun
  MaxMoves,     \* bound: changes of the base fee
  MaxFaults     \* bound: lost replies, reverts, foreign transactions

Tasks == 1..MaxTasks
Batches == 1..MaxBatches

FeesType == [max : Nat, tip : Nat]
TransactionType == [nonce : Nat, batch : Batches, max : Nat, tip : Nat]
TaskType ==
  [pc : {"unborn", "idle", "nonce", "send", "wait", "check", "bump", "finished"},
   aborted : BOOLEAN, nextNonce : Nat \cup {None}, nonce : Nat \cup {None},
   batch : Batches \cup {None}, fees : FeesType \cup {None},
   sent : Seq(TransactionType), bumps : 0..MaxBumps, exhausted : BOOLEAN]

ASSUME BaseloadAssumption ==
  /\ Cap \in Nat \ {0} /\ Tip \in 1..Cap /\ MaxBumps \in Nat
  /\ BaseFees \subseteq Nat /\ BaseFees # {}
  /\ MaxTasks \in Nat \ {0} /\ MaxBatches \in Nat /\ MaxMoves \in Nat /\ MaxFaults \in Nat
  /\ None \notin Int /\ None \notin FeesType /\ None \notin TransactionType

VARIABLES
  baseFee, moves,  \* the node: base fee of the latest block
  mined,           \* the node: the wallet's transactions, by nonce
  pool,            \* the node: its pending transactions
  task,            \* the tasks of the worker
  current,         \* the task in BaseloadRuntime.tasks, or 0
  begun,           \* how many batches were begun
  known,           \* history: the transactions whose hash a task was told
  counted,         \* history: the batches a task counted as done
  gaveUp,          \* history: those given up as spent by somebody else
  underpriced,     \* history: was a replacement refused by the fee rule?
  faults

node == <<baseFee, moves, mined, pool>>
histories == <<known, counted, gaveUp, underpriced>>
vars == <<baseFee, moves, mined, pool, task, current, begun, known, counted, gaveUp,
          underpriced, faults>>

latest == Len(mined)
Fault == faults < MaxFaults /\ faults' = faults + 1

NoTask == [pc |-> "unborn", aborted |-> FALSE, nextNonce |-> None, nonce |-> None,
           batch |-> None, fees |-> None, sent |-> << >>, bumps |-> 0, exhausted |-> FALSE]

-----------------------------------------------------------------------------
(* Fees. *)

isOutpriced(reading) == reading # None /\ reading > Cap

\* A reading of the base fee; the fleet shares it, and it may fail.
Readings == {baseFee, None}

initialMaxFeePerGas(reading) ==
  IF reading = None THEN Cap
  ELSE LET doubled == IF reading * 2 > Tip THEN reading * 2 ELSE Tip
       IN  IF doubled < Cap THEN doubled ELSE Cap

clearsReplacementPriceBump(previous, next) == next * 100 > previous * 110

bumpByAnEighth(wei) ==
  LET bumped == (wei * 9 + 7) \div 8 IN IF bumped > wei THEN bumped ELSE wei + 1

bumpReplacementFees(fees) ==
  LET max == IF bumpByAnEighth(fees.max) < Cap THEN bumpByAnEighth(fees.max) ELSE Cap
      tip == IF bumpByAnEighth(fees.tip) < max THEN bumpByAnEighth(fees.tip) ELSE max
  IN  IF /\ clearsReplacementPriceBump(fees.max, max)
         /\ clearsReplacementPriceBump(fees.tip, tip)
      THEN [max |-> max, tip |-> tip] ELSE None

-----------------------------------------------------------------------------
Init ==
  /\ baseFee \in BaseFees /\ moves = 0
  /\ mined = << >> /\ pool = [n \in 0..MaxBatches + MaxFaults |-> None]
  /\ task = [t \in Tasks |-> NoTask] /\ current = 0
  /\ begun = 0
  /\ known = [t \in Tasks |-> {}] /\ counted = {} /\ gaveUp = {} /\ underpriced = FALSE
  /\ faults = 0

-----------------------------------------------------------------------------
(* The node (external). *)

\* Two nodes agree on the rule: both fees up by a tenth.
Replaces(old, new) ==
  /\ new.max * 100 >= old.max * 110
  /\ new.tip * 100 >= old.tip * 110

Accepts(tx) ==
  /\ tx.nonce >= latest
  /\ pool[tx.nonce] # None => Replaces(pool[tx.nonce], tx)

FeeMoves ==
  /\ moves < MaxMoves /\ moves' = moves + 1
  /\ \E fee \in BaseFees \ {baseFee} : baseFee' = fee
  /\ UNCHANGED <<mined, pool, task, current, begun, histories, faults>>

Mine ==
  /\ pool[latest] # None /\ pool[latest].max >= baseFee
  /\ \E ok \in BOOLEAN :
       /\ IF ok THEN UNCHANGED faults ELSE Fault
       /\ mined' = Append(mined, [tx |-> pool[latest], ok |-> ok])
  /\ pool' = [pool EXCEPT ![latest] = None]
  /\ UNCHANGED <<baseFee, moves, task, current, begun, histories>>

\* Another process uses the same wallet.
Foreign ==
  /\ Fault
  /\ mined' = Append(mined, [tx |-> None, ok |-> TRUE])
  /\ pool' = [pool EXCEPT ![latest] = None]
  /\ UNCHANGED <<baseFee, moves, task, current, begun, histories>>

-----------------------------------------------------------------------------
(* The runtime. *)

\* syncTasks, for a worker that is gone: its task is told to stop and forgotten.
StopWorker ==
  /\ current # 0
  /\ task' = [task EXCEPT ![current].aborted = TRUE]
  /\ current' = 0
  /\ UNCHANGED <<node, begun, histories, faults>>

\* syncTasks, for a worker without a task, or with one that has finished.
StartWorker ==
  /\ current # 0 => task[current].pc = "finished"
  /\ \E t \in Tasks :
       /\ task[t].pc = "unborn" /\ \A u \in Tasks : u < t => task[u].pc # "unborn"
       /\ task' = [task EXCEPT ![t].pc = "idle"]
       /\ current' = t
  /\ UNCHANGED <<node, begun, histories, faults>>

-----------------------------------------------------------------------------
(* A task. *)

At(t, pc) == task[t].pc = pc
Goto(t, pc) == task' = [task EXCEPT ![t].pc = pc]

\* The head of the loop: a stopped task ends, and so does one that has reached
\* its limits.
Finish(t) ==
  /\ At(t, "idle")
  /\ Goto(t, "finished")
  /\ UNCHANGED <<node, current, begun, histories, faults>>

\* A round of the loop, up to submitAndConfirm: nothing is begun while the base
\* fee is above the cap.
Begin(t) ==
  /\ At(t, "idle") /\ ~task[t].aborted
  /\ begun < MaxBatches /\ begun' = begun + 1
  /\ \E reading \in Readings : ~isOutpriced(reading)
  /\ task' = [task EXCEPT ![t].pc = "nonce", ![t].batch = begun + 1, ![t].sent = << >>,
                          ![t].bumps = 0, ![t].exhausted = FALSE]
  /\ UNCHANGED <<node, current, histories, faults>>

\* The nonce is read once, and again after a failure.
ReadNonce(t) ==
  /\ At(t, "nonce")
  /\ LET nonce == IF task[t].nextNonce = None THEN latest ELSE task[t].nextNonce
     IN  task' = [task EXCEPT ![t].pc = "send", ![t].nextNonce = nonce, ![t].nonce = nonce]
  /\ UNCHANGED <<node, current, begun, histories, faults>>

\* The batch is given up: what the task thinks of its nonce is forgotten.
Fail(t) == [task EXCEPT ![t].pc = "idle", ![t].nextNonce = None]

Transaction(t, fees) ==
  [nonce |-> task[t].nonce, batch |-> task[t].batch, max |-> fees.max, tip |-> fees.tip]

\* The first send; a reply that is lost counts as a refusal.
SendFirst(t) ==
  /\ At(t, "send")
  /\ \E reading \in Readings :
       LET fees == [max |-> initialMaxFeePerGas(reading), tip |-> Tip]
           tx == Transaction(t, fees)
       IN  IF Accepts(tx)
           THEN /\ pool' = [pool EXCEPT ![tx.nonce] = tx]
                /\ \/ /\ task' = [task EXCEPT ![t].pc = "wait", ![t].fees = fees,
                                              ![t].sent = <<tx>>]
                      /\ known' = [known EXCEPT ![t] = @ \cup {tx}]
                      /\ UNCHANGED faults
                   \/ Fault /\ task' = Fail(t) /\ UNCHANGED known
           ELSE task' = Fail(t) /\ UNCHANGED <<pool, known, faults>>
  /\ UNCHANGED <<baseFee, moves, mined, current, begun, counted, gaveUp, underpriced>>

\* A copy of the batch whose hash the task knows was mined at its nonce.
Landed(t) ==
  /\ task[t].nonce < latest
  /\ mined[task[t].nonce + 1].tx \in ToSet(task[t].sent)

\* The end of submitAndConfirm: the batch counts, unless it was reverted.
Settle(t) ==
  IF mined[task[t].nonce + 1].ok
  THEN /\ task' = [task EXCEPT ![t].pc = "idle", ![t].nextNonce = task[t].nonce + 1]
       /\ counted' = counted \cup {task[t].batch}
  ELSE /\ task' = Fail(t)
       /\ UNCHANGED counted

\* waitForTransactionReceipt: a poll that was under way is used although the
\* task was stopped meanwhile.
Poll(t) ==
  /\ At(t, "wait") /\ Landed(t)
  /\ Settle(t)
  /\ UNCHANGED <<node, current, begun, known, gaveUp, underpriced, faults>>

\* Its sleep ends at once when the task is stopped.
StopWaiting(t) ==
  /\ At(t, "wait") /\ task[t].aborted
  /\ task' = [Fail(t) EXCEPT ![t].pc = "finished"]
  /\ UNCHANGED <<node, current, begun, histories, faults>>

\* Mutant of TimedOut: a stuck transaction is given up and its slot reused.
TimedOutGivesUp(t) ==
  /\ At(t, "wait")
  /\ task' = Fail(t)
  /\ UNCHANGED <<node, current, begun, histories, faults>>

\* Mutant of TimedOut: without bumps left only a receipt ends the wait.
TimedOutUnlessExhausted(t) ==
  /\ At(t, "wait") /\ ~task[t].exhausted
  /\ \E reading \in Readings : ~isOutpriced(reading)
  /\ Goto(t, "check")
  /\ UNCHANGED <<node, current, begun, histories, faults>>

\* A stall check ends the wait: after the timeout, unless the chain is too
\* expensive, or with all bumps used, once the account has moved on.
TimedOut(t) ==
  /\ At(t, "wait")
  /\ IF task[t].exhausted THEN latest > task[t].nonce
                          ELSE \E reading \in Readings : ~isOutpriced(reading)
  /\ Goto(t, "check")
  /\ UNCHANGED <<node, current, begun, histories, faults>>

\* findLandedTransaction, for a nonce that is not spent, as far as can be read.
Unspent(t) ==
  /\ At(t, "check")
  /\ latest > task[t].nonce => Fault
  /\ latest <= task[t].nonce => UNCHANGED faults
  /\ Goto(t, IF task[t].exhausted THEN "wait" ELSE "bump")
  /\ UNCHANGED <<node, current, begun, histories>>

\* findLandedTransaction, for a spent nonce: one of the copies, or, when every
\* receipt could be read, somebody else.
Spent(t) ==
  /\ At(t, "check") /\ latest > task[t].nonce
  /\ \/ /\ Landed(t) /\ Settle(t)
        /\ UNCHANGED <<gaveUp, faults>>
     \/ /\ Fault /\ Goto(t, "wait")
        /\ UNCHANGED <<counted, gaveUp>>
     \/ /\ ~Landed(t) /\ task' = Fail(t)
        /\ gaveUp' = gaveUp \cup {<<t, task[t].batch>>}
        /\ UNCHANGED <<counted, faults>>
  /\ UNCHANGED <<node, current, begun, known, underpriced>>

\* Mutant of NextFees: the fees of the last copy the node is known to have.
NextFeesOfKnown(t) ==
  IF task[t].bumps < MaxBumps
  THEN LET last == task[t].sent[Len(task[t].sent)]
       IN  bumpReplacementFees([max |-> last.max, tip |-> last.tip])
  ELSE None

NextFees(t) ==
  IF task[t].bumps < MaxBumps THEN bumpReplacementFees(task[t].fees) ELSE None

NoMoreBumps(t) ==
  /\ At(t, "bump") /\ NextFees(t) = None
  /\ task' = [task EXCEPT ![t].pc = "wait", ![t].exhausted = TRUE]
  /\ UNCHANGED <<node, current, begun, histories, faults>>

StopBumping(t) ==
  /\ At(t, "bump") /\ NextFees(t) # None /\ task[t].aborted
  /\ task' = [Fail(t) EXCEPT ![t].pc = "finished"]
  /\ UNCHANGED <<node, current, begun, histories, faults>>

\* The same batch with higher fees.  Whatever becomes of the send, the next
\* bump starts from these fees.
Bump(t) ==
  /\ At(t, "bump") /\ NextFees(t) # None /\ ~task[t].aborted
  /\ LET tx == Transaction(t, NextFees(t))
         bumped == [task EXCEPT ![t].pc = "wait", ![t].fees = NextFees(t), ![t].bumps = @ + 1]
     IN  IF Accepts(tx)
         THEN /\ pool' = [pool EXCEPT ![tx.nonce] = tx]
              /\ \/ /\ task' = [bumped EXCEPT ![t].sent = Append(@, tx)]
                    /\ known' = [known EXCEPT ![t] = @ \cup {tx}]
                    /\ UNCHANGED faults
                 \/ Fault /\ task' = bumped /\ UNCHANGED known
              /\ UNCHANGED underpriced
         ELSE /\ task' = bumped
              /\ underpriced' = (underpriced \/ /\ tx.nonce >= latest
                                                /\ pool[tx.nonce].batch = tx.batch)
              /\ UNCHANGED <<pool, known, faults>>
  /\ UNCHANGED <<baseFee, moves, mined, current, begun, counted, gaveUp>>

-----------------------------------------------------------------------------
TaskStep(t) ==
  \/ ReadNonce(t) \/ SendFirst(t) \/ Poll(t) \/ StopWaiting(t) \/ TimedOut(t)
  \/ Unspent(t) \/ Spent(t) \/ NoMoreBumps(t) \/ StopBumping(t) \/ Bump(t)

Next ==
  \/ FeeMoves \/ Mine \/ Foreign \/ StopWorker \/ StartWorker
  \/ \E t \in Tasks : Begin(t) \/ Finish(t) \/ TaskStep(t)

Spec == Init /\ [][Next]_vars

\* The node mines what pays enough; polls, timers and calls come to an end.
FairSpec ==
  /\ Spec
  /\ WF_vars(Mine)
  /\ \A t \in Tasks : WF_vars(TaskStep(t))

-----------------------------------------------------------------------------
Transactions ==
  {pool[n] : n \in DOMAIN pool} \cup {mined[i].tx : i \in DOMAIN mined}

\* Types of the variables; a batch is sent no more often than its bumps allow.
TypeOK ==
  /\ baseFee \in BaseFees /\ moves \in 0..MaxMoves /\ faults \in 0..MaxFaults
  /\ mined \in Seq([tx : TransactionType \cup {None}, ok : BOOLEAN])
  /\ pool \in [0..MaxBatches + MaxFaults -> TransactionType \cup {None}]
  /\ task \in [Tasks -> TaskType]
  /\ \A t \in Tasks : Len(task[t].sent) <= task[t].bumps + 1
  /\ current \in 0..MaxTasks /\ begun \in 0..MaxBatches
  /\ known \in [Tasks -> SUBSET TransactionType]
  /\ counted \subseteq Batches /\ gaveUp \subseteq Tasks \X Batches
  /\ underpriced \in BOOLEAN

\* "The cap is a promise not to pay more than this", and the tip fits under the
\* fee cap: of every transaction that reached the node.
WithinCap == \A tx \in Transactions \ {None} : tx.max <= Cap /\ tx.tip <= tx.max

\* "Never given up and its slot reused for a different batch": while the node
\* holds a copy whose hash a task knows, that task sends no other batch over it.
NoForeignBatch ==
  \A t \in Tasks :
    At(t, "send") => pool[task[t].nonce] \notin known[t]

\* A batch is counted when it was mined and only then, and is given up as spent
\* elsewhere only when no copy the task knows of was mined.
CountedWasMined ==
  /\ \A b \in counted : \E i \in DOMAIN mined : mined[i].ok /\ mined[i].tx # None /\ mined[i].tx.batch = b
  /\ \A g \in gaveUp : \A i \in DOMAIN mined :
       mined[i].tx \in known[g[1]] => mined[i].tx.batch # g[2]

\* A replacement is never refused because it pays too little, although a copy
\* whose send failed "may have reached the txpool all the same".
NeverUnderpriced == ~underpriced

\* No transaction offers more than the worker's cap, and no replacement is
\* refused because it does not clear the node's price bump.
FeesHold == TypeOK /\ WithinCap /\ NeverUnderpriced

\* While the node holds a copy of a transaction whose hash a task knows, that task
\* sends no other batch over it; and a batch counts as done if it was mined and
\* only then, whichever copy landed.
BatchesAccounted == NoForeignBatch /\ CountedWasMined

\* A task that waits for its batch comes to an end with it, also without any
\* bump left and while another task uses the same wallet, once what is pending
\* pays the base fee.
Waiting(t) == task[t].pc \in {"wait", "check", "bump"}
PaysEnough == \A n \in DOMAIN pool : pool[n] # None => pool[n].max >= baseFee
WaitEnds ==
  <>[]PaysEnough => \A t \in Tasks : Waiting(t) ~> ~Waiting(t)

\* "none of the copies has a receipt: somebody else spent it": a batch that was
\* given up as spent elsewhere was not mined.
SpentElsewhere ==
  \A g \in gaveUp : \A i \in DOMAIN mined : mined[i].tx # None => mined[i].tx.batch # g[2]
=============================================================================
