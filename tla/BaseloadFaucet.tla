--------------------------- MODULE BaseloadFaucet ---------------------------
(***************************************************************************)
(* The backend keeps the wallet of a worker funded: every poll reads its   *)
(* balance and, below a floor, asks a password-gated faucet for a drip.    *)
(* The faucet (external) sends a transaction that is mined some time after *)
(* it took the request; its session may end, and its answer may be lost.   *)
(* One wallet: a configuration does not attach one to two workers.         *)
(*                                                                         *)
(* Time is what has passed since the events that matter, up to the longest *)
(* span anything is compared with: nothing ends because a clock runs out.  *)
(***************************************************************************)
EXTENDS Integers, Sequences

CONSTANTS
  None,
  Floor, Ceiling, Drip,  \* minBalanceWei, maxBalanceWei, dripAmountWei
  Cooldown,        \* cooldownMs
  PollInterval,    \* BALANCE_POLL_INTERVAL_MS
  MineTime,        \* environment: a drip is mined within this time
  Latency,         \* environment: a balance is answered within this time
  MaxSpend,        \* bound: what the worker spends
  MaxFaults        \* bound: sessions ended, requests and answers lost, restarts

\* The configuration is refused when the ceiling is below floor and drip.
FaucetAssumption ==
  /\ Floor \in Nat \ {0} /\ Drip \in Nat \ {0} /\ Ceiling \in Nat /\ Ceiling >= Floor + Drip
  /\ Cooldown \in Nat /\ PollInterval \in Nat \ {0}
  /\ MineTime \in Nat /\ Latency \in Nat /\ MineTime + Latency < Cooldown
  /\ MaxSpend \in Nat /\ MaxFaults \in Nat
  /\ None \notin Int

VARIABLES
  balance,   \* the chain: of the wallet
  pending,   \* the chain: the ages of the drips not yet mined, in nonce order
  poll,      \* the poll under way
  wait,      \* until the next one starts
  lastDrip,  \* the time since lastDripAtMs of the wallet
  cookie,    \* BOOLEAN: the client has a session cookie
  session,   \* the faucet: the cookie is good
  spent, faults

vars == <<balance, pending, poll, wait, lastDrip, cookie, session, spent, faults>>

NoPoll == [pc |-> "idle", age |-> 0, seen |-> 0, again |-> FALSE]

Init ==
  /\ balance = 0 /\ pending = << >>
  /\ poll = NoPoll /\ wait = 0 /\ lastDrip = None
  /\ cookie = FALSE /\ session = FALSE
  /\ spent = 0 /\ faults = 0

Fault == faults < MaxFaults /\ faults' = faults + 1

-----------------------------------------------------------------------------
(* The environment. *)

Tick ==
  /\ \A i \in DOMAIN pending : pending[i] < MineTime
  /\ poll.pc = "reading" => poll.age < Latency
  /\ pending' = [i \in DOMAIN pending |-> pending[i] + 1]
  /\ poll' = IF poll.pc = "reading" THEN [poll EXCEPT !.age = @ + 1] ELSE poll
  /\ wait' = IF wait > 0 THEN wait - 1 ELSE 0
  /\ lastDrip' = IF lastDrip # None /\ lastDrip < Cooldown THEN lastDrip + 1 ELSE lastDrip
  /\ UNCHANGED <<balance, cookie, session, spent, faults>>

Mine ==
  /\ pending # << >>
  /\ pending' = Tail(pending) /\ balance' = balance + Drip
  /\ UNCHANGED <<poll, wait, lastDrip, cookie, session, spent, faults>>

Spend ==
  /\ balance > 0 /\ spent < MaxSpend
  /\ balance' = balance - 1 /\ spent' = spent + 1
  /\ UNCHANGED <<pending, poll, wait, lastDrip, cookie, session, faults>>

SessionEnds ==
  /\ session /\ Fault /\ session' = FALSE
  /\ UNCHANGED <<balance, pending, poll, wait, lastDrip, cookie, spent>>

-----------------------------------------------------------------------------
(* refreshBalances, for one worker. *)

StartPoll ==
  /\ poll.pc = "idle" /\ wait = 0
  /\ poll' = [NoPoll EXCEPT !.pc = "asking"]
  /\ UNCHANGED <<balance, pending, wait, lastDrip, cookie, session, spent, faults>>

EndPoll == poll' = NoPoll /\ wait' = PollInterval

\* The node reads the balance; from here on the answer is on its way.
ReadBalance ==
  /\ poll.pc = "asking"
  /\ poll' = [poll EXCEPT !.pc = "reading", !.seen = balance]
  /\ UNCHANGED <<balance, pending, wait, lastDrip, cookie, session, spent, faults>>

\* eth_getBalance fails: the wallet is not looked at this time.
ReadFails ==
  /\ poll.pc = "asking" /\ Fault /\ EndPoll
  /\ UNCHANGED <<balance, pending, lastDrip, cookie, session, spent>>

OutsideCooldown == lastDrip = None \/ lastDrip >= Cooldown

decideDrip == poll.seen < Floor /\ poll.seen + Drip < Ceiling /\ OutsideCooldown

\* maybeTopUp, up to its request.
Decide ==
  /\ poll.pc = "reading"
  /\ IF decideDrip
     THEN /\ poll' = [poll EXCEPT !.pc = IF cookie THEN "post" ELSE "login"]
          /\ UNCHANGED wait
     ELSE EndPoll
  /\ UNCHANGED <<balance, pending, lastDrip, cookie, session, spent, faults>>

\* ensureSession
Login ==
  /\ poll.pc = "login"
  /\ cookie' = TRUE /\ session' = TRUE
  /\ poll' = [poll EXCEPT !.pc = "post"]
  /\ UNCHANGED <<balance, pending, wait, lastDrip, spent, faults>>

\* The faucet takes the request.
Post ==
  /\ poll.pc = "post" /\ session
  /\ pending' = Append(pending, 0)
  /\ poll' = [poll EXCEPT !.pc = "posted"]
  /\ UNCHANGED <<balance, wait, lastDrip, cookie, session, spent, faults>>


\* The cookie after the faucet refused it.
Dropped == FALSE

\* 401: without the cookie the session is established once more; twice is a failure.
Unauthorized ==
  /\ poll.pc = "post" /\ ~session
  /\ IF poll.again THEN EndPoll /\ UNCHANGED cookie
     ELSE /\ cookie' = Dropped
          /\ poll' = [poll EXCEPT !.pc = IF cookie' THEN "post" ELSE "login", !.again = TRUE]
          /\ UNCHANGED wait
  /\ UNCHANGED <<balance, pending, lastDrip, session, spent, faults>>

Answered ==
  /\ poll.pc = "posted"
  /\ lastDrip' = 0 /\ EndPoll
  /\ UNCHANGED <<balance, pending, cookie, session, spent, faults>>

\* The login or the request fails, or the answer to a drip is lost or an error: the
\* drip, which may have been sent, is not remembered.
DripFails ==
  /\ poll.pc \in {"login", "post", "posted"} /\ Fault /\ EndPoll
  /\ UNCHANGED <<balance, pending, lastDrip, cookie, session, spent>>

Restart ==
  /\ Fault
  /\ poll' = NoPoll /\ wait' = 0 /\ lastDrip' = None /\ cookie' = FALSE
  /\ UNCHANGED <<balance, pending, session, spent>>

-----------------------------------------------------------------------------
PollStep ==
  StartPoll \/ ReadBalance \/ Decide \/ Login \/ Post \/ Unauthorized \/ Answered

Next ==
  Tick \/ Mine \/ Spend \/ SessionEnds \/ PollStep \/ ReadFails \/ DripFails \/ Restart

\* The runtime polls as long as it runs, time passes and drips are mined.
Fairness == WF_vars(PollStep) /\ WF_vars(Tick) /\ WF_vars(Mine)

Spec == Init /\ [][Next]_vars
FairSpec == Spec /\ Fairness

-----------------------------------------------------------------------------
\* Types of the variables.
TypeOK ==
  /\ balance \in Nat /\ pending \in Seq(0..MineTime)
  /\ poll.pc \in {"idle", "asking", "reading", "login", "post", "posted"}
  /\ poll.age \in 0..Latency /\ poll.seen \in Nat /\ wait \in 0..PollInterval
  /\ lastDrip \in 0..Cooldown \cup {None} /\ {cookie, session} \subseteq BOOLEAN
  /\ spent \in 0..MaxSpend /\ faults \in 0..MaxFaults

\* "landing in [min, min + dripAmount)": a wallet never holds more than that, except for
\* one drip more for every answer that was lost and every restart while a drip was
\* on its way.
RestsBelow == balance + Drip * Len(pending) < Floor + Drip * (1 + faults)

\* A wallet below the floor is funded in the end, whatever was lost and whether or not
\* the session still held.
Funded == []<>(balance >= Floor)
=============================================================================
