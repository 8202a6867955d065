------------------------------ MODULE Baseload ------------------------------
(***************************************************************************)
(* The load generator: a worker, and the faucet that keeps its wallet      *)
(* funded.  The worker spends whatever the wallet holds and the faucet     *)
(* only looks at the balance, so that a behaviour moves one of the two,    *)
(* chosen in the initial state.                                            *)
(***************************************************************************)
EXTENDS BaseloadWorker

CONSTANTS
  Parts,   \* the components that may move
  \* Of the faucet: the wallet's limits, the poll, the environment and the bounds.
  Floor, Ceiling, Drip, Cooldown, PollInterval, MineTime, Latency, MaxSpend, MaxLost

VARIABLES
  part,   \* the component that moves
  balance, pending, poll, wait, lastDrip, cookie, session, spent, lost

faucetVars == <<balance, pending, poll, wait, lastDrip, cookie, session, spent, lost>>

Faucet == INSTANCE BaseloadFaucet WITH MaxFaults <- MaxLost, faults <- lost

ASSUME FaucetBounds == Faucet!FaucetAssumption

AllInit ==
  /\ part \in Parts /\ Init /\ Faucet!Init
  /\ part # "worker" => baseFee = CHOOSE fee \in BaseFees : TRUE

WorkerStep == part = "worker" /\ Next /\ UNCHANGED <<part, faucetVars>>
FaucetStep == part = "faucet" /\ Faucet!Next /\ UNCHANGED <<part, vars>>

AllNext == WorkerStep \/ FaucetStep

AllSpec == AllInit /\ [][AllNext]_<<part, vars, faucetVars>>

\* The fairness of each component; only the one that moves is held to it.
AllFairSpec ==
  /\ AllSpec
  /\ WF_vars(part = "worker" /\ Mine)
  /\ \A t \in Tasks : WF_vars(part = "worker" /\ TaskStep(t))
  /\ WF_faucetVars(part = "faucet" /\ Faucet!PollStep)
  /\ WF_faucetVars(part = "faucet" /\ Faucet!Tick)
  /\ WF_faucetVars(part = "faucet" /\ Faucet!Mine)

-----------------------------------------------------------------------------
\* "An empty wallet is dripped until it first clears the floor, landing in [min, min +
\* dripAmount)": it never holds more, drips on their way included, except for one drip
\* per lost answer and restart (BaseloadFaucet).
WalletBounded == Faucet!TypeOK /\ Faucet!RestsBelow

=============================================================================
