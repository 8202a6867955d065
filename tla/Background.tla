----------------------------- MODULE Background -----------------------------
(***************************************************************************)
(* The loops that work without a request: the scanner, the range           *)
(* aggregator, the precomputed response and the pool of baseload keys.  A  *)
(* behaviour moves one of them, chosen in the initial state, and leaves    *)
(* the others as they started: each is modelled with the environment it    *)
(* reads (the aggregator, for one, with blocks that are stored in any      *)
(* order), so that interleaving them would only multiply states.           *)
(***************************************************************************)
EXTENDS Ingest

CONSTANTS
  Parts,                     \* the components that may move
  Sizes, MaxBlock, MaxSweepFailures,                  \* of the aggregator
  MaxVersion, MaxComputeFailures,                     \* of the precomputed response
  Workers, Calls, workerOf, MaxMintFailures, MaxRestarts  \* of the key pool

VARIABLES
  part,   \* the component that moves
  stored, ranges, aggPc, size, minBlock, maxBlock, first, last, at, aggFailures,
  data, notices, cached, computing, read, pending, recent, delayTimer,
  refreshTimer, started, stopped, failures, told,
  file, loaded, reading, cache, mints, minting, snapshot, call, minted, unsaved,
  mintFailures, restarts

aggregatorVars == <<stored, ranges, aggPc, size, minBlock, maxBlock, first, last,
                    at, aggFailures>>
precomputedVars == <<data, notices, cached, computing, read, pending, recent,
                     delayTimer, refreshTimer, started, stopped, failures, told>>
poolVars == <<file, loaded, reading, cache, mints, minting, snapshot, call, minted,
              unsaved, mintFailures, restarts>>

Aggregator == INSTANCE RangeAggregator WITH
  MaxFailures <- MaxSweepFailures, pc <- aggPc, failures <- aggFailures

Precomputed == INSTANCE PrecomputedResponse WITH MaxFailures <- MaxComputeFailures

Pool == INSTANCE RpcKeyPool WITH
  MaxFailures <- MaxMintFailures, chain <- mints, failures <- mintFailures

ASSUME AggregatorBounds == Aggregator!AggregatorAssumption
ASSUME PrecomputedBounds == Precomputed!PrecomputedAssumption
ASSUME PoolBounds == Pool!PoolAssumption

AllInit ==
  /\ part \in Parts
  /\ Init /\ Aggregator!Init /\ Precomputed!Init /\ Pool!Init
  /\ part # "ingest" => head = 0
  /\ part # "pool" => file = {}

IngestStep ==
  /\ part = "ingest" /\ Next
  /\ UNCHANGED <<part, aggregatorVars, precomputedVars, poolVars>>

AggregatorStep ==
  /\ part = "aggregator" /\ Aggregator!Next
  /\ UNCHANGED <<part, vars, precomputedVars, poolVars>>

PrecomputedStep ==
  /\ part = "precomputed" /\ Precomputed!Next
  /\ UNCHANGED <<part, vars, aggregatorVars, poolVars>>

PoolStep ==
  /\ part = "pool" /\ Pool!Next
  /\ UNCHANGED <<part, vars, aggregatorVars, precomputedVars>>

AllNext == IngestStep \/ AggregatorStep \/ PrecomputedStep \/ PoolStep

AllSpec ==
  AllInit /\ [][AllNext]_<<part, vars, aggregatorVars, precomputedVars, poolVars>>

\* The fairness of each component; only the one that moves is held to it.
AllFairSpec ==
  /\ AllSpec
  /\ \A p \in Procs :
       /\ WF_vars(part = "ingest" /\ ScannerStep(p))
       /\ SF_vars(part = "ingest" /\ BackfillCommit(p))
       /\ SF_vars(part = "ingest" /\ ForwardCommit(p))
  /\ WF_vars(part = "ingest" /\ FindGaps)
  /\ SF_vars(part = "ingest" /\ GapFetch)
  /\ SF_vars(part = "ingest" /\ GapCommit)
  /\ WF_aggregatorVars(part = "aggregator" /\ Aggregator!SweepStep)
  /\ WF_precomputedVars(part = "precomputed" /\ Precomputed!Start)
  /\ WF_precomputedVars(part = "precomputed" /\ Precomputed!Refresh)
  /\ WF_precomputedVars(part = "precomputed" /\ Precomputed!WindowEnds)
  /\ WF_precomputedVars(part = "precomputed" /\ Precomputed!ReadData)
  /\ WF_precomputedVars(part = "precomputed" /\ Precomputed!Computed)
  /\ \A c \in Calls : WF_poolVars(part = "pool" /\ Pool!FileRead(c))
  /\ WF_poolVars(part = "pool" /\ Pool!StartMint)
  /\ WF_poolVars(part = "pool" /\ Pool!Minted)
  /\ WF_poolVars(part = "pool" /\ Pool!Written)

-----------------------------------------------------------------------------
\* With one scanner that alternates a backfill slice and a catch-up, every block
\* from OldestBlock on is stored once it is deep enough for every node to report
\* it as safe (Ingest).
EveryBlockStored == part = "ingest" => EventuallyStored

\* No row of block_ranges covers a block that is not stored, although the window
\* was counted in one statement and written in another; and a sweep leaves no
\* window behind that it could have written (RangeAggregator).
WindowsComplete ==
  Aggregator!TypeOK /\ Aggregator!CompleteOnly /\ Aggregator!NoWindowLeftBehind

\* A notification handled while a recompute runs is followed by another one, and
\* a stopped process holds no timer, also when it is stopped while start awaits
\* the first response (PrecomputedResponse).
PrecomputeSound ==
  Precomputed!TypeOK /\ Precomputed!NoWakeupLost /\ Precomputed!QuietOnceStopped

\* A process mints one key per worker, however the worker's loop and the balance
\* poller ask, fail and ask again; and the file holds what was minted unless a
\* write failed (RpcKeyPool).
MintsKept == Pool!TypeOK /\ Pool!MintedOnce /\ Pool!MintsAreSaved

\* The background work gets done, whatever failed on the way: a window without a
\* hole is aggregated, the precomputed response reaches the latest data, and a
\* caller of the key pool is answered although the mint before its own failed.
BackgroundCatchesUp ==
  /\ Aggregator!EventuallyAggregated
  /\ part = "precomputed" => Precomputed!CatchesUp
  /\ Pool!Answered
=============================================================================
