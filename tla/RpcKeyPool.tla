----------------------------- MODULE RpcKeyPool -----------------------------
(***************************************************************************)
(* The pool that hands every worker of the load generator an RPC key of    *)
(* its own.  A key is minted on first use, which takes a captcha, one at a *)
(* time and once per worker however many loops and pollers ask for it; it  *)
(* is kept in a file, so that the next process finds it.                   *)
(***************************************************************************)
EXTENDS Integers, Sequences, FiniteSets

CONSTANTS
  None,
  Workers,
  Calls,        \* callers of endpointFor: worker loops and balance polls
  workerOf,     \* the worker each of them asks for
  MaxFailures,  \* bound: mints and writes that fail
  MaxRestarts   \* bound

PoolAssumption ==
  /\ workerOf \in [Calls -> Workers]
  /\ MaxFailures \in Nat /\ MaxRestarts \in Nat

VARIABLES
  file,       \* the workers the store has a key for
  loaded, reading,
  cache,      \* the workers the pool has a key for
  chain,      \* workers whose mint is queued or under way: mintChain, pending
  minting,    \* the state of the first of them
  snapshot,   \* what persist writes
  call,       \* each caller
  minted,     \* history: mints that succeeded in this process
  unsaved,    \* history: has a write failed in this process?
  failures, restarts

vars == <<file, loaded, reading, cache, chain, minting, snapshot, call, minted,
          unsaved, failures, restarts>>

Queued == {chain[i] : i \in DOMAIN chain}

\* The store of an earlier process may be there.
Init ==
  /\ file \in SUBSET Workers
  /\ loaded = FALSE /\ reading = FALSE
  /\ cache = {} /\ chain = << >> /\ minting = "queued" /\ snapshot = {}
  /\ call = [c \in Calls |-> "idle"]
  /\ minted = [w \in Workers |-> 0]
  /\ unsaved = FALSE
  /\ failures = 0 /\ restarts = 0

-----------------------------------------------------------------------------

\* keyFor behind its load: a key at hand, the mint under way, or a new one.
Ask(c, keys) ==
  IF workerOf[c] \in keys
  THEN call' = [call EXCEPT ![c] = "served"] /\ UNCHANGED chain
  ELSE /\ call' = [call EXCEPT ![c] = "waiting"]
       /\ chain' = IF workerOf[c] \in Queued THEN chain ELSE Append(chain, workerOf[c])

\* load: the first caller reads the file, the others go on.
KeyFor(c) ==
  /\ call[c] \in {"idle", "served"}
  /\ loaded' = TRUE
  /\ IF loaded THEN Ask(c, cache) /\ UNCHANGED reading
     ELSE /\ reading' = TRUE
          /\ call' = [call EXCEPT ![c] = "loading"]
          /\ UNCHANGED chain
  /\ UNCHANGED <<file, cache, minting, snapshot, minted, unsaved, failures, restarts>>

FileRead(c) ==
  /\ reading /\ call[c] = "loading"
  /\ reading' = FALSE
  /\ cache' = cache \cup file
  /\ Ask(c, cache')
  /\ UNCHANGED <<file, loaded, minting, snapshot, minted, unsaved, failures, restarts>>

\* The mint at the head of the chain ends: its callers have a key or an error.
Settle(outcome) ==
  /\ chain' = Tail(chain)
  /\ minting' = "queued" /\ snapshot' = {}
  /\ call' = [c \in Calls |->
       IF call[c] = "waiting" /\ workerOf[c] = Head(chain) THEN outcome ELSE call[c]]

\* mintAndStore: a key that arrived while the mint was queued makes it needless.
StartMint ==
  /\ chain # << >> /\ minting = "queued"
  /\ IF Head(chain) \in cache THEN Settle("served")
     ELSE minting' = "posted" /\ UNCHANGED <<chain, snapshot, call>>
  /\ UNCHANGED <<file, loaded, reading, cache, minted, unsaved, failures, restarts>>

\* Mutant of Minted: the file is written before the key is in the pool.
MintedBehind ==
  /\ chain # << >> /\ minting = "posted"
  /\ cache' = cache \cup {Head(chain)}
  /\ minted' = [minted EXCEPT ![Head(chain)] = @ + 1]
  /\ minting' = "writing" /\ snapshot' = cache
  /\ UNCHANGED <<file, loaded, reading, chain, call, unsaved, failures, restarts>>

\* The generator answers; persist writes everything the pool has.
Minted ==
  /\ chain # << >> /\ minting = "posted"
  /\ cache' = cache \cup {Head(chain)}
  /\ minted' = [minted EXCEPT ![Head(chain)] = @ + 1]
  /\ minting' = "writing" /\ snapshot' = cache'
  /\ UNCHANGED <<file, loaded, reading, chain, call, unsaved, failures, restarts>>

\* Mutant of MintFails: the mints behind a failed one never start.
MintFailsForAll ==
  /\ minting = "posted" /\ failures < MaxFailures
  /\ failures' = failures + 1
  /\ minting' = "broken"
  /\ call' = [c \in Calls |->
       IF call[c] = "waiting" /\ workerOf[c] = Head(chain) THEN "idle" ELSE call[c]]
  /\ UNCHANGED <<file, loaded, reading, cache, chain, snapshot, minted, unsaved, restarts>>

\* The generator refuses, or the time is up: the callers fail and ask again.
MintFails ==
  /\ minting = "posted" /\ failures < MaxFailures
  /\ failures' = failures + 1
  /\ Settle("idle")
  /\ UNCHANGED <<file, loaded, reading, cache, minted, unsaved, restarts>>

Written ==
  /\ minting = "writing"
  /\ file' = snapshot
  /\ Settle("served")
  /\ UNCHANGED <<loaded, reading, cache, minted, unsaved, failures, restarts>>

\* persist swallows the error.
WriteFails ==
  /\ minting = "writing" /\ failures < MaxFailures
  /\ failures' = failures + 1
  /\ unsaved' = TRUE
  /\ Settle("served")
  /\ UNCHANGED <<file, loaded, reading, cache, minted, restarts>>

\* The process restarts; a write cut short leaves a file nobody can parse.
Restart ==
  /\ restarts < MaxRestarts /\ restarts' = restarts + 1
  /\ file' \in IF minting = "writing" THEN {file, {}} ELSE {file}
  /\ loaded' = FALSE /\ reading' = FALSE
  /\ cache' = {} /\ chain' = << >> /\ minting' = "queued" /\ snapshot' = {}
  /\ call' = [c \in Calls |-> "idle"]
  /\ minted' = [w \in Workers |-> 0]
  /\ unsaved' = FALSE
  /\ UNCHANGED failures

-----------------------------------------------------------------------------
Next ==
  \/ \E c \in Calls : KeyFor(c) \/ FileRead(c)
  \/ StartMint \/ Minted \/ MintFails \/ Written \/ WriteFails
  \/ Restart

Spec == Init /\ [][Next]_vars

\* The file system answers, and the mint has a timeout.
FairSpec ==
  /\ Spec
  /\ \A c \in Calls : WF_vars(FileRead(c))
  /\ WF_vars(StartMint) /\ WF_vars(Minted) /\ WF_vars(Written)

-----------------------------------------------------------------------------
\* Types of the variables.
TypeOK ==
  /\ {file, cache, snapshot} \subseteq SUBSET Workers
  /\ loaded \in BOOLEAN /\ reading \in BOOLEAN /\ unsaved \in BOOLEAN
  /\ chain \in Seq(Workers)
  /\ Len(chain) = Cardinality(Queued)
  /\ minting \in {"queued", "posted", "writing", "broken"}
  /\ call \in [Calls -> {"idle", "loading", "waiting", "served"}]
  /\ minted \in [Workers -> Nat]
  /\ failures \in 0..MaxFailures /\ restarts \in 0..MaxRestarts

\* "Without this each retry would burn a mint": a process mints at most once
\* per worker, however its loop and the balance poller ask, fail and ask again.
MintedOnce == \A w \in Workers : minted[w] <= 1

\* "Persisted to disk so a restart reuses them": when no mint is under way and
\* no write has failed, the file holds every key this process has minted.
MintsAreSaved ==
  chain = << >> /\ ~unsaved => \A w \in Workers : minted[w] > 0 => w \in file

\* "Keep the chain alive after a failed mint so later workers still queue":
\* every caller is answered.
Answered ==
  \A c \in Calls :
    call[c] \in {"loading", "waiting"} ~> call[c] \in {"idle", "served"}
=============================================================================
