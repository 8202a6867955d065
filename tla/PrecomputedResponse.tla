------------------------ MODULE PrecomputedResponse ------------------------
(***************************************************************************)
(* The response of /sync, recomputed when a block is stored and at fixed   *)
(* intervals.  A burst of notifications costs one recompute per coalescing *)
(* window; one that arrives while a recompute runs causes another, since   *)
(* the running one may have read the database before.                      *)
(***************************************************************************)
EXTENDS Integers

CONSTANTS
  None,
  MaxVersion,   \* bound: stored blocks
  MaxFailures   \* bound: recomputes that fail

Versions == 0..MaxVersion

PrecomputedAssumption ==
  /\ MaxVersion \in Nat /\ MaxFailures \in Nat
  /\ None \notin Int

VARIABLES
  data,           \* database: the latest stored block
  notices,        \* notifications under way
  cached,
  computing, read,  \* is a recompute running, and what has it read?
  pending,
  recent,         \* less than minIntervalMs since lastStartedAt
  delayTimer, refreshTimer,
  started, stopped,
  failures,
  told            \* history: the block of the last notification handled

clocks == <<delayTimer, refreshTimer>>
vars == <<data, notices, cached, computing, read, pending, recent, delayTimer,
          refreshTimer, started, stopped, failures, told>>

Init ==
  /\ data = 0 /\ notices = 0 /\ told = 0
  /\ cached = None
  /\ computing = FALSE /\ read = None /\ pending = FALSE
  /\ recent = FALSE /\ delayTimer = FALSE /\ refreshTimer = FALSE
  /\ started = FALSE /\ stopped = FALSE
  /\ failures = 0

-----------------------------------------------------------------------------
\* A block is committed; its notification arrives later, or is lost (external).
StoreBlock ==
  /\ data < MaxVersion
  /\ data' = data + 1
  /\ notices' \in {notices, notices + 1}
  /\ UNCHANGED <<cached, computing, read, pending, recent, clocks, started,
                 stopped, failures, told>>

\* runCompute, up to its await.
RunCompute ==
  /\ computing' = TRUE /\ read' = None
  /\ recent' = TRUE

\* Mutant of MarkDirty: the recompute that runs is taken to be enough.
MarkDirtyJoins ==
  IF stopped \/ computing THEN UNCHANGED <<computing, read, pending, recent, clocks>>
  ELSE IF ~recent THEN RunCompute /\ UNCHANGED <<pending, clocks>>
  ELSE /\ delayTimer' = TRUE
       /\ UNCHANGED <<computing, read, pending, recent, refreshTimer>>

\* markDirty: at once, behind the running recompute, or at the window's end.
MarkDirty ==
  IF stopped THEN UNCHANGED <<computing, read, pending, recent, clocks>>
  ELSE IF computing THEN pending' = TRUE /\ UNCHANGED <<computing, read, recent, clocks>>
  ELSE IF ~recent THEN RunCompute /\ UNCHANGED <<pending, clocks>>
  ELSE /\ delayTimer' = TRUE
       /\ UNCHANGED <<computing, read, pending, recent, refreshTimer>>

\* The listener; it is installed once start has returned.
Notified ==
  /\ refreshTimer \/ stopped
  /\ notices > 0
  /\ notices' = notices - 1
  /\ told' = data
  /\ MarkDirty
  /\ UNCHANGED <<data, cached, started, stopped, failures>>

Start ==
  /\ ~started /\ started' = TRUE
  /\ RunCompute
  /\ UNCHANGED <<data, notices, cached, pending, clocks, stopped, failures, told>>

\* setInterval fires.
Refresh ==
  /\ refreshTimer
  /\ MarkDirty
  /\ UNCHANGED <<data, notices, cached, started, stopped, failures, told>>

\* The window ends; a timer armed for its end calls markDirty.
WindowEnds ==
  /\ recent
  /\ delayTimer' = FALSE
  /\ IF delayTimer /\ ~stopped
     THEN IF computing THEN pending' = TRUE /\ recent' = FALSE /\ UNCHANGED <<computing, read>>
                       ELSE RunCompute /\ UNCHANGED pending
     ELSE recent' = FALSE /\ UNCHANGED <<computing, read, pending>>
  /\ UNCHANGED <<data, notices, cached, refreshTimer, started, stopped,
                 failures, told>>

ReadData ==
  /\ computing /\ read = None
  /\ read' = data
  /\ UNCHANGED <<data, notices, cached, computing, pending, recent, clocks,
                 started, stopped, failures, told>>

\* The rest of start: the refresh timer is armed once, unless stopped.
FirstDone == refreshTimer' = ~stopped

\* The end of runCompute.  The pending mark asks again: now, if the window is
\* over, else at its end.
EndCompute ==
  /\ FirstDone
  /\ IF pending /\ ~stopped
     THEN /\ pending' = FALSE
          /\ IF recent THEN computing' = FALSE /\ read' = None /\ delayTimer' = TRUE
                            /\ UNCHANGED recent
                       ELSE RunCompute /\ UNCHANGED delayTimer
     ELSE computing' = FALSE /\ read' = None /\ UNCHANGED <<pending, recent, delayTimer>>

Computed ==
  /\ read # None
  /\ cached' = IF stopped THEN cached ELSE read
  /\ EndCompute
  /\ UNCHANGED <<data, notices, started, stopped, failures, told>>

\* compute throws: the previous response stays.
ComputeFails ==
  /\ computing /\ failures < MaxFailures
  /\ failures' = failures + 1
  /\ EndCompute
  /\ UNCHANGED <<data, notices, cached, started, stopped, told>>

Stop ==
  /\ ~stopped /\ stopped' = TRUE
  /\ delayTimer' = FALSE /\ refreshTimer' = FALSE
  /\ UNCHANGED <<data, notices, cached, computing, read, pending, recent,
                 started, failures, told>>

-----------------------------------------------------------------------------
Next ==
  \/ StoreBlock \/ Notified \/ Start \/ Refresh \/ WindowEnds
  \/ ReadData \/ Computed \/ ComputeFails \/ Stop

Spec == Init /\ [][Next]_vars

\* The process starts; timers fire and queries answer.
FairSpec ==
  /\ Spec
  /\ WF_vars(Start) /\ WF_vars(Refresh) /\ WF_vars(WindowEnds)
  /\ WF_vars(ReadData) /\ WF_vars(Computed)

-----------------------------------------------------------------------------
\* Types of the variables.
TypeOK ==
  /\ data \in Versions /\ told \in Versions /\ notices \in Versions
  /\ cached \in Versions \cup {None} /\ read \in Versions \cup {None}
  /\ \A b \in {computing, pending, recent, delayTimer, refreshTimer, started, stopped} :
       b \in BOOLEAN
  /\ failures \in 0..MaxFailures

\* "markDirty recomputes immediately after a block lands": after a notification
\* the response is up to date, or a recompute that will read the block runs, is
\* pending or is scheduled; only a failed recompute leaves it to the refresh.
NoWakeupLost ==
  ~stopped /\ failures = 0 /\ cached # None /\ cached < told =>
    \/ computing /\ (read = None \/ read >= told)
    \/ pending \/ delayTimer

\* Once stopped, the process holds no timer and runs nothing new, even when it
\* is stopped while start awaits the first response.
QuietOnceStopped == stopped => ~delayTimer /\ ~refreshTimer

\* "A periodic refresh recomputes even without events": unless it is stopped,
\* the response catches up with the database, whatever notification is lost
\* and whichever recompute failed.
CatchesUp == <>[](stopped \/ cached = data)
=============================================================================
