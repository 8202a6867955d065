---------------------------- MODULE Passthrough ----------------------------
(***************************************************************************)
(* Calls relayed from the endpoint to a real node: a cap per minute over   *)
(* all callers, and the node's address, which the scanner may not have     *)
(* recorded yet and which is remembered once it is known.  What the node   *)
(* answers, or that it does not, changes nothing here.                     *)
(***************************************************************************)
EXTENDS Integers, FiniteSets

CONSTANTS
  None,
  Callers,
  Limit,       \* rateLimitPerMinute
  Window,      \* RATE_LIMIT_WINDOW_MS
  MaxTime,     \* bound: the time of the last step
  MaxAccepted  \* bound: calls that are forwarded

PassthroughAssumption ==
  /\ Limit \in Nat \ {0} /\ Window \in Nat \ {0}
  /\ MaxTime \in Nat /\ MaxAccepted \in Nat
  /\ None \notin Nat

VARIABLES
  now,
  recorded,     \* database: the scanner has recorded its node
  windowStart, windowCount,
  resolvedUrl,  \* BOOLEAN: an address is remembered
  forward,      \* caller -> its call
  accepted      \* history: the times at which slots were taken, in order

vars == <<now, recorded, windowStart, windowCount, resolvedUrl, forward, accepted>>

NoCall == [pc |-> "idle", since |-> FALSE, answer |-> FALSE]

\* The clock is far from zero, where the first window starts.
Init ==
  /\ now = Window /\ recorded = FALSE
  /\ windowStart = 0 /\ windowCount = 0
  /\ resolvedUrl = FALSE
  /\ forward = [c \in Callers |-> NoCall]
  /\ accepted = {}

Tick ==
  /\ now < Window + MaxTime
  /\ now' = now + 1
  /\ UNCHANGED <<recorded, windowStart, windowCount, resolvedUrl, forward, accepted>>

\* The scanner starts and stores its RPC URL.
Record ==
  /\ ~recorded /\ recorded' = TRUE
  /\ UNCHANGED <<now, windowStart, windowCount, resolvedUrl, forward, accepted>>

-----------------------------------------------------------------------------
\* Mutant of WindowOver: the millisecond at which a minute is over still counts.
WindowOverLate == now - windowStart > Window

WindowOver == now - windowStart >= Window

\* takeRateLimitSlot, and the look at the remembered address, which nothing
\* separates from it.
Forward(c) ==
  LET count == IF WindowOver THEN 0 ELSE windowCount
      full == count >= Limit
  IN  /\ forward[c].pc = "idle"
      /\ full \/ Cardinality(accepted) < MaxAccepted
      /\ windowStart' = IF WindowOver THEN now ELSE windowStart
      /\ windowCount' = IF full THEN count ELSE count + 1
      /\ accepted' = IF full THEN accepted
                     ELSE accepted \cup {[at |-> now, nth |-> Cardinality(accepted)]}
      /\ forward' = [forward EXCEPT ![c] =
           [pc |-> IF full THEN "limited" ELSE IF resolvedUrl THEN "sent" ELSE "resolving",
            since |-> recorded, answer |-> FALSE]]
      /\ UNCHANGED <<now, recorded, resolvedUrl>>

\* The database answers a resolver ...
AskUrl(c) ==
  /\ forward[c].pc = "resolving"
  /\ forward' = [forward EXCEPT ![c].pc = "resolved", ![c].answer = recorded]
  /\ UNCHANGED <<now, recorded, windowStart, windowCount, resolvedUrl, accepted>>

\* ... and the answer is remembered, whatever another call has stored meanwhile.
Resolved(c) ==
  /\ forward[c].pc = "resolved"
  /\ resolvedUrl' = forward[c].answer
  /\ forward' = [forward EXCEPT ![c].pc = IF forward[c].answer THEN "sent" ELSE "no node"]
  /\ UNCHANGED <<now, recorded, windowStart, windowCount, accepted>>

\* The call returns: the node's answer, its error, a timeout, or an error here.
Return(c) ==
  /\ forward[c].pc \in {"sent", "limited", "no node"}
  /\ forward' = [forward EXCEPT ![c] = NoCall]
  /\ UNCHANGED <<now, recorded, windowStart, windowCount, resolvedUrl, accepted>>

Next ==
  \/ Tick \/ Record
  \/ \E c \in Callers : Forward(c) \/ AskUrl(c) \/ Resolved(c) \/ Return(c)

Spec == Init /\ [][Next]_vars

-----------------------------------------------------------------------------
\* Types of the variables.
TypeOK ==
  /\ now \in Window..(Window + MaxTime) /\ recorded \in BOOLEAN
  /\ windowStart \in 0..now /\ windowCount \in 0..Limit
  /\ resolvedUrl \in BOOLEAN
  /\ \A c \in Callers :
       forward[c].pc \in {"idle", "resolving", "resolved", "sent", "limited", "no node"}

AcceptedIn(from, to) == Cardinality({a \in accepted : from <= a.at /\ a.at < to})

\* The windows are fixed, so a burst may straddle two of them: any interval of a minute
\* has at most twice the cap, and any of two minutes at most three times.
CapHolds ==
  \A from \in Window..now :
    /\ AcceptedIn(from, from + Window) <= 2 * Limit
    /\ AcceptedIn(from, from + 2 * Window) <= 3 * Limit

\* "Only accepted calls consume the window, so a flood cannot hold it open past the
\* minute it started in": a call is turned away only when a full cap was forwarded
\* within the minute before it, however many were turned away since.
FloodPasses ==
  windowCount >= Limit /\ ~WindowOver =>
    AcceptedIn(now - Window + 1, now + 1) >= Limit

\* A call made after the scanner has recorded its node reaches it, although older calls
\* store an empty answer over the address others remember.
NodeFound == \A c \in Callers : forward[c].pc = "no node" => ~forward[c].since
=============================================================================
