----------------------------- MODULE RpcKeyRing -----------------------------
(***************************************************************************)
(* The ring of RPC keys one process rotates through.  A key is retired for *)
(* good when the bouncer rejects it or its monthly quota is spent, and     *)
(* rests for a while after a rate limit.  Responses arrive late and in any *)
(* order: a key may be rejected after it was handed out again.             *)
(*                                                                         *)
(* Workers of the load generator hold a key on a lease; everybody else     *)
(* asks for the next one per call.                                         *)
(***************************************************************************)
EXTENDS Integers, Sequences, FiniteSets

CONSTANTS
  None,
  N,        \* how many keys, without duplicates
  Owners    \* holders of leases

RingAssumption == N \in Nat \ {0} /\ None \notin Nat

RingKeys == 0..(N - 1)

VARIABLES
  cursor,
  exhausted,   \* keys whose exhaustedAtMs is set
  cooling,     \* keys whose cooldownUntilMs lies ahead
  leases,
  handedOut,   \* history: the keys handed out so far
  overtaken,   \* history: see NoKeyStarves
  offer        \* history: the last key handed out, and the ring at that moment

vars == <<cursor, exhausted, cooling, leases, handedOut, overtaken, offer>>
ring == <<cursor, leases, handedOut, offer>>

Available == RingKeys \ (exhausted \cup cooling)

\* The distance of key k ahead of the cursor.
Ahead(k) == (k - cursor + N) % N

-----------------------------------------------------------------------------
Init ==
  /\ cursor = 0
  /\ exhausted = {} /\ cooling = {}
  /\ leases = [o \in Owners |-> None]
  /\ handedOut = {}
  /\ overtaken = [j \in RingKeys |-> [k \in RingKeys |-> 0]]
  /\ offer = None

-----------------------------------------------------------------------------

\* next: the first usable key from the cursor on, else the one at the cursor.
IsNext(k) ==
  IF Available = {} THEN k = cursor
  ELSE k \in Available /\ \A j \in Available : Ahead(k) <= Ahead(j)

\* Key k leaves the ring's hands; what the histories make of it.
HandOut(k) ==
  /\ k \in RingKeys
  /\ cursor' = (k + 1) % N
  /\ handedOut' = handedOut \cup {k}
  /\ overtaken' = [j \in RingKeys |->
       IF j = k THEN [i \in RingKeys |-> 0]
       ELSE IF j \notin Available THEN overtaken[j]
       ELSE [overtaken[j] EXCEPT ![k] = IF @ < 2 THEN @ + 1 ELSE @]]
  /\ offer' = [key |-> k, available |-> Available]

\* An owner-less call.
Call ==
  /\ \E k \in RingKeys : IsNext(k) /\ HandOut(k)
  /\ UNCHANGED <<exhausted, cooling, leases>>

\* Mutant of LeaseFor: a lease is renewed when its key merely rests.
LeaseForAvailable(o) ==
  /\ leases[o] # None => leases[o] \notin Available
  /\ \E k \in RingKeys :
       IsNext(k) /\ HandOut(k) /\ leases' = [leases EXCEPT ![o] = k]
  /\ UNCHANGED <<exhausted, cooling>>

\* leaseFor, when the owner has no key or a burnt one; otherwise it keeps it.
LeaseFor(o) ==
  /\ leases[o] # None => leases[o] \in exhausted
  /\ \E k \in RingKeys :
       IsNext(k) /\ HandOut(k) /\ leases' = [leases EXCEPT ![o] = k]
  /\ UNCHANGED <<exhausted, cooling>>

\* noteResponse on HTTP 401, 403 or a spent quota, and retire.
Retire(k) ==
  /\ k \notin exhausted
  /\ exhausted' = exhausted \cup {k}
  /\ UNCHANGED <<ring, cooling, overtaken>>

\* noteResponse on a plain rate limit.
Rest(k) ==
  /\ k \in handedOut
  /\ cooling' = cooling \cup {k}
  /\ UNCHANGED <<ring, exhausted, overtaken>>

\* The cooldown is over: the key starts afresh in NoKeyStarves.
Rested(k) ==
  /\ k \in cooling
  /\ cooling' = cooling \ {k}
  /\ overtaken' = [overtaken EXCEPT ![k] = [i \in RingKeys |-> 0]]
  /\ UNCHANGED <<ring, exhausted>>

-----------------------------------------------------------------------------
Next ==
  \/ Call
  \/ \E o \in Owners : LeaseFor(o)
  \/ \E k \in RingKeys : Retire(k) \/ Rest(k) \/ Rested(k)

Spec == Init /\ [][Next]_vars

-----------------------------------------------------------------------------
Offers == [key : RingKeys, available : SUBSET RingKeys]

\* Types of the variables.
TypeOK ==
  /\ cursor \in RingKeys
  /\ exhausted \subseteq RingKeys /\ cooling \subseteq RingKeys
  /\ leases \in [Owners -> RingKeys \cup {None}]
  /\ handedOut \subseteq RingKeys
  /\ overtaken \in [RingKeys -> [RingKeys -> 0..2]]
  /\ offer \in Offers \cup {None}

\* "Round-robin over the keys that are neither exhausted nor cooling down": no
\* key that stays usable is passed over twice in favour of the same other key,
\* whatever burns out, rests or recovers between.
NoKeyStarves == \A j, k \in RingKeys : overtaken[j][k] <= 1

\* While a key is usable, none that is burnt or resting is handed out.
UsableFirst == offer # None /\ offer.available # {} => offer.key \in offer.available

\* "A key held for an owner until it burns out": a lease only changes hands
\* when its key is retired, though the ring moves on and the key may rest.
StickyStep ==
  \A o \in Owners : leases[o] # None => leases'[o] = leases[o] \/ leases[o] \in exhausted
LeasesSticky == [][StickyStep]_leases

=============================================================================
