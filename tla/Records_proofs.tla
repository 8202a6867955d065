--------------------------- MODULE Records_proofs ---------------------------
(***************************************************************************)
(* Proofs about what is kept for the readers, for every constant: the      *)
(* calls that are relayed, the lists of the API, the entity index and its  *)
(* readers, the calls that the JSON-RPC endpoint answers, the table of top *)
(* transactions, the board of the guzzlers, the state that /sync reports   *)
(* and the sessions of a browser.  None of their properties is inductive   *)
(* by itself; each section says what its inductive invariant adds.         *)
(***************************************************************************)
EXTENDS Records, Integers, Sequences, FiniteSetTheorems, FunctionTheorems,
        WellFoundedInduction, TLAPS

-----------------------------------------------------------------------------
(* Relayed calls.  What an interval can hold depends on the windows it     *)
(* straddles: the invariant counts the slots taken since the last window   *)
(* began, and in the one and the two window lengths before it.             *)

\* The slots taken in an interval, and since a time.
Taken(from, to) == {s \in accepted : from <= s.at /\ s.at < to}
TakenSince(from) == {s \in accepted : from <= s.at}

RelayPCs == {"idle", "resolving", "resolved", "sent", "limited", "no node"}

RelayTypes ==
  /\ relayNow \in Window..(Window + RelayTime) /\ recorded \in BOOLEAN
  /\ windowStart \in 0..relayNow /\ windowCount \in 0..Limit
  /\ resolvedUrl \in BOOLEAN
  /\ relayed \in [Callers -> [pc : RelayPCs, since : BOOLEAN, answer : BOOLEAN]]
  /\ accepted \subseteq [at : Nat, nth : Nat] /\ IsFiniteSet(accepted)

\* The slots are numbered, and lie within their windows.
SlotsInOrder ==
  \A s \in accepted :
    /\ s.nth < Cardinality(accepted)
    /\ s.at <= relayNow /\ s.at < windowStart + Window

SlotsCounted ==
  /\ Cardinality(TakenSince(windowStart)) = windowCount
  /\ Cardinality(Taken(windowStart - Window, windowStart)) <= Limit
  /\ Cardinality(Taken(windowStart - 2 * Window, windowStart)) <= 2 * Limit

\* CapHolds, from every time on.
Capped ==
  \A from \in Int :
    /\ Cardinality(Taken(from, from + Window)) <= 2 * Limit
    /\ Cardinality(Taken(from, from + 2 * Window)) <= 3 * Limit

\* A call that came after the scanner had recorded its node finds it.
NodeKnown ==
  \A c \in Callers :
    /\ relayed[c].since => recorded
    /\ relayed[c].pc = "resolved" /\ relayed[c].since => relayed[c].answer
    /\ relayed[c].pc = "no node" => ~relayed[c].since

RelayInv == RelayTypes /\ SlotsInOrder /\ SlotsCounted /\ Capped /\ NodeKnown

LEMMA RelayConstants ==
  /\ Limit \in Nat \ {0} /\ Window \in Nat \ {0} /\ RelayTime \in Nat /\ MaxAccepted \in Nat
  BY RelayBounds DEF Relay!PassthroughAssumption

\* Cardinality is the same operator in the instance.
LEMMA RelayCardinality == \A S : Relay!Cardinality(S) = Cardinality(S)
  BY DEF Relay!Cardinality, Cardinality

\* An interval within the union of two sets holds no more than both.
LEMMA AtMostBoth ==
  ASSUME NEW T, NEW U, IsFiniteSet(T), IsFiniteSet(U), NEW S \in SUBSET (T \union U),
         NEW m \in Nat, NEW n \in Nat, Cardinality(T) <= m, Cardinality(U) <= n
  PROVE  IsFiniteSet(S) /\ Cardinality(S) <= m + n
<1>1. /\ IsFiniteSet(T \union U)
      /\ Cardinality(T \union U) = Cardinality(T) + Cardinality(U) - Cardinality(T \intersect U)
  BY FS_Union
<1>2. IsFiniteSet(T \intersect U)
  BY FS_Intersection
<1>3. IsFiniteSet(S) /\ Cardinality(S) <= Cardinality(T \union U)
  BY <1>1, FS_Subset
<1>4. /\ Cardinality(S) \in Nat /\ Cardinality(T) \in Nat /\ Cardinality(U) \in Nat
      /\ Cardinality(T \union U) \in Nat /\ Cardinality(T \intersect U) \in Nat
  BY <1>1, <1>2, <1>3, FS_CardinalityType
<1> QED
  BY <1>1, <1>3, <1>4

LEMMA NoMoreThan ==
  ASSUME NEW T, IsFiniteSet(T), NEW S \in SUBSET T, NEW n \in Nat, Cardinality(T) <= n
  PROVE  IsFiniteSet(S) /\ Cardinality(S) <= n
<1>1. IsFiniteSet(S) /\ Cardinality(S) <= Cardinality(T)
  BY FS_Subset
<1>2. Cardinality(S) \in Nat /\ Cardinality(T) \in Nat
  BY <1>1, FS_CardinalityType
<1> QED
  BY <1>1, <1>2

LEMMA TakenFinite ==
  ASSUME RelayTypes
  PROVE  /\ \A from, to : IsFiniteSet(Taken(from, to)) /\ Cardinality(Taken(from, to)) \in Nat
         /\ \A from : IsFiniteSet(TakenSince(from)) /\ Cardinality(TakenSince(from)) \in Nat
<1>1. IsFiniteSet(accepted)
  BY DEF RelayTypes
<1>2. \A S \in SUBSET accepted : IsFiniteSet(S) /\ Cardinality(S) \in Nat
  BY <1>1, FS_Subset, FS_CardinalityType
<1>3. /\ \A from, to : Taken(from, to) \in SUBSET accepted
      /\ \A from : TakenSince(from) \in SUBSET accepted
  BY DEF Taken, TakenSince
<1> QED
  BY <1>2, <1>3

LEMMA RelayInvImplies ==
  ASSUME RelayInv
  PROVE  Relay!TypeOK /\ Relay!CapHolds /\ Relay!FloodPasses /\ Relay!NodeFound
<1> USE RelayConstants
<1>1. Relay!TypeOK
  BY DEF RelayInv, RelayTypes, RelayPCs, Relay!TypeOK
<1>2. \A from, to : Relay!AcceptedIn(from, to) = Cardinality(Taken(from, to))
  BY RelayCardinality DEF Relay!AcceptedIn, Taken
<1>3. Relay!CapHolds
  <2>1. relayNow \in Int
    BY DEF RelayInv, RelayTypes
  <2>2. Window..relayNow \subseteq Int
    OBVIOUS
  <2> QED
    BY <1>2, <2>2, Zenon DEF RelayInv, Capped, Relay!CapHolds
<1>4. ASSUME windowCount >= Limit, ~Relay!WindowOver
      PROVE  Cardinality(Taken(relayNow - Window + 1, relayNow + 1)) >= Limit
  <2>1. /\ relayNow \in Nat /\ windowStart \in Nat /\ windowCount \in Nat
        /\ relayNow - windowStart < Window
    BY <1>4 DEF RelayInv, RelayTypes, Relay!WindowOver
  <2>2. \A s \in accepted : s.at \in Nat /\ s.at <= relayNow
    BY DEF RelayInv, RelayTypes, SlotsInOrder
  <2>3. TakenSince(windowStart) \subseteq Taken(relayNow - Window + 1, relayNow + 1)
    BY <2>1, <2>2 DEF Taken, TakenSince
  <2>4. /\ IsFiniteSet(Taken(relayNow - Window + 1, relayNow + 1))
        /\ Cardinality(Taken(relayNow - Window + 1, relayNow + 1)) \in Nat
    BY TakenFinite DEF RelayInv
  <2>5. Cardinality(TakenSince(windowStart))
          <= Cardinality(Taken(relayNow - Window + 1, relayNow + 1))
    BY <2>3, <2>4, FS_Subset
  <2> QED
    BY <1>4, <2>1, <2>4, <2>5 DEF RelayInv, SlotsCounted
<1>5. Relay!FloodPasses
  BY <1>2, <1>4 DEF Relay!FloodPasses
<1>6. Relay!NodeFound
  BY DEF RelayInv, NodeKnown, Relay!NodeFound
<1> QED
  BY <1>1, <1>3, <1>5, <1>6

LEMMA RelayStarts ==
  ASSUME Relay!Init
  PROVE  RelayInv
<1>0. /\ relayNow = Window /\ recorded = FALSE /\ windowStart = 0 /\ windowCount = 0
      /\ resolvedUrl = FALSE /\ relayed = [c \in Callers |-> Relay!NoCall] /\ accepted = {}
      /\ Limit \in Nat /\ Window \in Nat \ {0} /\ RelayTime \in Nat
  BY RelayConstants DEF Relay!Init
<1>1. IsFiniteSet({}) /\ Cardinality({}) = 0
  BY FS_EmptySet
<1>2. RelayTypes
  <2>1. Relay!NoCall \in [pc : RelayPCs, since : BOOLEAN, answer : BOOLEAN]
    BY DEF RelayPCs, Relay!NoCall
  <2>2. relayed \in [Callers -> [pc : RelayPCs, since : BOOLEAN, answer : BOOLEAN]]
    BY <1>0, <2>1
  <2>3. /\ relayNow \in Window..(Window + RelayTime) /\ windowStart \in 0..relayNow
        /\ windowCount \in 0..Limit
    BY <1>0
  <2> QED
    BY <1>0, <1>1, <2>2, <2>3 DEF RelayTypes
<1>3. /\ \A from, to : Taken(from, to) = {}
      /\ \A from : TakenSince(from) = {}
  BY <1>0 DEF Taken, TakenSince
<1>4. SlotsInOrder /\ SlotsCounted /\ Capped
  <2>1. SlotsInOrder
    BY <1>0 DEF SlotsInOrder
  <2>2. 0 <= 2 * Limit /\ 0 <= 3 * Limit /\ 0 <= Limit
    BY <1>0
  <2>3. Capped
    BY <1>1, <1>3, <2>2, Zenon DEF Capped
  <2>4. SlotsCounted
    BY <1>0, <1>1, <1>3, <2>2, Zenon DEF SlotsCounted
  <2> QED
    BY <2>1, <2>3, <2>4
<1>5. NodeKnown
  BY <1>0 DEF NodeKnown, Relay!NoCall
<1> QED
  BY <1>2, <1>4, <1>5 DEF RelayInv

\* Steps that take no slot: time passes, or something happens to a call or the node.
LEMMA SlotsKept ==
  ASSUME RelayInv, UNCHANGED <<windowStart, windowCount, accepted>>,
         relayNow' \in {relayNow, relayNow + 1}
  PROVE  SlotsInOrder' /\ SlotsCounted' /\ Capped'
<1>1. \A from, to : Taken(from, to)' = Taken(from, to) /\ TakenSince(from)' = TakenSince(from)
  BY DEF Taken, TakenSince
<1>2. SlotsInOrder'
  BY RelayConstants DEF RelayInv, RelayTypes, SlotsInOrder
<1>3. SlotsCounted' /\ Capped'
  <2>1. Taken(windowStart - Window, windowStart)' = Taken(windowStart - Window, windowStart)
    BY DEF Taken
  <2>2. Taken(windowStart - 2 * Window, windowStart)'
          = Taken(windowStart - 2 * Window, windowStart)
    BY DEF Taken
  <2>3. TakenSince(windowStart)' = TakenSince(windowStart)
    BY DEF TakenSince
  <2>4. \A from \in Int : /\ Taken(from, from + Window)' = Taken(from, from + Window)
                          /\ Taken(from, from + 2 * Window)' = Taken(from, from + 2 * Window)
    BY DEF Taken
  <2> QED
    BY <2>1, <2>2, <2>3, <2>4 DEF RelayInv, SlotsCounted, Capped
<1> QED
  BY <1>2, <1>3

\* What a call's record becomes.
LEMMA CallEdited ==
  ASSUME NEW q \in [pc : RelayPCs, since : BOOLEAN, answer : BOOLEAN], NEW p \in RelayPCs,
         NEW a \in BOOLEAN
  PROVE  /\ [q EXCEPT !.pc = p] \in [pc : RelayPCs, since : BOOLEAN, answer : BOOLEAN]
         /\ [q EXCEPT !.pc = p].pc = p
         /\ [q EXCEPT !.pc = p].since = q.since
         /\ [q EXCEPT !.pc = p, !.answer = a]
              \in [pc : RelayPCs, since : BOOLEAN, answer : BOOLEAN]
         /\ [q EXCEPT !.pc = p, !.answer = a].since = q.since
         /\ [q EXCEPT !.pc = p, !.answer = a].answer = a
         /\ [q EXCEPT !.pc = p, !.answer = a].pc = p
  OBVIOUS

LEMMA CallGoesOn ==
  ASSUME RelayInv,
         \/ Relay!Tick \/ Relay!Record
         \/ \E c \in Callers : Relay!AskUrl(c) \/ Relay!Resolved(c) \/ Relay!Return(c)
  PROVE  RelayInv'
<1>1. /\ UNCHANGED <<windowStart, windowCount, accepted>>
      /\ relayNow' \in {relayNow, relayNow + 1}
  BY DEF Relay!Tick, Relay!Record, Relay!AskUrl, Relay!Resolved, Relay!Return
<1> DEFINE Calls == [Callers -> [pc : RelayPCs, since : BOOLEAN, answer : BOOLEAN]]
<1>2. /\ relayed \in Calls /\ recorded \in BOOLEAN /\ resolvedUrl \in BOOLEAN
      /\ relayNow \in Window..(Window + RelayTime) /\ windowStart \in 0..relayNow
      /\ Window \in Nat /\ RelayTime \in Nat /\ NodeKnown
  BY RelayConstants DEF RelayInv, RelayTypes
<1>3. /\ relayNow' \in Window..(Window + RelayTime) /\ windowStart' \in 0..relayNow'
      /\ relayed' \in Calls /\ recorded' \in BOOLEAN /\ resolvedUrl' \in BOOLEAN
      /\ NodeKnown'
  <2>1. CASE Relay!Tick
    <3>1. /\ relayNow < Window + RelayTime /\ relayNow' = relayNow + 1
          /\ UNCHANGED <<recorded, windowStart, resolvedUrl, relayed>>
      BY <2>1 DEF Relay!Tick
    <3>2. NodeKnown'
      BY <1>2, <3>1 DEF NodeKnown
    <3>3. relayNow' \in Window..(Window + RelayTime) /\ windowStart' \in 0..relayNow'
      BY <1>2, <3>1
    <3> QED
      BY <1>2, <3>1, <3>2, <3>3
  <2>2. CASE Relay!Record
    BY <1>2, <2>2 DEF Relay!Record, NodeKnown
  <2>3. ASSUME NEW c \in Callers, Relay!AskUrl(c) \/ Relay!Resolved(c) \/ Relay!Return(c)
        PROVE  /\ UNCHANGED <<relayNow, recorded, windowStart>>
               /\ relayed' \in Calls /\ resolvedUrl' \in BOOLEAN /\ NodeKnown'
    <3>1. CASE Relay!AskUrl(c)
      <4>1. /\ UNCHANGED <<relayNow, recorded, windowStart, resolvedUrl>>
            /\ relayed' = [relayed EXCEPT ![c].pc = "resolved", ![c].answer = recorded]
        BY <3>1 DEF Relay!AskUrl
      <4> DEFINE r == [relayed[c] EXCEPT !.pc = "resolved", !.answer = recorded]
      <4>2. relayed' = [relayed EXCEPT ![c] = r]
        BY <4>1, Zenon
      <4>3. /\ r \in [pc : RelayPCs, since : BOOLEAN, answer : BOOLEAN]
            /\ r.since = relayed[c].since /\ r.answer = recorded /\ r.pc = "resolved"
        <5>1. /\ relayed[c] \in [pc : RelayPCs, since : BOOLEAN, answer : BOOLEAN]
              /\ "resolved" \in RelayPCs /\ recorded \in BOOLEAN
          BY <1>2 DEF RelayPCs
        <5> QED
          BY <5>1, CallEdited
      <4> HIDE DEF r
      <4>4. relayed' \in Calls
        BY <1>2, <4>2, <4>3
      <4>5. NodeKnown'
        BY <1>2, <4>1, <4>2, <4>3 DEF NodeKnown
      <4> QED
        BY <1>2, <4>1, <4>4, <4>5
    <3>2. CASE Relay!Resolved(c)
      <4>1. /\ UNCHANGED <<relayNow, recorded, windowStart>>
            /\ relayed[c].pc = "resolved" /\ resolvedUrl' = relayed[c].answer
            /\ relayed' = [relayed EXCEPT
                 ![c].pc = IF relayed[c].answer THEN "sent" ELSE "no node"]
        BY <3>2 DEF Relay!Resolved
      <4> DEFINE p == IF relayed[c].answer THEN "sent" ELSE "no node"
                 r == [relayed[c] EXCEPT !.pc = p]
      <4>2. relayed' = [relayed EXCEPT ![c] = r]
        BY <4>1, Zenon
      <4>3. p \in RelayPCs /\ p # "resolved" /\ (p = "no node" => ~relayed[c].answer)
        BY DEF RelayPCs
      <4> HIDE DEF p
      <4>4. /\ r \in [pc : RelayPCs, since : BOOLEAN, answer : BOOLEAN]
            /\ r.since = relayed[c].since /\ r.pc = p
        BY <1>2, <4>3, CallEdited
      <4> HIDE DEF r
      <4>5. relayed' \in Calls /\ resolvedUrl' \in BOOLEAN
        BY <1>2, <4>1, <4>2, <4>4
      <4>6. NodeKnown'
        BY <1>2, <4>1, <4>2, <4>3, <4>4 DEF NodeKnown
      <4> QED
        BY <4>1, <4>5, <4>6
    <3>3. CASE Relay!Return(c)
      <4>1. /\ UNCHANGED <<relayNow, recorded, windowStart, resolvedUrl>>
            /\ relayed' = [relayed EXCEPT ![c] = Relay!NoCall]
        BY <3>3 DEF Relay!Return
      <4>2. relayed' \in Calls
        BY <1>2, <4>1 DEF RelayPCs, Relay!NoCall
      <4>3. NodeKnown'
        BY <1>2, <4>1 DEF NodeKnown, Relay!NoCall
      <4> QED
        BY <1>2, <4>1, <4>2, <4>3
    <3> QED
      BY <2>3, <3>1, <3>2, <3>3
  <2> QED
    BY <1>2, <2>1, <2>2, <2>3
<1>4. RelayTypes'
  BY <1>1, <1>3 DEF RelayInv, RelayTypes
<1> QED
  BY <1>1, <1>3, <1>4, SlotsKept DEF RelayInv

\* A slot is taken, in the window under way or as the first of a new one.
LEMMA SlotTaken ==
  ASSUME RelayInv, UNCHANGED relayNow,
         accepted' = accepted \union {[at |-> relayNow, nth |-> Cardinality(accepted)]},
         \/ /\ Relay!WindowOver /\ windowStart' = relayNow /\ windowCount' = 1
         \/ /\ ~Relay!WindowOver /\ windowStart' = windowStart /\ windowCount < Limit
            /\ windowCount' = windowCount + 1
  PROVE  SlotsInOrder' /\ SlotsCounted' /\ Capped'
<1> DEFINE x == [at |-> relayNow, nth |-> Cardinality(accepted)]
           n == Cardinality(accepted)
<1>1. /\ Limit \in Nat \ {0} /\ Window \in Nat \ {0} /\ relayNow \in Nat /\ windowStart \in Nat
      /\ windowStart <= relayNow /\ windowCount \in 0..Limit /\ n \in Nat
  BY RelayConstants, FS_CardinalityType DEF RelayInv, RelayTypes
<1>2. /\ \A s \in accepted : /\ s.at \in Nat /\ s.nth < n /\ s.at <= relayNow
                             /\ s.at < windowStart + Window
      /\ x \notin accepted /\ x.at = relayNow /\ x.nth = n
  BY <1>1 DEF RelayInv, RelayTypes, SlotsInOrder
<1> HIDE DEF x
<1>3. accepted' = accepted \union {x} /\ x \in accepted'
  BY DEF x
<1>4. Cardinality(accepted') = n + 1
  BY <1>2, <1>3, FS_AddElement DEF RelayInv, RelayTypes
<1> HIDE DEF n
<1>5. \A s \in accepted' : s.at \in Nat /\ s.at <= relayNow
  BY <1>1, <1>2, <1>3
<1>6. windowStart' \in Nat /\ relayNow < windowStart' + Window /\ windowStart' <= relayNow
  BY <1>1 DEF Relay!WindowOver
<1>7. SlotsInOrder'
  <2> SUFFICES ASSUME NEW s \in accepted'
               PROVE  s.nth < n + 1 /\ s.at <= relayNow /\ s.at < windowStart' + Window
    BY <1>4 DEF SlotsInOrder
  <2>1. s.at <= relayNow /\ s.at \in Nat
    BY <1>5
  <2>2. s.nth < n + 1
    BY <1>1, <1>2, <1>3 DEF RelayInv, RelayTypes
  <2>3. s.at < windowStart' + Window
    <3>1. \A t, u, v \in Nat : t <= u /\ u < v + Window => t < v + Window
      BY <1>1
    <3> QED
      BY <1>1, <1>6, <2>1, <3>1
  <2> QED
    BY <2>1, <2>2, <2>3
<1>8. IsFiniteSet(accepted')
  BY <1>3, FS_AddElement DEF RelayInv, RelayTypes
<1> DEFINE now == TakenSince(windowStart)'
           one == Taken(windowStart - Window, windowStart)'
           two == Taken(windowStart - 2 * Window, windowStart)'
<1>9. IsFiniteSet(now) /\ Cardinality(now) = windowCount' /\ windowCount' \in 1..Limit
  <2>1. CASE Relay!WindowOver
    <3>1. windowStart' = relayNow /\ windowCount' = 1
      BY <2>1
    <3>2. \A s \in accepted : ~(relayNow <= s.at)
      BY <1>1, <1>2, <2>1 DEF Relay!WindowOver
    <3>3. now = {x}
      BY <1>1, <1>2, <1>3, <3>1, <3>2 DEF TakenSince
    <3> QED
      BY <1>1, <3>1, <3>3, FS_Singleton
  <2>2. CASE ~Relay!WindowOver
    <3>1. windowStart' = windowStart /\ windowCount' = windowCount + 1 /\ windowCount < Limit
      BY <2>2
    <3>2. now = TakenSince(windowStart) \union {x}
      BY <1>1, <1>2, <1>3, <3>1 DEF TakenSince
    <3>3. x \notin TakenSince(windowStart)
      BY <1>2 DEF TakenSince
    <3>4. /\ IsFiniteSet(TakenSince(windowStart))
          /\ Cardinality(TakenSince(windowStart)) = windowCount
      BY TakenFinite DEF RelayInv, SlotsCounted
    <3> QED
      BY <1>1, <3>1, <3>2, <3>3, <3>4, FS_AddElement
  <2> QED
    BY <2>1, <2>2
<1>10. IsFiniteSet(one) /\ Cardinality(one) <= Limit
  <2>1. CASE Relay!WindowOver
    <3>1. one \subseteq TakenSince(windowStart)
      BY <1>1, <1>2, <1>3, <2>1 DEF Taken, TakenSince, Relay!WindowOver
    <3>2. /\ IsFiniteSet(TakenSince(windowStart))
          /\ Cardinality(TakenSince(windowStart)) <= Limit
      BY <1>1, TakenFinite DEF RelayInv, SlotsCounted
    <3> QED
      BY <1>1, <3>1, <3>2, NoMoreThan
  <2>2. CASE ~Relay!WindowOver
    <3>1. one = Taken(windowStart - Window, windowStart)
      BY <1>1, <1>2, <1>3, <2>2 DEF Taken
    <3> QED
      BY <3>1, TakenFinite DEF RelayInv, SlotsCounted
  <2> QED
    BY <2>1, <2>2
<1>11. IsFiniteSet(two) /\ Cardinality(two) <= 2 * Limit
  <2>1. CASE Relay!WindowOver
    <3>1. two \subseteq TakenSince(windowStart) \union Taken(windowStart - Window, windowStart)
      BY <1>1, <1>2, <1>3, <2>1 DEF Taken, TakenSince, Relay!WindowOver
    <3>2. /\ IsFiniteSet(TakenSince(windowStart))
          /\ IsFiniteSet(Taken(windowStart - Window, windowStart))
          /\ Cardinality(TakenSince(windowStart)) <= Limit
          /\ Cardinality(Taken(windowStart - Window, windowStart)) <= Limit
      BY <1>1, TakenFinite DEF RelayInv, SlotsCounted
    <3>3. IsFiniteSet(two) /\ Cardinality(two) <= Limit + Limit
      BY <1>1, <3>1, <3>2, AtMostBoth
    <3> QED
      BY <1>1, <3>3
  <2>2. CASE ~Relay!WindowOver
    <3>1. two = Taken(windowStart - 2 * Window, windowStart)
      BY <1>1, <1>2, <1>3, <2>2 DEF Taken
    <3> QED
      BY <3>1, TakenFinite DEF RelayInv, SlotsCounted
  <2> QED
    BY <2>1, <2>2
<1>12. SlotsCounted'
  BY <1>9, <1>10, <1>11 DEF SlotsCounted
\* An interval with the new slot begins less than its length ago.
<1>13. ASSUME NEW from \in Int
       PROVE  /\ Cardinality(Taken(from, from + Window)') <= 2 * Limit
              /\ Cardinality(Taken(from, from + 2 * Window)') <= 3 * Limit
  <2>1. Cardinality(Taken(from, from + Window)') <= 2 * Limit
    <3>1. CASE x \in Taken(from, from + Window)'
      <4>1. from + Window > relayNow
        BY <1>1, <1>2, <3>1 DEF Taken
      <4>2. Taken(from, from + Window)' \subseteq now \union one
        <5> SUFFICES ASSUME NEW s \in Taken(from, from + Window)', s \notin now
                     PROVE  s \in one
          OBVIOUS
        <5>1. s \in accepted' /\ from <= s.at /\ s.at \in Nat
          BY <1>5 DEF Taken
        <5>2. ~(windowStart' <= s.at)
          BY <5>1 DEF TakenSince
        <5>3. windowStart' - Window <= s.at /\ s.at < windowStart'
          BY <1>1, <1>6, <4>1, <5>1, <5>2
        <5>4. Window' = Window
          OBVIOUS
        <5> QED
          BY <5>1, <5>3, <5>4 DEF Taken
      <4>3. Cardinality(now) <= Limit /\ Limit \in Nat
        BY <1>1, <1>9
      <4> HIDE DEF now, one
      <4>4. Cardinality(Taken(from, from + Window)') <= Limit + Limit
        BY <1>9, <1>10, <4>2, <4>3, AtMostBoth
      <4> QED
        BY <1>1, <4>4
    <3>2. CASE x \notin Taken(from, from + Window)'
      <4>1. Taken(from, from + Window)' = Taken(from, from + Window)
        BY <1>3, <3>2 DEF Taken
      <4> QED
        BY <4>1 DEF RelayInv, Capped
    <3> QED
      BY <3>1, <3>2
  <2>2. Cardinality(Taken(from, from + 2 * Window)') <= 3 * Limit
    <3>1. CASE x \in Taken(from, from + 2 * Window)'
      <4>1. from + 2 * Window > relayNow
        BY <1>1, <1>2, <3>1 DEF Taken
      <4>2. Taken(from, from + 2 * Window)' \subseteq now \union two
        BY <1>1, <1>5, <1>6, <4>1 DEF Taken, TakenSince
      <4>3. 2 * Limit \in Nat /\ Cardinality(now) <= Limit
        BY <1>1, <1>9
      <4>4. Cardinality(Taken(from, from + 2 * Window)') <= Limit + 2 * Limit
        BY <1>1, <1>9, <1>11, <4>2, <4>3, AtMostBoth
      <4> QED
        BY <1>1, <4>4
    <3>2. CASE x \notin Taken(from, from + 2 * Window)'
      <4>1. Taken(from, from + 2 * Window)' = Taken(from, from + 2 * Window)
        BY <1>3, <3>2 DEF Taken
      <4> QED
        BY <4>1 DEF RelayInv, Capped
    <3> QED
      BY <3>1, <3>2
  <2> QED
    BY <2>1, <2>2
<1>14. Capped'
  BY <1>13 DEF Capped
<1> QED
  BY <1>7, <1>12, <1>14

LEMMA ForwardHolds ==
  ASSUME RelayInv, NEW c \in Callers, Relay!Forward(c)
  PROVE  RelayInv'
<1> DEFINE count == IF Relay!WindowOver THEN 0 ELSE windowCount
           full == count >= Limit
<1>1. /\ windowStart' = IF Relay!WindowOver THEN relayNow ELSE windowStart
      /\ windowCount' = IF full THEN count ELSE count + 1
      /\ accepted' = IF full THEN accepted
           ELSE accepted \union {[at |-> relayNow, nth |-> Cardinality(accepted)]}
      /\ relayed' = [relayed EXCEPT ![c] =
           [pc |-> IF full THEN "limited" ELSE IF resolvedUrl THEN "sent" ELSE "resolving",
            since |-> recorded, answer |-> FALSE]]
      /\ UNCHANGED <<relayNow, recorded, resolvedUrl>>
  BY RelayCardinality DEF Relay!Forward
<1>2. /\ Limit \in Nat \ {0} /\ Window \in Nat \ {0} /\ relayNow \in Nat /\ windowStart \in Nat
      /\ windowStart <= relayNow /\ windowCount \in 0..Limit /\ windowCount \in Nat
      /\ recorded \in BOOLEAN /\ resolvedUrl \in BOOLEAN
      /\ relayed \in [Callers -> [pc : RelayPCs, since : BOOLEAN, answer : BOOLEAN]]
      /\ accepted \subseteq [at : Nat, nth : Nat] /\ IsFiniteSet(accepted)
  BY RelayConstants DEF RelayInv, RelayTypes
<1>3. relayed' \in [Callers -> [pc : RelayPCs, since : BOOLEAN, answer : BOOLEAN]]
  BY <1>1, <1>2 DEF RelayPCs
<1>4. NodeKnown'
  BY <1>1, <1>2 DEF RelayInv, NodeKnown
<1>5. CASE full
  <2>1. /\ UNCHANGED <<windowStart, windowCount, accepted>> /\ relayNow' = relayNow
    BY <1>1, <1>2, <1>5
  <2>2. RelayTypes'
    BY <1>1, <1>3, <2>1 DEF RelayInv, RelayTypes
  <2> QED
    BY <1>4, <2>1, <2>2, SlotsKept DEF RelayInv
<1>6. CASE ~full
  <2>1. accepted' = accepted \union {[at |-> relayNow, nth |-> Cardinality(accepted)]}
    BY <1>1, <1>6
  <2>2. \/ /\ Relay!WindowOver /\ windowStart' = relayNow /\ windowCount' = 1
        \/ /\ ~Relay!WindowOver /\ windowStart' = windowStart /\ windowCount < Limit
           /\ windowCount' = windowCount + 1
    BY <1>1, <1>2, <1>6
  <2>3. /\ Cardinality(accepted) \in Nat /\ IsFiniteSet(accepted')
    BY <1>2, <2>1, FS_CardinalityType, FS_AddElement
  <2>4. /\ accepted' \subseteq [at : Nat, nth : Nat]
        /\ windowStart' \in 0..relayNow /\ windowCount' \in 0..Limit
    BY <1>2, <2>1, <2>2, <2>3
  <2>5. RelayTypes'
    BY <1>1, <1>3, <2>3, <2>4 DEF RelayInv, RelayTypes
  <2>6. SlotsInOrder' /\ SlotsCounted' /\ Capped'
    BY <1>1, <2>1, <2>2, SlotTaken
  <2> QED
    BY <1>4, <2>5, <2>6 DEF RelayInv
<1> QED
  BY <1>5, <1>6

LEMMA RelayStepHolds ==
  ASSUME RelayInv, [Relay!Next]_relayVars
  PROVE  RelayInv'
<1>1. ASSUME UNCHANGED relayVars PROVE RelayInv'
  <2>1. UNCHANGED <<relayNow, recorded, windowStart, windowCount, resolvedUrl, relayed, accepted>>
    BY <1>1 DEF relayVars
  <2>2. SlotsInOrder' /\ SlotsCounted' /\ Capped'
    BY <2>1, SlotsKept
  <2> QED
    BY <2>1, <2>2 DEF RelayInv, RelayTypes, NodeKnown
<1> QED
  BY <1>1, ForwardHolds, CallGoesOn DEF Relay!Next


-----------------------------------------------------------------------------
(* Lists.  What is cached or loaded is as new as the last notification,    *)
(* unless the load is marked stale, and then as new as who waits for it    *)
(* asked for; its age is bounded by how long it has been loading or held.  *)

ListTypes ==
  /\ data \in 0..MaxVersion /\ notified \in 0..data
  /\ notices \in SUBSET (notified..data)
  /\ entries \in [Lists!Variants -> Lists!Cached \union {None}]
  /\ inflight \in [Lists!Variants -> Lists!Ids \union {None}]
  /\ loads \in [Lists!Ids -> Lists!Running \union {None}]
  /\ queries \in 0..1

\* How old a list can be when its load begins, and when it is cached.
BornAt(v) == IF v = "plain" THEN 0 ELSE MaxLoad + TTL - 1

Registered(v) ==
  inflight[v] # None => loads[inflight[v]] # None /\ loads[inflight[v]].variant = v

EntryGood(v) ==
  entries[v] # None =>
    /\ notified <= entries[v].version
    /\ entries[v].held < TTL => entries[v].age <= BornAt(v) + MaxLoad + entries[v].held

LoadGood(l) ==
  /\ l.since <= notified /\ l.held <= MaxLoad
  /\ l.version # None =>
       /\ l.since <= l.version /\ l.age <= BornAt(l.variant) + l.held
       /\ ~l.stale => notified <= l.version
  /\ l.from # None => l.version = None /\ l.variant = "packed"

\* A load waits for a plain one, which is stale only if it is.
WaitGood(l, p) ==
  /\ p # None /\ p.variant = "plain" /\ (p.stale => l.stale)
  /\ p.version # None => l.since <= p.version

LoadsGood ==
  \A i \in Lists!Ids : loads[i] # None =>
    /\ LoadGood(loads[i])
    /\ ~loads[i].stale => inflight[loads[i].variant] = i
    /\ loads[i].from # None => WaitGood(loads[i], loads[loads[i].from])

AnswerGood ==
  answer # None => answer.since <= answer.version /\ answer.age <= Lists!MaxAge

QueryKnown == queries > 0 => entries["plain"] # None \/ Lists!Joinable("plain")

ListInv ==
  /\ ListTypes /\ LoadsGood /\ AnswerGood /\ QueryKnown
  /\ \A v \in Lists!Variants : Registered(v) /\ EntryGood(v)

LEMMA ListConstants ==
  /\ TTL \in Nat /\ TTL >= 1 /\ MaxLoad \in Nat /\ MaxVersion \in Nat /\ MaxFailures \in Nat
  /\ None \notin Nat /\ None \notin Lists!Cached /\ None \notin Lists!Running
  /\ None \notin Lists!Ids
  /\ Lists!MaxAge \in Nat /\ Lists!MaxAge = 2 * MaxLoad + 2 * TTL - 2
  /\ \A v \in Lists!Variants : BornAt(v) \in Nat
  /\ BornAt("plain") = 0 /\ BornAt("packed") = MaxLoad + TTL - 1
<1>1. /\ TTL \in Nat /\ TTL >= 1 /\ MaxLoad \in Nat /\ MaxVersion \in Nat /\ MaxFailures \in Nat
      /\ None \notin Nat /\ None \notin Lists!Cached /\ None \notin Lists!Running
  BY ListBounds DEF Lists!ListAssumption
<1>2. None \notin Lists!Ids
  BY <1>1 DEF Lists!Ids
<1>3. Lists!MaxAge \in Nat /\ Lists!MaxAge = 2 * MaxLoad + 2 * TTL - 2
  BY <1>1 DEF Lists!MaxAge
<1>4. BornAt("plain") = 0 /\ BornAt("packed") = MaxLoad + TTL - 1
  BY DEF BornAt
<1>5. \A v \in Lists!Variants : BornAt(v) \in Nat
  BY <1>1, <1>4 DEF Lists!Variants
<1> QED
  BY <1>1, <1>2, <1>3, <1>4, <1>5

\* The least of some numbers.
LEMMA LeastIs ==
  ASSUME NEW S \in SUBSET Nat, S # {}
  PROVE  Lists!Min(S) \in S /\ \A y \in S : Lists!Min(S) <= y
<1>1. PICK m \in S : \A k \in S : <<k, m>> \notin OpToRel(<, Nat)
  BY WFMin, NatLessThanWellFounded, Zenon
<1>2. \A k, l \in Nat : k < l => <<k, l>> \in OpToRel(<, Nat)
  BY Zenon DEF OpToRel
<1>3. ASSUME NEW k \in S PROVE m <= k
  <2>1. k \in Nat /\ m \in Nat /\ ~(k < m)
    BY <1>1, <1>2
  <2> QED
    BY <2>1, SMT
<1>4. \E x \in S : \A y \in S : x <= y
  BY <1>3
<1> QED
  BY <1>4 DEF Lists!Min

LEMMA LesserIs ==
  ASSUME NEW a \in Nat, NEW b \in Nat
  PROVE  /\ Lists!Min({a, b}) \in Nat /\ Lists!Min({a, b}) <= a /\ Lists!Min({a, b}) <= b
         /\ Lists!Min({a, b}) = a \/ Lists!Min({a, b}) = b
  BY LeastIs

\* How the steps edit a load.
LEMMA OlderLoadIs ==
  ASSUME NEW l \in Lists!Running, l.held < MaxLoad
  PROVE  LET n == Lists!Older(l)
         IN  /\ n \in Lists!Running /\ n.held = l.held + 1 /\ n.age <= l.age + 1
             /\ n.variant = l.variant /\ n.version = l.version /\ n.stale = l.stale
             /\ n.from = l.from /\ n.since = l.since
<1> DEFINE a == Lists!Min({l.age + 1, Lists!MaxAge + 1})
           h == Lists!Min({l.held + 1, TTL + MaxLoad})
<1>1. l.age \in Nat /\ l.held \in Nat /\ l # None
  BY ListConstants DEF Lists!Running
<1>2. a \in Nat /\ a <= l.age + 1
  BY <1>1, LesserIs, ListConstants
<1>3. h \in Nat /\ h = l.held + 1
  BY <1>1, LesserIs, ListConstants
<1>4. Lists!Older(l) = [l EXCEPT !.age = a, !.held = h]
  BY <1>1 DEF Lists!Older
<1> HIDE DEF a, h
<1> QED
  BY <1>1, <1>2, <1>3, <1>4 DEF Lists!Running

LEMMA OlderEntryIs ==
  ASSUME NEW e \in Lists!Cached
  PROVE  LET n == Lists!Older(e)
         IN  /\ n \in Lists!Cached /\ n.version = e.version /\ n.age <= e.age + 1
             /\ n.held < TTL => n.held = e.held + 1
<1> DEFINE a == Lists!Min({e.age + 1, Lists!MaxAge + 1})
           h == Lists!Min({e.held + 1, TTL + MaxLoad})
<1>1. e.age \in Nat /\ e.held \in Nat /\ e # None
  BY ListConstants DEF Lists!Cached
<1>2. a \in Nat /\ a <= e.age + 1
  BY <1>1, LesserIs, ListConstants
<1>3. h \in Nat /\ (h < TTL => h = e.held + 1)
  BY <1>1, LesserIs, ListConstants
<1>4. Lists!Older(e) = [e EXCEPT !.age = a, !.held = h]
  BY <1>1 DEF Lists!Older
<1> HIDE DEF a, h
<1> QED
  BY <1>1, <1>2, <1>3, <1>4 DEF Lists!Cached

LEMMA StaleIs ==
  ASSUME NEW l \in Lists!Running
  PROVE  LET n == [l EXCEPT !.stale = TRUE]
         IN  /\ n \in Lists!Running /\ n.stale
             /\ n.held = l.held /\ n.age = l.age /\ n.variant = l.variant
             /\ n.version = l.version /\ n.from = l.from /\ n.since = l.since
  BY DEF Lists!Running

LEMMA AskedIs ==
  ASSUME NEW l \in Lists!Running, NEW s \in Nat
  PROVE  LET n == [l EXCEPT !.since = s]
         IN  /\ n \in Lists!Running /\ n.since = s
             /\ n.held = l.held /\ n.age = l.age /\ n.variant = l.variant
             /\ n.version = l.version /\ n.from = l.from /\ n.stale = l.stale
  BY DEF Lists!Running

LEMMA ReadIs ==
  ASSUME NEW l \in Lists!Running, NEW d \in Nat
  PROVE  LET n == [l EXCEPT !.version = d, !.age = 0]
         IN  /\ n \in Lists!Running /\ n.version = d /\ n.age = 0
             /\ n.held = l.held /\ n.variant = l.variant
             /\ n.from = l.from /\ n.stale = l.stale /\ n.since = l.since
  BY DEF Lists!Running

LEMMA LoadIs ==
  ASSUME ListTypes, NEW v \in Lists!Variants
  PROVE  LET n == Lists!Load(v)
         IN  /\ n \in Lists!Running /\ n.variant = v /\ n.version = None /\ n.age = 0
             /\ n.held = 0 /\ ~n.stale /\ n.from = None /\ n.since = notified
<1>1. notified \in Nat
  BY DEF ListTypes
<1> QED
  BY <1>1 DEF Lists!Load, Lists!Running

LEMMA PackedFromEntryIs ==
  ASSUME ListTypes, NEW d \in Nat, NEW a \in Nat
  PROVE  LET n == [Lists!Load("packed") EXCEPT !.version = d, !.age = a]
         IN  /\ n \in Lists!Running /\ n.variant = "packed" /\ n.version = d /\ n.age = a
             /\ n.held = 0 /\ ~n.stale /\ n.from = None /\ n.since = notified
<1> DEFINE l == Lists!Load("packed")
<1>1. /\ l \in Lists!Running /\ l.variant = "packed" /\ l.version = None /\ l.age = 0
      /\ l.held = 0 /\ ~l.stale /\ l.from = None /\ l.since = notified
  BY LoadIs DEF Lists!Variants
<1> HIDE DEF l
<1>2. LET n == [l EXCEPT !.version = d, !.age = a]
      IN  /\ n \in Lists!Running /\ n.variant = l.variant /\ n.version = d /\ n.age = a
          /\ n.held = l.held /\ n.stale = l.stale /\ n.from = l.from /\ n.since = l.since
  BY <1>1 DEF Lists!Running
<1> QED
  BY <1>1, <1>2 DEF l

LEMMA PackedFromLoadIs ==
  ASSUME ListTypes, NEW p \in Lists!Ids
  PROVE  LET n == [Lists!Load("packed") EXCEPT !.from = p]
         IN  /\ n \in Lists!Running /\ n.variant = "packed" /\ n.version = None /\ n.age = 0
             /\ n.held = 0 /\ ~n.stale /\ n.from = p /\ n.since = notified
<1> DEFINE l == Lists!Load("packed")
<1>1. /\ l \in Lists!Running /\ l.variant = "packed" /\ l.version = None /\ l.age = 0
      /\ l.held = 0 /\ ~l.stale /\ l.from = None /\ l.since = notified
  BY LoadIs DEF Lists!Variants
<1> HIDE DEF l
<1>2. LET n == [l EXCEPT !.from = p]
      IN  /\ n \in Lists!Running /\ n.variant = l.variant /\ n.version = l.version
          /\ n.age = l.age /\ n.held = l.held /\ n.stale = l.stale /\ n.from = p
          /\ n.since = l.since
  BY <1>1 DEF Lists!Running
<1> QED
  BY <1>1, <1>2 DEF l

LEMMA ListInvImplies ==
  ASSUME ListInv
  PROVE  /\ Lists!TypeOK /\ Lists!ListFresh /\ Lists!AgeBounded /\ Lists!OneQuery
<1>1. Lists!TypeOK
  <2>1. /\ data \in 0..MaxVersion /\ notified \in 0..MaxVersion
        /\ notices \subseteq 0..MaxVersion /\ queries \in 0..2
    BY ListConstants DEF ListInv, ListTypes
  <2>2. \A v \in Lists!Variants : inflight[v] # None =>
          loads[inflight[v]] # None /\ loads[inflight[v]].variant = v
    BY DEF ListInv, Registered
  <2>3. \A i \in Lists!Ids : loads[i] # None /\ loads[i].from # None =>
          /\ loads[i].variant = "packed" /\ loads[loads[i].from] # None
          /\ loads[loads[i].from].variant = "plain"
    BY DEF ListInv, LoadsGood, LoadGood, WaitGood
  <2> QED
    BY <2>1, <2>2, <2>3 DEF Lists!TypeOK
<1>2. Lists!ListFresh /\ Lists!AgeBounded
  BY DEF ListInv, AnswerGood, Lists!ListFresh, Lists!AgeBounded
<1>3. Lists!OneQuery
  BY DEF ListInv, ListTypes, Lists!OneQuery
<1> QED
  BY <1>1, <1>2, <1>3

LEMMA ListStarts ==
  ASSUME Lists!Init
  PROVE  ListInv
<1>1. /\ data = 0 /\ notices = {} /\ notified = 0 /\ queries = 0 /\ answer = None
      /\ entries = [v \in Lists!Variants |-> None]
      /\ inflight = [v \in Lists!Variants |-> None]
      /\ loads = [i \in Lists!Ids |-> None]
  BY DEF Lists!Init
<1>2. ListTypes
  BY <1>1, ListConstants DEF ListTypes
<1> QED
  BY <1>1, <1>2 DEF ListInv, LoadsGood, AnswerGood, QueryKnown, Registered, EntryGood

LEMMA ListFacts ==
  ASSUME ListInv
  PROVE  /\ data \in Nat /\ data <= MaxVersion /\ notified \in Nat /\ notified <= data
         /\ \A n \in notices : n \in Nat /\ notified <= n /\ n <= data
         /\ \A v \in Lists!Variants :
              /\ entries[v] # None => entries[v] \in Lists!Cached
              /\ inflight[v] # None => inflight[v] \in Lists!Ids
         /\ \A i \in Lists!Ids : loads[i] # None =>
              /\ loads[i] \in Lists!Running
              /\ loads[i].variant \in Lists!Variants /\ loads[i].since \in Nat
              /\ loads[i].version # None => loads[i].version \in Nat
              /\ loads[i].age \in Nat /\ loads[i].held \in Nat /\ loads[i].stale \in BOOLEAN
              /\ loads[i].from # None => loads[i].from \in Lists!Ids /\ loads[i].from # i
         /\ \A v \in Lists!Variants : entries[v] # None =>
              entries[v].version \in Nat /\ entries[v].age \in Nat /\ entries[v].held \in Nat
<1>1. ListTypes /\ LoadsGood
  BY DEF ListInv
<1>2. /\ data \in Nat /\ data <= MaxVersion /\ notified \in Nat /\ notified <= data
      /\ \A n \in notices : n \in Nat /\ notified <= n /\ n <= data
  BY <1>1, ListConstants DEF ListTypes
<1>3. \A v \in Lists!Variants :
        /\ entries[v] # None => entries[v] \in Lists!Cached
        /\ inflight[v] # None => inflight[v] \in Lists!Ids
  BY <1>1 DEF ListTypes
<1>4. \A i \in Lists!Ids : loads[i] # None => loads[i] \in Lists!Running
  BY <1>1 DEF ListTypes
<1>5. \A i \in Lists!Ids : loads[i] # None =>
        /\ loads[i].variant \in Lists!Variants /\ loads[i].since \in Nat
        /\ loads[i].version # None => loads[i].version \in Nat
        /\ loads[i].age \in Nat /\ loads[i].held \in Nat /\ loads[i].stale \in BOOLEAN
        /\ loads[i].from # None => loads[i].from \in Lists!Ids
  BY <1>4 DEF Lists!Running
<1>6. \A i \in Lists!Ids : loads[i] # None /\ loads[i].from # None => loads[i].from # i
  BY <1>1 DEF LoadsGood, LoadGood, WaitGood
<1>7. \A v \in Lists!Variants : entries[v] # None =>
        entries[v].version \in Nat /\ entries[v].age \in Nat /\ entries[v].held \in Nat
  BY <1>3 DEF Lists!Cached
<1> QED
  BY <1>2, <1>3, <1>4, <1>5, <1>6, <1>7

LEMMA TickHolds ==
  ASSUME ListInv, Lists!Tick
  PROVE  ListInv'
<1> HIDE DEF Lists!Running, Lists!Cached, Lists!Ids
<1>1. /\ \A i \in Lists!Ids : loads[i] # None => loads[i].held < MaxLoad
      /\ entries' = [v \in Lists!Variants |-> Lists!Older(entries[v])]
      /\ loads' = [i \in Lists!Ids |-> Lists!Older(loads[i])] /\ answer' = None
      /\ UNCHANGED <<data, notices, notified, inflight, queries>>
  BY DEF Lists!Tick
<1>2. Lists!Older(None) = None
  BY DEF Lists!Older
<1>3. \A i \in Lists!Ids :
        /\ loads[i] = None => loads'[i] = None
        /\ loads[i] # None =>
             /\ loads'[i] \in Lists!Running /\ loads'[i] # None
             /\ loads'[i].held = loads[i].held + 1 /\ loads'[i].age <= loads[i].age + 1
             /\ loads'[i].variant = loads[i].variant /\ loads'[i].version = loads[i].version
             /\ loads'[i].stale = loads[i].stale
             /\ loads'[i].from = loads[i].from /\ loads'[i].since = loads[i].since
             /\ loads'[i].age \in Nat
  <2> SUFFICES ASSUME NEW i \in Lists!Ids, loads[i] # None
               PROVE  /\ loads'[i] \in Lists!Running /\ loads'[i] # None
                      /\ loads'[i].held = loads[i].held + 1
                      /\ loads'[i].age <= loads[i].age + 1
                      /\ loads'[i].variant = loads[i].variant
                      /\ loads'[i].version = loads[i].version
                      /\ loads'[i].stale = loads[i].stale
                      /\ loads'[i].from = loads[i].from /\ loads'[i].since = loads[i].since
                      /\ loads'[i].age \in Nat
    BY <1>1, <1>2
  <2>1. loads'[i] = Lists!Older(loads[i])
    BY <1>1
  <2>2. loads[i] \in Lists!Running /\ loads[i].held < MaxLoad
    BY <1>1, ListFacts
  <2>3. Lists!Older(loads[i]) \in Lists!Running /\ Lists!Older(loads[i]) # None
    BY <2>2, OlderLoadIs, ListConstants
  <2>4. Lists!Older(loads[i]).age \in Nat
    BY <2>3 DEF Lists!Running
  <2> QED
    BY <2>1, <2>2, <2>3, <2>4, OlderLoadIs
<1>4. \A v \in Lists!Variants :
        /\ entries[v] = None => entries'[v] = None
        /\ entries[v] # None =>
             /\ entries'[v] \in Lists!Cached /\ entries'[v] # None
             /\ entries'[v].version = entries[v].version
             /\ entries'[v].age <= entries[v].age + 1
             /\ entries'[v].held < TTL => entries'[v].held = entries[v].held + 1
             /\ entries'[v].age \in Nat
  <2> SUFFICES ASSUME NEW v \in Lists!Variants, entries[v] # None
               PROVE  /\ entries'[v] \in Lists!Cached /\ entries'[v] # None
                      /\ entries'[v].version = entries[v].version
                      /\ entries'[v].age <= entries[v].age + 1
                      /\ entries'[v].held < TTL => entries'[v].held = entries[v].held + 1
                      /\ entries'[v].age \in Nat
    BY <1>1, <1>2
  <2>1. entries'[v] = Lists!Older(entries[v])
    BY <1>1
  <2>2. entries[v] \in Lists!Cached
    BY ListFacts
  <2>3. Lists!Older(entries[v]) \in Lists!Cached /\ Lists!Older(entries[v]) # None
    BY <2>2, OlderEntryIs, ListConstants
  <2>4. Lists!Older(entries[v]).age \in Nat
    BY <2>3 DEF Lists!Cached
  <2> QED
    BY <2>1, <2>2, <2>3, <2>4, OlderEntryIs
<1>5. ListTypes'
  <2>1. entries' \in [Lists!Variants -> Lists!Cached \union {None}]
    BY <1>1, <1>4
  <2>2. loads' \in [Lists!Ids -> Lists!Running \union {None}]
    BY <1>1, <1>3
  <2> QED
    BY <1>1, <2>1, <2>2 DEF ListInv, ListTypes
<1>6. LoadsGood'
  <2> SUFFICES ASSUME NEW i \in Lists!Ids, loads'[i] # None
               PROVE  /\ LoadGood(loads[i])'
                      /\ ~loads'[i].stale => inflight'[loads'[i].variant] = i
                      /\ loads'[i].from # None => WaitGood(loads[i], loads[loads[i].from])'
    BY DEF LoadsGood
  <2>1. loads[i] # None /\ LoadGood(loads[i])
    BY <1>3 DEF ListInv, LoadsGood
  <2>2. LoadGood(loads[i])'
    <3>1. /\ loads[i].held \in Nat /\ loads[i].held + 1 <= MaxLoad /\ loads[i].age \in Nat
          /\ BornAt(loads[i].variant) \in Nat
      BY <1>1, <2>1, ListFacts, ListConstants
    <3>2. /\ loads'[i].held <= MaxLoad
          /\ loads[i].age <= BornAt(loads[i].variant) + loads[i].held
               => loads'[i].age <= BornAt(loads[i].variant) + loads'[i].held
      BY <1>3, <2>1, <3>1, ListConstants
    <3> QED
      BY <1>1, <1>3, <2>1, <3>2 DEF LoadGood, BornAt
  <2>3. ~loads'[i].stale => inflight'[loads'[i].variant] = i
    BY <1>1, <1>3, <2>1 DEF ListInv, LoadsGood
  <2>4. ASSUME loads'[i].from # None
        PROVE  WaitGood(loads[i], loads[loads[i].from])'
    <3>1. loads'[i].from = loads[i].from /\ loads[i].from \in Lists!Ids
      BY <1>3, <2>1, <2>4, ListFacts
    <3>2. WaitGood(loads[i], loads[loads[i].from])
      BY <2>1, <2>4, <3>1 DEF ListInv, LoadsGood
    <3> QED
      BY <1>3, <2>1, <3>1, <3>2 DEF WaitGood
  <2> QED
    BY <2>2, <2>3, <2>4
<1>7. \A v \in Lists!Variants : Registered(v)' /\ EntryGood(v)'
  <2> SUFFICES ASSUME NEW v \in Lists!Variants PROVE Registered(v)' /\ EntryGood(v)'
    OBVIOUS
  <2>1. Registered(v)'
    BY <1>1, <1>3, ListFacts DEF ListInv, Registered
  <2>2. EntryGood(v)'
    <3> SUFFICES ASSUME entries[v] # None
                 PROVE  /\ notified' <= entries'[v].version
                        /\ entries'[v].held < TTL
                             => entries'[v].age <= BornAt(v)' + MaxLoad + entries'[v].held
      BY <1>4 DEF EntryGood
    <3>1. /\ notified <= entries[v].version
          /\ entries[v].held < TTL => entries[v].age <= BornAt(v) + MaxLoad + entries[v].held
          /\ entries[v].held \in Nat /\ entries[v].age \in Nat /\ BornAt(v) \in Nat
      BY ListFacts, ListConstants DEF ListInv, EntryGood
    <3>2. BornAt(v)' = BornAt(v)
      BY DEF BornAt
    <3> QED
      BY <1>1, <1>4, <3>1, <3>2, ListConstants
  <2> QED
    BY <2>1, <2>2
<1>8. AnswerGood' /\ QueryKnown'
  <2>1. QueryKnown'
    BY <1>1, <1>3, <1>4, ListFacts DEF ListInv, QueryKnown, Lists!Joinable, Lists!Variants,
       Registered
  <2> QED
    BY <1>1, <2>1 DEF AnswerGood
<1> QED
  BY <1>5, <1>6, <1>7, <1>8 DEF ListInv

LEMMA CommitListHolds ==
  ASSUME ListInv, Lists!Commit
  PROVE  ListInv'
<1>1. /\ data < MaxVersion /\ data' = data + 1
      /\ notices' \in {notices, notices \union {data + 1}}
      /\ UNCHANGED <<notified, entries, inflight, loads, queries, answer>>
  BY DEF Lists!Commit
<1>2. ListTypes'
  <2>1. data' \in 0..MaxVersion /\ notified \in 0..data' /\ notices' \in SUBSET (notified..data')
    BY <1>1, ListFacts, ListConstants
  <2> QED
    BY <1>1, <2>1 DEF ListInv, ListTypes
<1> QED
  BY <1>1, <1>2 DEF ListInv, LoadsGood, LoadGood, WaitGood, AnswerGood, QueryKnown, Registered,
     EntryGood, BornAt, Lists!Joinable, Lists!MaxAge

LEMMA ClearHolds ==
  ASSUME ListInv, Lists!Clear
  PROVE  ListInv'
<1> HIDE DEF Lists!Running, Lists!Cached, Lists!Ids
<1> DEFINE n == Lists!Min(notices)
<1>1. /\ notices # {} /\ notified' = n /\ notices' = notices \ {n}
      /\ entries' = [v \in Lists!Variants |-> None]
      /\ loads' = [i \in Lists!Ids |->
           IF i \in Lists!Cleared THEN [loads[i] EXCEPT !.stale = TRUE] ELSE loads[i]]
      /\ queries' = 0 /\ UNCHANGED <<data, inflight, answer>>
  BY DEF Lists!Clear
<1>2. /\ n \in notices /\ \A m \in notices : n <= m
  BY <1>1, ListFacts, LeastIs
<1>3. n \in Nat /\ notified <= n /\ n <= data
  BY <1>2, ListFacts
<1> HIDE DEF n
<1>4. \A i \in Lists!Ids :
        /\ loads[i] = None => loads'[i] = None
        /\ loads[i] # None =>
             /\ loads'[i] \in Lists!Running /\ loads'[i] # None /\ loads'[i].stale
             /\ loads'[i].held = loads[i].held /\ loads'[i].age = loads[i].age
             /\ loads'[i].variant = loads[i].variant /\ loads'[i].version = loads[i].version
             /\ loads'[i].from = loads[i].from /\ loads'[i].since = loads[i].since
  <2> SUFFICES ASSUME NEW i \in Lists!Ids
               PROVE  /\ loads[i] = None => loads'[i] = None
                      /\ loads[i] # None =>
                           /\ loads'[i] \in Lists!Running /\ loads'[i] # None
                           /\ loads'[i].stale
                           /\ loads'[i].held = loads[i].held /\ loads'[i].age = loads[i].age
                           /\ loads'[i].variant = loads[i].variant
                           /\ loads'[i].version = loads[i].version
                           /\ loads'[i].from = loads[i].from
                           /\ loads'[i].since = loads[i].since
    OBVIOUS
  <2>1. CASE loads[i] = None
    <3>1. i \notin Lists!Cleared
      BY <2>1 DEF Lists!Cleared, ListInv, Registered
    <3> QED
      BY <1>1, <2>1, <3>1
  <2>2. CASE loads[i] # None /\ i \in Lists!Cleared
    <3>1. loads[i] \in Lists!Running /\ loads'[i] = [loads[i] EXCEPT !.stale = TRUE]
      BY <1>1, <2>2, ListFacts
    <3>2. [loads[i] EXCEPT !.stale = TRUE] # None
      BY <3>1, StaleIs, ListConstants
    <3> QED
      BY <2>2, <3>1, <3>2, StaleIs
  <2>3. CASE loads[i] # None /\ i \notin Lists!Cleared
    <3>1. loads'[i] = loads[i] /\ loads[i] \in Lists!Running
      BY <1>1, <2>3, ListFacts
    <3>2. loads[i].variant \in Lists!Variants /\ inflight[loads[i].variant] # i
      BY <2>3, ListFacts, ListConstants DEF Lists!Cleared
    <3>3. loads[i].stale
      BY <2>3, <3>2 DEF ListInv, LoadsGood
    <3> QED
      BY <2>3, <3>1, <3>3
  <2> QED
    BY <2>1, <2>2, <2>3
<1>5. ListTypes'
  <2>1. notified' \in 0..data' /\ notices' \in SUBSET (notified'..data')
    BY <1>1, <1>2, <1>3, ListFacts
  <2>2. loads' \in [Lists!Ids -> Lists!Running \union {None}]
    BY <1>1, <1>4
  <2> QED
    BY <1>1, <2>1, <2>2 DEF ListInv, ListTypes
<1>6. LoadsGood'
  <2> SUFFICES ASSUME NEW i \in Lists!Ids, loads'[i] # None
               PROVE  /\ LoadGood(loads[i])' /\ loads'[i].stale
                      /\ loads'[i].from # None => WaitGood(loads[i], loads[loads[i].from])'
    BY DEF LoadsGood
  <2>1. loads[i] # None /\ LoadGood(loads[i])
    BY <1>4 DEF ListInv, LoadsGood
  <2>2. LoadGood(loads[i])'
    <3>1. loads[i].since \in Nat /\ loads[i].since <= n
      BY <1>3, <2>1, ListFacts DEF LoadGood
    <3> QED
      BY <1>1, <1>4, <2>1, <3>1 DEF LoadGood, BornAt
  <2>3. ASSUME loads'[i].from # None
        PROVE  WaitGood(loads[i], loads[loads[i].from])'
    <3>1. loads'[i].from = loads[i].from /\ loads[i].from \in Lists!Ids
      BY <1>4, <2>1, <2>3, ListFacts
    <3>2. WaitGood(loads[i], loads[loads[i].from])
      BY <2>1, <2>3, <3>1 DEF ListInv, LoadsGood
    <3> QED
      BY <1>4, <2>1, <3>1, <3>2 DEF WaitGood
  <2> QED
    BY <1>4, <2>1, <2>2, <2>3
<1>7. \A v \in Lists!Variants : Registered(v)' /\ EntryGood(v)'
  <2>1. \A v \in Lists!Variants : Registered(v)'
    BY <1>1, <1>4, ListFacts DEF ListInv, Registered
  <2>2. \A v \in Lists!Variants : EntryGood(v)'
    BY <1>1 DEF EntryGood
  <2> QED
    BY <2>1, <2>2
<1>8. AnswerGood' /\ QueryKnown'
  BY <1>1 DEF ListInv, AnswerGood, QueryKnown, Lists!MaxAge
<1> QED
  BY <1>5, <1>6, <1>7, <1>8 DEF ListInv

LEMMA HitHolds ==
  ASSUME ListInv, NEW v \in Lists!Variants, Lists!Hit(v)
  PROVE  ListInv'
<1>1. /\ entries[v] # None /\ entries[v].held < TTL
      /\ answer' = [version |-> entries[v].version, age |-> entries[v].age, since |-> notified]
      /\ UNCHANGED <<data, notices, notified, entries, inflight, loads, queries>>
  BY DEF Lists!Hit, Lists!Valid
<1>2. /\ notified <= entries[v].version
      /\ entries[v].age <= BornAt(v) + MaxLoad + entries[v].held
      /\ entries[v].held \in Nat /\ entries[v].age \in Nat
  BY <1>1, ListFacts DEF ListInv, EntryGood
<1>3. entries[v].age <= Lists!MaxAge
  BY <1>1, <1>2, ListConstants DEF Lists!Variants
<1>4. AnswerGood'
  BY <1>1, <1>2, <1>3 DEF AnswerGood, Lists!MaxAge
<1> QED
  BY <1>1, <1>4 DEF ListInv, ListTypes, LoadsGood, LoadGood, WaitGood, QueryKnown, Registered,
     EntryGood, BornAt, Lists!Joinable

\* A load that is registered and not stale knows what was notified.
LEMMA JoinableIs ==
  ASSUME ListInv, NEW v \in Lists!Variants, Lists!Joinable(v)
  PROVE  LET i == inflight[v]
         IN  /\ i \in Lists!Ids /\ loads[i] # None /\ loads[i].variant = v
             /\ loads[i] \in Lists!Running /\ ~loads[i].stale
             /\ loads[i].version # None => notified <= loads[i].version
             /\ loads[i].from # None => v = "packed"
<1> DEFINE i == inflight[v]
<1>1. i # None /\ ~loads[i].stale
  BY DEF Lists!Joinable
<1>2. i \in Lists!Ids /\ loads[i] # None /\ loads[i].variant = v
  BY <1>1, ListFacts DEF ListInv, Registered
<1>3. loads[i] \in Lists!Running /\ LoadGood(loads[i])
  BY <1>2, ListFacts DEF ListInv, LoadsGood
<1> QED
  BY <1>1, <1>2, <1>3 DEF LoadGood

\* A load is asked for again: it takes the new since.
LEMMA AskedAgain ==
  ASSUME ListInv, NEW v \in Lists!Variants, Lists!Joinable(v),
         NEW n, n = [loads[inflight[v]] EXCEPT !.since = notified]
  PROVE  /\ n \in Lists!Running /\ n # None /\ LoadGood(n) /\ n.variant = v /\ ~n.stale
         /\ n.version = loads[inflight[v]].version /\ n.from = loads[inflight[v]].from
         /\ n.stale = loads[inflight[v]].stale
         /\ n.from # None => WaitGood(n, loads[n.from])
<1> DEFINE l == loads[inflight[v]]
<1>1. /\ inflight[v] \in Lists!Ids /\ l # None /\ l.variant = v
      /\ l \in Lists!Running /\ ~l.stale
      /\ l.version # None => notified <= l.version
  BY JoinableIs
<1>2. /\ LoadGood(l) /\ notified \in Nat
      /\ l.from # None => WaitGood(l, loads[l.from]) /\ l.from \in Lists!Ids
  BY <1>1, ListFacts DEF ListInv, LoadsGood
<1>3. l.from # None =>
        loads[l.from] # None /\ LoadGood(loads[l.from]) /\ ~loads[l.from].stale
  <2>1. l.from # None => loads[l.from] # None /\ ~loads[l.from].stale
    BY <1>1, <1>2, ListFacts DEF WaitGood, Lists!Running
  <2> QED
    BY <1>2, <2>1 DEF ListInv, LoadsGood
<1> HIDE DEF l
<1>4. /\ n \in Lists!Running /\ n.since = notified
      /\ n.held = l.held /\ n.age = l.age /\ n.variant = l.variant
      /\ n.version = l.version /\ n.from = l.from /\ n.stale = l.stale
  BY <1>1, <1>2, AskedIs DEF l
<1>5. LoadGood(n)
  BY <1>1, <1>2, <1>4 DEF LoadGood
<1>6. n.from # None => WaitGood(n, loads[n.from])
  BY <1>2, <1>3, <1>4 DEF WaitGood, LoadGood
<1> QED
  BY <1>1, <1>4, <1>5, <1>6, ListConstants DEF l

LEMMA JoinHolds ==
  ASSUME ListInv, NEW v \in Lists!Variants, Lists!Join(v)
  PROVE  ListInv'
<1> HIDE DEF Lists!Running, Lists!Cached, Lists!Ids
<1> DEFINE i == inflight[v]
           n == [loads[i] EXCEPT !.since = notified]
<1>1. /\ Lists!Joinable(v) /\ entries' = [entries EXCEPT ![v] = None]
      /\ UNCHANGED <<data, notices, notified, inflight, queries, answer>>
  BY DEF Lists!Join
<1>2. loads' = [loads EXCEPT ![i] = n]
  BY Zenon DEF Lists!Join
<1>3. /\ n \in Lists!Running /\ n # None /\ LoadGood(n) /\ n.variant = v /\ ~n.stale
      /\ n.version = loads[i].version /\ n.from = loads[i].from /\ n.stale = loads[i].stale
      /\ n.from # None => WaitGood(n, loads[n.from])
  BY <1>1, AskedAgain
<1>4. i \in Lists!Ids /\ loads[i] # None /\ loads[i].variant = v
  BY <1>1, JoinableIs
<1> HIDE DEF n, i
<1>5. loads'[i] = n /\ \A j \in Lists!Ids : j # i => loads'[j] = loads[j]
  BY <1>2, <1>4 DEF ListInv, ListTypes
<1>6. ListTypes'
  <2>1. loads' \in [Lists!Ids -> Lists!Running \union {None}]
    BY <1>2, <1>3 DEF ListInv, ListTypes
  <2>2. entries' \in [Lists!Variants -> Lists!Cached \union {None}]
    BY <1>1 DEF ListInv, ListTypes
  <2> QED
    BY <1>1, <2>1, <2>2 DEF ListInv, ListTypes
<1>7. LoadsGood'
  <2> SUFFICES ASSUME NEW j \in Lists!Ids, loads'[j] # None
               PROVE  /\ LoadGood(loads[j])'
                      /\ ~loads'[j].stale => inflight'[loads'[j].variant] = j
                      /\ loads'[j].from # None => WaitGood(loads[j], loads[loads[j].from])'
    BY DEF LoadsGood
  <2>1. /\ loads[j] # None /\ LoadGood(loads[j])
        /\ ~loads[j].stale => inflight[loads[j].variant] = j
        /\ loads[j].from # None => WaitGood(loads[j], loads[loads[j].from])
    BY <1>4, <1>5 DEF ListInv, LoadsGood
  <2>2. LoadGood(loads[j])'
    BY <1>1, <1>3, <1>5, <2>1 DEF LoadGood, BornAt
  <2>3. ~loads'[j].stale => inflight'[loads'[j].variant] = j
    BY <1>1, <1>3, <1>4, <1>5, <2>1 DEF i
  <2>4. ASSUME loads'[j].from # None
        PROVE  WaitGood(loads[j], loads[loads[j].from])'
    <3>1. loads'[j].from = loads[j].from /\ loads[j].from \in Lists!Ids
      BY <1>3, <1>5, <2>1, <2>4, ListFacts
    <3>2. WaitGood(loads'[j], loads[loads[j].from])
      BY <1>3, <1>5, <2>1, <2>4, <3>1
    <3>3. WaitGood(loads'[j], loads'[loads[j].from])
      BY <1>3, <1>4, <1>5, <3>1, <3>2 DEF WaitGood
    <3> QED
      BY <3>1, <3>3
  <2> QED
    BY <2>2, <2>3, <2>4
<1>8. \A u \in Lists!Variants : Registered(u)' /\ EntryGood(u)'
  <2>1. \A u \in Lists!Variants : Registered(u)'
    BY <1>1, <1>3, <1>4, <1>5, ListFacts DEF ListInv, Registered
  <2>2. \A u \in Lists!Variants : entries'[u] # None => entries'[u] = entries[u]
    BY <1>1 DEF ListInv, ListTypes
  <2>3. \A u \in Lists!Variants : EntryGood(u)'
    BY <1>1, <2>2 DEF ListInv, EntryGood, BornAt
  <2> QED
    BY <2>1, <2>3
<1>9. QueryKnown'
  <2>1. Lists!Joinable("plain") => Lists!Joinable("plain")'
    BY <1>1, <1>3, <1>5, ListFacts DEF Lists!Joinable, Lists!Variants
  <2>2. v # "plain" => entries'["plain"] = entries["plain"]
    BY <1>1 DEF ListInv, ListTypes, Lists!Variants
  <2> QED
    BY <1>1, <2>1, <2>2 DEF ListInv, QueryKnown
<1>10. AnswerGood'
  BY <1>1 DEF ListInv, AnswerGood, Lists!MaxAge
<1> QED
  BY <1>6, <1>7, <1>8, <1>9, <1>10 DEF ListInv

LEMMA FreeIs ==
  ASSUME Lists!Free # {}
  PROVE  Lists!Min(Lists!Free) \in Lists!Ids /\ loads[Lists!Min(Lists!Free)] = None
<1>1. Lists!Free \in SUBSET Nat
  BY DEF Lists!Free, Lists!Ids
<1>2. Lists!Min(Lists!Free) \in Lists!Free
  BY <1>1, LeastIs
<1> QED
  BY <1>2 DEF Lists!Free

\* Loads begin at free places, registered and not stale; those of their variants that
\* still run were stale, and no one waits at a free place.
LEMMA NewLoads ==
  ASSUME ListInv, NEW New \in SUBSET Lists!Ids, NEW i,
         UNCHANGED <<data, notices, notified>>,
         \A n \in New : loads[n] = None,
         loads' \in [Lists!Ids -> Lists!Running \union {None}],
         inflight' \in [Lists!Variants -> Lists!Ids \union {None}],
         \A j \in Lists!Ids \ New :
           \/ loads'[j] = loads[j]
           \/ /\ loads[j] # None /\ loads'[j] # None /\ LoadGood(loads'[j])
              /\ loads'[j].variant = loads[j].variant /\ loads'[j].version = loads[j].version
              /\ loads'[j].stale = loads[j].stale /\ loads'[j].from = loads[j].from
              /\ loads'[j].from = None,
         \A n \in New :
           /\ loads'[n] # None /\ LoadGood(loads'[n])
           /\ inflight'[loads'[n].variant] = n
           /\ loads'[n].from # None =>
                loads'[n].from \in Lists!Ids /\ WaitGood(loads'[n], loads'[loads'[n].from]),
         \A v \in Lists!Variants :
           \/ inflight'[v] = inflight[v]
           \/ ~Lists!Joinable(v) /\ inflight'[v] \in New /\ loads'[inflight'[v]].variant = v
  PROVE  LoadsGood' /\ \A v \in Lists!Variants : Registered(v)'
<1> HIDE DEF Lists!Running, Lists!Cached, Lists!Ids
<1>1. \A j \in Lists!Ids \ New :
        /\ loads'[j] = None <=> loads[j] = None
        /\ loads[j] # None =>
             /\ loads'[j].variant = loads[j].variant /\ loads'[j].version = loads[j].version
             /\ loads'[j].stale = loads[j].stale /\ loads'[j].from = loads[j].from
             /\ loads'[j].from # None => loads'[j] = loads[j]
             /\ LoadGood(loads'[j])
  BY DEF ListInv, LoadsGood
<1>2. LoadsGood'
  <2> SUFFICES ASSUME NEW j \in Lists!Ids, loads'[j] # None
               PROVE  /\ LoadGood(loads'[j])
                      /\ ~loads'[j].stale => inflight'[loads'[j].variant] = j
                      /\ loads'[j].from # None => WaitGood(loads'[j], loads'[loads'[j].from])
    BY DEF LoadsGood, LoadGood, BornAt, WaitGood
  <2>1. CASE j \in New
    BY <2>1
  <2>2. CASE j \notin New
    <3>1. /\ loads[j] # None /\ LoadGood(loads'[j]) /\ loads'[j].stale = loads[j].stale
          /\ loads'[j].variant = loads[j].variant
          /\ loads'[j].from = loads[j].from
          /\ loads[j].variant \in Lists!Variants
      BY <1>1, <2>2, ListFacts
    <3>2. ~loads'[j].stale => inflight'[loads'[j].variant] = j
      <4>1. ASSUME ~loads[j].stale PROVE inflight[loads[j].variant] = j
        BY <3>1, <4>1 DEF ListInv, LoadsGood
      <4>2. ASSUME ~loads[j].stale PROVE Lists!Joinable(loads[j].variant)
        BY <3>1, <4>1, <4>2, ListConstants DEF Lists!Joinable
      <4> QED
        BY <3>1, <4>1, <4>2
    <3>3. ASSUME loads'[j].from # None PROVE WaitGood(loads'[j], loads'[loads'[j].from])
      <4>1. /\ loads'[j] = loads[j] /\ loads[j].from \in Lists!Ids
            /\ WaitGood(loads[j], loads[loads[j].from])
        BY <1>1, <2>2, <3>1, <3>3, ListFacts DEF ListInv, LoadsGood
      <4>2. loads[j].from \notin New /\ loads[loads[j].from] # None
        BY <4>1 DEF WaitGood
      <4> QED
        BY <1>1, <4>1, <4>2 DEF WaitGood
    <3> QED
      BY <3>1, <3>2, <3>3
  <2> QED
    BY <2>1, <2>2
<1>3. ASSUME NEW v \in Lists!Variants PROVE Registered(v)'
  <2>1. CASE inflight'[v] = inflight[v]
    <3> SUFFICES ASSUME inflight[v] # None
                 PROVE  loads'[inflight[v]] # None /\ loads'[inflight[v]].variant = v
      BY <2>1 DEF Registered
    <3>1. /\ inflight[v] \in Lists!Ids /\ loads[inflight[v]] # None
          /\ loads[inflight[v]].variant = v
      BY ListFacts DEF ListInv, Registered
    <3> QED
      BY <1>1, <3>1
  <2>2. CASE inflight'[v] \in New /\ loads'[inflight'[v]].variant = v
    BY <2>2 DEF Registered
  <2> QED
    BY <2>1, <2>2
<1> QED
  BY <1>2, <1>3

\* The queries that are counted when the plain list has to be read.
LEMMA FirstQuery ==
  ASSUME ListInv, ~Lists!Joinable("plain")
  PROVE  Lists!Min({2, 1 + IF entries["plain"] = None THEN queries ELSE 0}) = 1
<1>1. queries \in 0..1 /\ (queries > 0 => entries["plain"] # None)
  BY DEF ListInv, ListTypes, QueryKnown
<1>2. 1 + (IF entries["plain"] = None THEN queries ELSE 0) = 1
  BY <1>1
<1>3. Lists!Min({2, 1}) = 1
  BY LesserIs
<1> QED
  BY <1>2, <1>3

LEMMA LoadPlainHolds ==
  ASSUME ListInv, Lists!LoadPlain
  PROVE  ListInv'
<1> HIDE DEF Lists!Running, Lists!Cached, Lists!Ids
<1> DEFINE n == Lists!Min(Lists!Free)
           l == Lists!Load("plain")
<1>1. /\ ~Lists!Joinable("plain") /\ Lists!Free # {}
      /\ loads' = [loads EXCEPT ![n] = l]
      /\ inflight' = [inflight EXCEPT !["plain"] = n]
      /\ entries' = [entries EXCEPT !["plain"] = None]
      /\ UNCHANGED <<data, notices, notified, answer>>
  BY DEF Lists!LoadPlain
<1>2. queries' = 1
  BY <1>1, FirstQuery DEF Lists!LoadPlain
<1>3. n \in Lists!Ids /\ loads[n] = None
  BY <1>1, FreeIs
<1>4. /\ l \in Lists!Running /\ l.variant = "plain" /\ l.version = None /\ l.age = 0
      /\ l.held = 0 /\ ~l.stale /\ l.from = None /\ l.since = notified
  BY LoadIs DEF ListInv, Lists!Variants
<1>5. LoadGood(l) /\ l # None
  BY <1>4, ListFacts, ListConstants DEF LoadGood
<1> HIDE DEF n, l
<1>6. loads' \in [Lists!Ids -> Lists!Running \union {None}]
  BY <1>1, <1>3, <1>4 DEF ListInv, ListTypes
<1>7. /\ inflight' \in [Lists!Variants -> Lists!Ids \union {None}]
      /\ entries' \in [Lists!Variants -> Lists!Cached \union {None}]
  BY <1>1, <1>3 DEF ListInv, ListTypes
<1>8. /\ loads'[n] = l /\ \A j \in Lists!Ids \ {n} : loads'[j] = loads[j]
      /\ inflight'["plain"] = n /\ inflight'["packed"] = inflight["packed"]
      /\ entries'["plain"] = None /\ entries'["packed"] = entries["packed"]
  BY <1>1, <1>3 DEF ListInv, ListTypes, Lists!Variants
<1>9. \A v \in Lists!Variants : v = "plain" \/ v = "packed"
  BY DEF Lists!Variants
<1>10. LoadsGood' /\ \A v \in Lists!Variants : Registered(v)'
  <2>1. {n} \in SUBSET Lists!Ids
    BY <1>3
  <2>2. \A m \in {n} :
          /\ loads[m] = None /\ loads'[m] # None /\ LoadGood(loads'[m])
          /\ inflight'[loads'[m].variant] = m /\ loads'[m].from = None
    BY <1>3, <1>4, <1>5, <1>8
  <2>3. \A v \in Lists!Variants :
          \/ inflight'[v] = inflight[v]
          \/ ~Lists!Joinable(v) /\ inflight'[v] \in {n} /\ loads'[inflight'[v]].variant = v
    BY <1>1, <1>4, <1>8, <1>9
  <2> QED
    BY <1>1, <1>6, <1>7, <1>8, <2>1, <2>2, <2>3, NewLoads
<1>11. ListTypes'
  BY <1>1, <1>2, <1>6, <1>7 DEF ListInv, ListTypes
<1>12. \A v \in Lists!Variants : EntryGood(v)'
  BY <1>1, <1>8, <1>9 DEF ListInv, EntryGood, BornAt
<1>13. QueryKnown'
  BY <1>3, <1>4, <1>8, ListConstants DEF QueryKnown, Lists!Joinable
<1>14. AnswerGood'
  BY <1>1 DEF ListInv, AnswerGood, Lists!MaxAge
<1> QED
  BY <1>10, <1>11, <1>12, <1>13, <1>14 DEF ListInv

LEMMA LoadPackedFromEntryHolds ==
  ASSUME ListInv, Lists!LoadPackedFromEntry
  PROVE  ListInv'
<1> HIDE DEF Lists!Running, Lists!Cached, Lists!Ids
<1> DEFINE n == Lists!Min(Lists!Free)
           l == [Lists!Load("packed") EXCEPT !.version = entries["plain"].version,
                                             !.age = entries["plain"].age]
<1>1. /\ ~Lists!Joinable("packed") /\ Lists!Free # {}
      /\ entries["plain"] # None /\ entries["plain"].held < TTL
      /\ loads' = [loads EXCEPT ![n] = l]
      /\ inflight' = [inflight EXCEPT !["packed"] = n]
      /\ entries' = [entries EXCEPT !["packed"] = None]
      /\ UNCHANGED <<data, notices, notified, queries, answer>>
  BY DEF Lists!LoadPackedFromEntry, Lists!Valid
<1>2. /\ notified <= entries["plain"].version
      /\ entries["plain"].age <= MaxLoad + TTL - 1
      /\ entries["plain"].version \in Nat /\ entries["plain"].age \in Nat
  <2>1. "plain" \in Lists!Variants
    BY DEF Lists!Variants
  <2>2. /\ entries["plain"].version \in Nat /\ entries["plain"].age \in Nat
        /\ entries["plain"].held \in Nat
    BY <1>1, <2>1, ListFacts
  <2>3. /\ notified <= entries["plain"].version
        /\ entries["plain"].age <= BornAt("plain") + MaxLoad + entries["plain"].held
    BY <1>1, <2>1 DEF ListInv, EntryGood
  <2> QED
    BY <1>1, <2>2, <2>3, ListConstants
<1>3. n \in Lists!Ids /\ loads[n] = None
  BY <1>1, FreeIs
<1>4. /\ l \in Lists!Running /\ l.variant = "packed" /\ l.version = entries["plain"].version
      /\ l.age = entries["plain"].age
      /\ l.held = 0 /\ ~l.stale /\ l.from = None /\ l.since = notified
  <2> DEFINE d == entries["plain"].version
             a == entries["plain"].age
  <2>1. ListTypes /\ d \in Nat /\ a \in Nat
    BY <1>2 DEF ListInv
  <2> HIDE DEF d, a
  <2>2. LET m == [Lists!Load("packed") EXCEPT !.version = d, !.age = a]
        IN  /\ m \in Lists!Running /\ m.variant = "packed" /\ m.version = d /\ m.age = a
            /\ m.held = 0 /\ ~m.stale /\ m.from = None /\ m.since = notified
    BY <2>1, PackedFromEntryIs
  <2> QED
    BY <2>2 DEF d, a
<1> HIDE DEF n, l
<1>5. LoadGood(l) /\ l # None
  BY <1>2, <1>4, ListFacts, ListConstants DEF LoadGood
<1>6. loads' \in [Lists!Ids -> Lists!Running \union {None}]
  BY <1>1, <1>3, <1>4 DEF ListInv, ListTypes
<1>7. /\ inflight' \in [Lists!Variants -> Lists!Ids \union {None}]
      /\ entries' \in [Lists!Variants -> Lists!Cached \union {None}]
  BY <1>1, <1>3 DEF ListInv, ListTypes
<1>8. /\ loads'[n] = l /\ \A j \in Lists!Ids \ {n} : loads'[j] = loads[j]
      /\ inflight'["packed"] = n /\ inflight'["plain"] = inflight["plain"]
      /\ entries'["packed"] = None /\ entries'["plain"] = entries["plain"]
  BY <1>1, <1>3 DEF ListInv, ListTypes, Lists!Variants
<1>9. \A v \in Lists!Variants : v = "plain" \/ v = "packed"
  BY DEF Lists!Variants
<1>10. LoadsGood' /\ \A v \in Lists!Variants : Registered(v)'
  <2>1. {n} \in SUBSET Lists!Ids
    BY <1>3
  <2>2. \A m \in {n} :
          /\ loads[m] = None /\ loads'[m] # None /\ LoadGood(loads'[m])
          /\ inflight'[loads'[m].variant] = m /\ loads'[m].from = None
    BY <1>3, <1>4, <1>5, <1>8
  <2>3. \A v \in Lists!Variants :
          \/ inflight'[v] = inflight[v]
          \/ ~Lists!Joinable(v) /\ inflight'[v] \in {n} /\ loads'[inflight'[v]].variant = v
    BY <1>1, <1>4, <1>8, <1>9
  <2> QED
    BY <1>1, <1>6, <1>7, <1>8, <2>1, <2>2, <2>3, NewLoads
<1>11. ListTypes'
  BY <1>1, <1>6, <1>7 DEF ListInv, ListTypes
<1>12. \A v \in Lists!Variants : EntryGood(v)'
  BY <1>1, <1>8, <1>9 DEF ListInv, EntryGood, BornAt
<1>13. QueryKnown' /\ AnswerGood'
  BY <1>1, <1>8 DEF ListInv, QueryKnown, AnswerGood, Lists!MaxAge
<1> QED
  BY <1>10, <1>11, <1>12, <1>13 DEF ListInv

LEMMA LoadPackedFromLoadHolds ==
  ASSUME ListInv, Lists!LoadPackedFromLoad
  PROVE  ListInv'
<1> HIDE DEF Lists!Running, Lists!Cached, Lists!Ids
<1>1. /\ ~Lists!Joinable("packed") /\ Lists!Free # {}
      /\ entries' = [v \in Lists!Variants |-> None]
      /\ UNCHANGED <<data, notices, notified, answer>>
  BY DEF Lists!LoadPackedFromLoad
<1>2. /\ \A v \in Lists!Variants : v = "plain" \/ v = "packed"
      /\ "plain" \in Lists!Variants /\ "packed" \in Lists!Variants
  BY DEF Lists!Variants
<1>3. \A v \in Lists!Variants : EntryGood(v)'
  BY <1>1 DEF EntryGood
<1>4. AnswerGood'
  BY <1>1 DEF ListInv, AnswerGood, Lists!MaxAge
<1>5. entries' \in [Lists!Variants -> Lists!Cached \union {None}]
  BY <1>1
<1>6. CASE Lists!Joinable("plain")
  <2> DEFINE n == Lists!Min(Lists!Free)
             p == inflight["plain"]
             l == [Lists!Load("packed") EXCEPT !.from = p]
             q == [loads[p] EXCEPT !.since = notified]
  <2>1. /\ inflight' = [inflight EXCEPT !["packed"] = n] /\ UNCHANGED queries
    BY <1>6 DEF Lists!LoadPackedFromLoad
  <2>2. /\ p \in Lists!Ids /\ loads[p] # None /\ ~loads[p].stale
        /\ loads[p].version # None => notified <= loads[p].version
        /\ loads[p].from = None /\ loads[p].variant = "plain"
    BY <1>2, <1>6, JoinableIs
  <2>3. n \in Lists!Ids /\ loads[n] = None
    BY <1>1, FreeIs
  <2>4. /\ l \in Lists!Running /\ l.variant = "packed" /\ l.version = None /\ l.age = 0
        /\ l.held = 0 /\ ~l.stale /\ l.from = p /\ l.since = notified
    BY <2>2, PackedFromLoadIs DEF ListInv
  <2>5. /\ q \in Lists!Running /\ q # None /\ LoadGood(q) /\ q.variant = "plain" /\ ~q.stale
        /\ q.version = loads[p].version /\ q.from = None
    BY <1>2, <1>6, <2>2, AskedAgain
  <2>6. loads' = [loads EXCEPT ![p] = q, ![n] = l]
    BY <1>6, Zenon DEF Lists!LoadPackedFromLoad
  <2> HIDE DEF n, p, l, q
  <2>7. LoadGood(l) /\ l # None /\ WaitGood(l, q)
    BY <2>2, <2>4, <2>5, ListFacts, ListConstants DEF LoadGood, WaitGood
  <2>8. loads' \in [Lists!Ids -> Lists!Running \union {None}]
    BY <2>2, <2>3, <2>4, <2>5, <2>6 DEF ListInv, ListTypes
  <2>9. inflight' \in [Lists!Variants -> Lists!Ids \union {None}]
    BY <2>1, <2>3 DEF ListInv, ListTypes
  <2>10. /\ loads'[n] = l /\ loads'[p] = q /\ n # p
         /\ \A j \in Lists!Ids \ {n} : j # p => loads'[j] = loads[j]
         /\ inflight'["packed"] = n /\ inflight'["plain"] = inflight["plain"]
    BY <1>2, <2>1, <2>2, <2>3, <2>6 DEF ListInv, ListTypes
  <2>11. LoadsGood' /\ \A v \in Lists!Variants : Registered(v)'
    <3>1. {n} \in SUBSET Lists!Ids
      BY <2>3
    <3>2. \A j \in Lists!Ids \ {n} :
            \/ loads'[j] = loads[j]
            \/ /\ loads[j] # None /\ loads'[j] # None /\ LoadGood(loads'[j])
               /\ loads'[j].variant = loads[j].variant /\ loads'[j].version = loads[j].version
               /\ loads'[j].stale = loads[j].stale /\ loads'[j].from = loads[j].from
               /\ loads'[j].from = None
      <4> SUFFICES ASSUME NEW j \in Lists!Ids \ {n}, j = p
                   PROVE  /\ loads[p] # None /\ q # None /\ LoadGood(q)
                          /\ q.variant = loads[p].variant /\ q.version = loads[p].version
                          /\ q.stale = loads[p].stale /\ q.from = loads[p].from
                          /\ q.from = None
        BY <2>10
      <4>1. loads[p].stale \in BOOLEAN /\ q.stale \in BOOLEAN
        BY <2>2, <2>5, ListFacts DEF Lists!Running
      <4> QED
        BY <2>2, <2>5, <4>1
    <3>3. \A v \in Lists!Variants :
            \/ inflight'[v] = inflight[v]
            \/ ~Lists!Joinable(v) /\ inflight'[v] \in {n} /\ loads'[inflight'[v]].variant = v
      BY <1>1, <1>2, <2>4, <2>10
    <3>4. \A m \in {n} :
            /\ loads[m] = None /\ loads'[m] # None /\ LoadGood(loads'[m])
            /\ inflight'[loads'[m].variant] = m
            /\ loads'[m].from # None =>
                 loads'[m].from \in Lists!Ids /\ WaitGood(loads'[m], loads'[loads'[m].from])
      BY <2>2, <2>3, <2>4, <2>7, <2>10
    <3> QED
      BY <1>1, <2>8, <2>9, <3>1, <3>2, <3>3, <3>4, NewLoads
  <2>12. ListTypes'
    BY <1>1, <1>5, <2>1, <2>8, <2>9 DEF ListInv, ListTypes
  <2>13. QueryKnown'
    BY <2>2, <2>5, <2>10, ListConstants DEF QueryKnown, Lists!Joinable, p
  <2> QED
    BY <1>3, <1>4, <2>11, <2>12, <2>13 DEF ListInv
<1>7. CASE ~Lists!Joinable("plain")
  <2> DEFINE p == Lists!Min(Lists!Free)
             c == Lists!Min(Lists!Free \ {p})
             q == Lists!Load("plain")
             l == [Lists!Load("packed") EXCEPT !.from = p]
  <2>1. /\ Lists!Free # {p}
        /\ loads' = [loads EXCEPT ![p] = q, ![c] = l]
        /\ inflight' = [v \in Lists!Variants |-> IF v = "plain" THEN p ELSE c]
    BY <1>7 DEF Lists!LoadPackedFromLoad
  <2>2. queries' = 1
    BY <1>7, FirstQuery DEF Lists!LoadPackedFromLoad
  <2>3. p \in Lists!Ids /\ loads[p] = None
    BY <1>1, FreeIs
  <2>4. c \in Lists!Ids /\ loads[c] = None /\ c # p
    <3> HIDE DEF p
    <3>1. Lists!Free \ {p} \in SUBSET Nat
      BY DEF Lists!Free, Lists!Ids
    <3>2. Lists!Free \ {p} # {}
      BY <1>1, <2>1
    <3>3. c \in Lists!Free \ {p}
      BY <3>1, <3>2, LeastIs
    <3> QED
      BY <3>3 DEF Lists!Free
  <2>5. /\ q \in Lists!Running /\ q.variant = "plain" /\ q.version = None /\ q.age = 0
        /\ q.held = 0 /\ ~q.stale /\ q.from = None /\ q.since = notified
    BY <1>2, LoadIs DEF ListInv
  <2>6. /\ l \in Lists!Running /\ l.variant = "packed" /\ l.version = None /\ l.age = 0
        /\ l.held = 0 /\ ~l.stale /\ l.from = p /\ l.since = notified
    BY <2>3, PackedFromLoadIs DEF ListInv
  <2> HIDE DEF p, c, q, l
  <2>7. /\ LoadGood(l) /\ l # None /\ LoadGood(q) /\ q # None /\ WaitGood(l, q)
    BY <2>5, <2>6, ListFacts, ListConstants DEF LoadGood, WaitGood
  <2>8. loads' \in [Lists!Ids -> Lists!Running \union {None}]
    BY <2>1, <2>3, <2>4, <2>5, <2>6 DEF ListInv, ListTypes
  <2>9. inflight' \in [Lists!Variants -> Lists!Ids \union {None}]
    BY <2>1, <2>3, <2>4
  <2>10. /\ loads'[p] = q /\ loads'[c] = l
         /\ \A j \in Lists!Ids \ {p, c} : loads'[j] = loads[j]
         /\ inflight'["plain"] = p /\ inflight'["packed"] = c
    BY <1>2, <2>1, <2>3, <2>4 DEF ListInv, ListTypes
  <2>11. LoadsGood' /\ \A v \in Lists!Variants : Registered(v)'
    <3>1. {p, c} \in SUBSET Lists!Ids
      BY <2>3, <2>4
    <3>2. \A m \in {p, c} :
            /\ loads[m] = None /\ loads'[m] # None /\ LoadGood(loads'[m])
            /\ inflight'[loads'[m].variant] = m
            /\ loads'[m].from # None =>
                 loads'[m].from \in Lists!Ids /\ WaitGood(loads'[m], loads'[loads'[m].from])
      BY <2>3, <2>4, <2>5, <2>6, <2>7, <2>10
    <3>3. \A v \in Lists!Variants :
            ~Lists!Joinable(v) /\ inflight'[v] \in {p, c} /\ loads'[inflight'[v]].variant = v
      BY <1>1, <1>2, <1>7, <2>5, <2>6, <2>10
    <3> QED
      BY <1>1, <2>8, <2>9, <2>10, <3>1, <3>2, <3>3, NewLoads
  <2>12. ListTypes'
    BY <1>1, <1>5, <2>2, <2>8, <2>9 DEF ListInv, ListTypes
  <2>13. QueryKnown'
    BY <2>3, <2>5, <2>10, ListConstants DEF QueryKnown, Lists!Joinable
  <2> QED
    BY <1>3, <1>4, <2>11, <2>12, <2>13 DEF ListInv
<1> QED
  BY <1>6, <1>7

LEMMA ReadHolds ==
  ASSUME ListInv, NEW i \in Lists!Ids, Lists!Read(i)
  PROVE  ListInv'
<1> HIDE DEF Lists!Running, Lists!Cached, Lists!Ids
<1> DEFINE n == [loads[i] EXCEPT !.version = data, !.age = 0]
<1>1. /\ loads[i] # None /\ loads[i].variant = "plain"
      /\ UNCHANGED <<data, notices, notified, entries, inflight, queries, answer>>
  BY DEF Lists!Read
<1>2. loads' = [loads EXCEPT ![i] = n]
  BY Zenon DEF Lists!Read
<1>3. /\ loads[i] \in Lists!Running /\ LoadGood(loads[i]) /\ data \in Nat
  BY <1>1, ListFacts DEF ListInv, LoadsGood
<1>4. /\ n \in Lists!Running /\ n.version = data /\ n.age = 0
      /\ n.held = loads[i].held /\ n.variant = loads[i].variant
      /\ n.from = loads[i].from /\ n.stale = loads[i].stale /\ n.since = loads[i].since
  BY <1>3, ReadIs
<1> HIDE DEF n
<1>5. n # None /\ LoadGood(n) /\ n.from = None /\ loads[i].from = None
  <2>1. loads[i].held \in Nat /\ loads[i].since \in Nat
    BY <1>1, ListFacts
  <2>2. loads[i].from = None
    BY <1>1, <1>3 DEF LoadGood
  <2> QED
    BY <1>1, <1>3, <1>4, <2>1, <2>2, ListFacts, ListConstants DEF LoadGood
<1>6. loads'[i] = n /\ \A j \in Lists!Ids : j # i => loads'[j] = loads[j]
  BY <1>2 DEF ListInv, ListTypes
<1>7. ListTypes'
  <2>1. loads' \in [Lists!Ids -> Lists!Running \union {None}]
    BY <1>2, <1>4 DEF ListInv, ListTypes
  <2> QED
    BY <1>1, <2>1 DEF ListInv, ListTypes
<1>8. LoadsGood'
  <2> SUFFICES ASSUME NEW j \in Lists!Ids, loads'[j] # None
               PROVE  /\ LoadGood(loads[j])'
                      /\ ~loads'[j].stale => inflight'[loads'[j].variant] = j
                      /\ loads'[j].from # None => WaitGood(loads[j], loads[loads[j].from])'
    BY DEF LoadsGood
  <2>1. /\ loads[j] # None /\ LoadGood(loads[j])
        /\ ~loads[j].stale => inflight[loads[j].variant] = j
        /\ loads[j].from # None => WaitGood(loads[j], loads[loads[j].from])
    BY <1>1, <1>6 DEF ListInv, LoadsGood
  <2>2. LoadGood(loads[j])'
    BY <1>1, <1>5, <1>6, <2>1 DEF LoadGood, BornAt
  <2>3. ~loads'[j].stale => inflight'[loads'[j].variant] = j
    BY <1>1, <1>4, <1>6, <2>1
  <2>4. ASSUME loads'[j].from # None
        PROVE  WaitGood(loads[j], loads[loads[j].from])'
    <3>1. j # i /\ loads'[j] = loads[j] /\ loads[j].from \in Lists!Ids
      BY <1>5, <1>6, <2>1, <2>4, ListFacts
    <3>2. WaitGood(loads[j], loads[loads[j].from]) /\ loads[j].since <= notified
      BY <2>1, <2>4, <3>1 DEF LoadGood
    <3>3. loads[j].since <= data
      BY <2>1, <3>2, ListFacts
    <3>4. WaitGood(loads[j], loads'[loads[j].from])
      BY <1>4, <1>5, <1>6, <3>1, <3>2, <3>3 DEF WaitGood
    <3> QED
      BY <3>1, <3>4
  <2> QED
    BY <2>2, <2>3, <2>4
<1>9. \A v \in Lists!Variants : Registered(v)' /\ EntryGood(v)'
  BY <1>1, <1>4, <1>5, <1>6, ListFacts DEF ListInv, Registered, EntryGood, BornAt
<1>10. QueryKnown' /\ AnswerGood'
  <2>1. Lists!Joinable("plain") => Lists!Joinable("plain")'
    BY <1>1, <1>4, <1>6, ListFacts DEF Lists!Joinable, Lists!Variants
  <2> QED
    BY <1>1, <2>1 DEF ListInv, QueryKnown, AnswerGood, Lists!MaxAge
<1> QED
  BY <1>7, <1>8, <1>9, <1>10 DEF ListInv

LEMMA FinishHolds ==
  ASSUME ListInv, NEW i \in Lists!Ids, Lists!Finish(i)
  PROVE  ListInv'
<1> DEFINE l == loads[i]
           waits(j) == loads[j] # None /\ loads[j].from = i
           Handed(j) == [loads[j] EXCEPT !.from = None, !.version = l.version, !.age = l.age,
                                         !.held = 0]
<1>1. /\ l # None /\ l.version # None /\ l \in Lists!Running /\ LoadGood(l) /\ l.from = None
      /\ l.variant \in Lists!Variants /\ l.version \in Nat /\ l.age \in Nat /\ l.held \in Nat
      /\ ~l.stale => inflight[l.variant] = i
  BY ListFacts DEF Lists!Finish, ListInv, LoadsGood, LoadGood
<1>2. /\ loads' = [j \in Lists!Ids |->
           CASE j = i -> None
             [] j # i /\ waits(j) /\ l # None -> Handed(j)
             [] j # i /\ waits(j) /\ l = None -> None
             [] j # i /\ ~waits(j) -> loads[j]]
      /\ inflight' = [v \in Lists!Variants |->
           IF Lists!Unregisters(i, v, l) THEN None ELSE inflight[v]]
  BY DEF Lists!Finish, Lists!Ended
<1>3. /\ entries' = IF ~l.stale
           THEN [entries EXCEPT ![l.variant] =
                   [version |-> l.version, age |-> l.age, held |-> 0]]
           ELSE entries
      /\ answer' = [version |-> l.version, age |-> l.age, since |-> l.since]
      /\ UNCHANGED <<data, notices, notified, queries>>
  BY DEF Lists!Finish
<1> HIDE DEF Lists!Running, Lists!Cached, Lists!Ids
<1>4. \A v \in Lists!Variants : inflight'[v] = IF inflight[v] = i THEN None ELSE inflight[v]
  BY <1>1, <1>2 DEF Lists!Unregisters
\* What becomes of the other loads.
<1>5. /\ loads'[i] = None
      /\ \A j \in Lists!Ids : j # i /\ ~waits(j) => loads'[j] = loads[j]
      /\ \A j \in Lists!Ids : j # i /\ waits(j) => loads'[j] = Handed(j)
  BY <1>1, <1>2
<1>6. \A j \in Lists!Ids : j # i /\ waits(j) =>
        /\ loads'[j] \in Lists!Running /\ loads'[j] # None /\ loads'[j].version = l.version
        /\ loads'[j].age = l.age /\ loads'[j].held = 0
        /\ loads'[j].variant = loads[j].variant /\ loads'[j].from = None
        /\ loads'[j].stale = loads[j].stale /\ loads'[j].since = loads[j].since
        /\ loads[j].variant = "packed" /\ WaitGood(loads[j], l) /\ LoadGood(loads[j])
  <2> SUFFICES ASSUME NEW j \in Lists!Ids, j # i, waits(j)
               PROVE  /\ loads'[j] \in Lists!Running /\ loads'[j] # None
                      /\ loads'[j].version = l.version
                      /\ loads'[j].age = l.age /\ loads'[j].held = 0
                      /\ loads'[j].variant = loads[j].variant /\ loads'[j].from = None
                      /\ loads'[j].stale = loads[j].stale /\ loads'[j].since = loads[j].since
                      /\ loads[j].variant = "packed" /\ WaitGood(loads[j], l)
                      /\ LoadGood(loads[j])
    OBVIOUS
  <2>1. loads'[j] = Handed(j)
    BY <1>5
  <2>2. loads[j] \in Lists!Running
    BY ListFacts
  <2>3. /\ Handed(j) \in Lists!Running /\ Handed(j).version = l.version
        /\ Handed(j).age = l.age /\ Handed(j).held = 0
        /\ Handed(j).variant = loads[j].variant /\ Handed(j).from = None
        /\ Handed(j).stale = loads[j].stale /\ Handed(j).since = loads[j].since
    <3> DEFINE d == l.version
               a == l.age
               m == loads[j]
    <3>1. d \in Nat /\ a \in Nat /\ m \in Lists!Running
      BY <1>1, <2>2
    <3> HIDE DEF d, a, m
    <3>2. LET n == [m EXCEPT !.from = None, !.version = d, !.age = a, !.held = 0]
          IN  /\ n \in Lists!Running /\ n.version = d /\ n.age = a /\ n.held = 0
              /\ n.variant = m.variant
              /\ n.from = None /\ n.stale = m.stale /\ n.since = m.since
      BY <3>1 DEF Lists!Running
    <3> QED
      BY <3>2 DEF d, a, m
  <2>4. LoadGood(loads[j]) /\ WaitGood(loads[j], l) /\ i # None
    BY ListConstants DEF ListInv, LoadsGood
  <2>5. loads[j].variant = "packed"
    BY <2>4 DEF LoadGood
  <2> HIDE DEF Handed
  <2> QED
    BY <2>1, <2>3, <2>4, <2>5, ListConstants
<1> HIDE DEF l, Handed
<1>7. ListTypes'
  <2>1. loads' \in [Lists!Ids -> Lists!Running \union {None}]
    <3>1. \A j \in Lists!Ids : loads'[j] \in Lists!Running \union {None}
      BY <1>5, <1>6 DEF ListInv, ListTypes
    <3> QED
      BY <1>2, <3>1
  <2>2. inflight' \in [Lists!Variants -> Lists!Ids \union {None}]
    BY <1>2 DEF ListInv, ListTypes
  <2>3. entries' \in [Lists!Variants -> Lists!Cached \union {None}]
    <3>1. [version |-> l.version, age |-> l.age, held |-> 0] \in Lists!Cached
      BY <1>1 DEF Lists!Cached
    <3> QED
      BY <1>1, <1>3, <3>1 DEF ListInv, ListTypes
  <2> QED
    BY <1>3, <2>1, <2>2, <2>3 DEF ListInv, ListTypes
<1>8. LoadsGood'
  <2> SUFFICES ASSUME NEW j \in Lists!Ids, loads'[j] # None
               PROVE  /\ LoadGood(loads[j])'
                      /\ ~loads'[j].stale => inflight'[loads'[j].variant] = j
                      /\ loads'[j].from # None => WaitGood(loads[j], loads[loads[j].from])'
    BY DEF LoadsGood
  <2>1. /\ j # i /\ loads[j] # None /\ LoadGood(loads[j])
        /\ ~loads[j].stale => inflight[loads[j].variant] = j
        /\ loads[j].from # None => WaitGood(loads[j], loads[loads[j].from])
        /\ loads[j].variant \in Lists!Variants
    <3>1. j # i /\ loads[j] # None
      BY <1>5
    <3> QED
      BY <3>1, ListFacts DEF ListInv, LoadsGood
  <2>2. CASE waits(j)
    <3>1. LoadGood(loads[j])'
      <4>1. l.variant = "plain" /\ l.age <= MaxLoad
        BY <1>1, <1>6, <2>1, <2>2, ListConstants DEF WaitGood, LoadGood
      <4>2. l.age <= BornAt("packed") + 0
        BY <1>1, <4>1, ListConstants
      <4>3. /\ loads[j].since <= notified /\ loads[j].since <= l.version
            /\ ~loads[j].stale => notified <= l.version
        BY <1>1, <1>6, <2>1, <2>2 DEF WaitGood, LoadGood
      <4>4. 0 <= MaxLoad
        BY ListConstants
      <4>5. LoadGood(loads'[j])
        BY <1>6, <2>1, <2>2, <4>2, <4>3, <4>4 DEF LoadGood
      <4> QED
        BY <1>3, <4>5 DEF LoadGood, BornAt
    <3> QED
      BY <1>4, <1>6, <2>1, <2>2, <3>1
  <2>3. CASE ~waits(j)
    <3>1. loads'[j] = loads[j]
      BY <1>5, <2>1, <2>3
    <3>2. LoadGood(loads[j])'
      BY <1>3, <2>1, <3>1 DEF LoadGood, BornAt
    <3>3. ~loads'[j].stale => inflight'[loads'[j].variant] = j
      BY <1>4, <2>1, <3>1
    <3>4. ASSUME loads'[j].from # None
          PROVE  WaitGood(loads[j], loads[loads[j].from])'
      <4> DEFINE p == loads[j].from
      <4>1. /\ p \in Lists!Ids /\ p # i /\ WaitGood(loads[j], loads[p])
        BY <2>1, <2>3, <3>1, <3>4, ListFacts
      <4>2. loads[p] # None /\ loads[p].variant = "plain"
        BY <4>1 DEF WaitGood
      <4>3. loads'[p] = loads[p]
        BY <1>5, <1>6, <4>1, <4>2
      <4> QED
        BY <3>1, <4>1, <4>3
    <3> QED
      BY <3>2, <3>3, <3>4
  <2> QED
    BY <2>2, <2>3
<1>9. ASSUME NEW v \in Lists!Variants PROVE Registered(v)'
  <2> SUFFICES ASSUME inflight'[v] # None
               PROVE  loads'[inflight'[v]] # None /\ loads'[inflight'[v]].variant = v
    BY DEF Registered
  <2>1. /\ inflight'[v] = inflight[v] /\ inflight[v] # i /\ inflight[v] \in Lists!Ids
        /\ loads[inflight[v]] # None /\ loads[inflight[v]].variant = v
    BY <1>4, ListFacts DEF ListInv, Registered
  <2> QED
    BY <1>5, <1>6, <2>1
<1>10. ASSUME NEW v \in Lists!Variants PROVE EntryGood(v)'
  <2>1. CASE ~l.stale /\ v = l.variant
    <3>1. /\ entries'[v].version = l.version /\ entries'[v].age = l.age
          /\ entries'[v].held = 0
      BY <1>3, <2>1 DEF ListInv, ListTypes
    <3>2. notified <= l.version /\ l.age <= BornAt(v) + MaxLoad + 0
      <4>1. l.age <= BornAt(v) + l.held /\ l.held <= MaxLoad /\ notified <= l.version
        BY <1>1, <2>1 DEF LoadGood
      <4> QED
        BY <1>1, <4>1, ListConstants
    <3> QED
      BY <1>3, <3>1, <3>2 DEF EntryGood, BornAt
  <2>2. CASE l.stale \/ v # l.variant
    <3>1. entries'[v] = entries[v]
      BY <1>3, <2>2 DEF ListInv, ListTypes
    <3> QED
      BY <1>3, <3>1 DEF ListInv, EntryGood, BornAt
  <2> QED
    BY <2>1, <2>2
<1>11. AnswerGood'
  <2>1. l.since <= l.version /\ l.age <= BornAt(l.variant) + l.held /\ l.held <= MaxLoad
    BY <1>1 DEF LoadGood
  <2>2. l.age <= Lists!MaxAge
    BY <1>1, <2>1, ListConstants DEF Lists!Variants
  <2> QED
    BY <1>3, <2>1, <2>2 DEF AnswerGood, Lists!MaxAge
<1>12. QueryKnown'
  <2>1. CASE ~l.stale /\ l.variant = "plain"
    <3>1. entries'["plain"] = [version |-> l.version, age |-> l.age, held |-> 0]
      BY <1>1, <1>3, <2>1 DEF ListInv, ListTypes
    <3>2. [version |-> l.version, age |-> l.age, held |-> 0] \in Lists!Cached
      BY <1>1 DEF Lists!Cached
    <3> QED
      BY <3>1, <3>2, ListConstants DEF QueryKnown
  <2>2. CASE l.stale \/ l.variant # "plain"
    <3>1. entries'["plain"] = entries["plain"]
      BY <1>3, <2>2 DEF ListInv, ListTypes
    <3>2. ASSUME Lists!Joinable("plain") PROVE Lists!Joinable("plain")'
      <4> DEFINE p == inflight["plain"]
      <4>1. /\ p \in Lists!Ids /\ loads[p] # None /\ loads[p].variant = "plain"
            /\ ~loads[p].stale
        BY <3>2, JoinableIs DEF Lists!Variants
      <4>2. p # i
        BY <2>2, <4>1 DEF l
      <4>3. loads'[p] = loads[p]
        BY <1>5, <1>6, <4>1, <4>2
      <4>4. inflight'["plain"] = p
        BY <1>4, <4>2 DEF Lists!Variants
      <4> QED
        BY <4>1, <4>3, <4>4, ListConstants DEF Lists!Joinable
    <3> QED
      BY <1>3, <3>1, <3>2 DEF ListInv, QueryKnown
  <2> QED
    BY <2>1, <2>2
<1> QED
  BY <1>7, <1>8, <1>9, <1>10, <1>11, <1>12 DEF ListInv

LEMMA FailHolds ==
  ASSUME ListInv, NEW i \in Lists!Ids, Lists!Fail(i)
  PROVE  ListInv'
<1> DEFINE waits(j) == loads[j] # None /\ loads[j].from = i
<1>1. /\ loads[i] # None /\ loads[i].from = None
      /\ queries' = IF loads[i].variant = "plain" /\ ~loads[i].stale THEN 0 ELSE queries
      /\ UNCHANGED <<data, notices, notified, entries, answer>>
  BY DEF Lists!Fail
<1>2. /\ loads' = [j \in Lists!Ids |->
           CASE j = i -> None
             [] j # i /\ waits(j) /\ None # None ->
                  [loads[j] EXCEPT !.from = None, !.version = None.version,
                                   !.age = None.age, !.held = 0]
             [] j # i /\ waits(j) /\ None = None -> None
             [] j # i /\ ~waits(j) -> loads[j]]
      /\ inflight' = [v \in Lists!Variants |->
           IF Lists!Unregisters(i, v, None) THEN None ELSE inflight[v]]
  BY DEF Lists!Fail, Lists!Ended
<1> HIDE DEF Lists!Running, Lists!Cached, Lists!Ids
<1>3. \A v \in Lists!Variants : inflight'[v] =
        IF inflight[v] = i \/ (inflight[v] # None /\ loads[inflight[v]].from = i)
        THEN None ELSE inflight[v]
  BY <1>2 DEF Lists!Unregisters
<1>4. \A j \in Lists!Ids :
        loads'[j] = IF j = i \/ waits(j) THEN None ELSE loads[j]
  BY <1>2
<1>5. ListTypes'
  <2>1. loads' \in [Lists!Ids -> Lists!Running \union {None}]
    <3>1. \A j \in Lists!Ids : loads'[j] \in Lists!Running \union {None}
      BY <1>4 DEF ListInv, ListTypes
    <3> QED
      BY <1>2, <3>1
  <2>2. inflight' \in [Lists!Variants -> Lists!Ids \union {None}]
    BY <1>2 DEF ListInv, ListTypes
  <2>3. queries' \in 0..1
    BY <1>1 DEF ListInv, ListTypes
  <2> QED
    BY <1>1, <2>1, <2>2, <2>3 DEF ListInv, ListTypes
<1>6. LoadsGood'
  <2> SUFFICES ASSUME NEW j \in Lists!Ids, loads'[j] # None
               PROVE  /\ LoadGood(loads[j])'
                      /\ ~loads'[j].stale => inflight'[loads'[j].variant] = j
                      /\ loads'[j].from # None => WaitGood(loads[j], loads[loads[j].from])'
    BY DEF LoadsGood
  <2>1. /\ j # i /\ ~waits(j) /\ loads'[j] = loads[j] /\ loads[j] # None
    BY <1>4
  <2>2. /\ LoadGood(loads[j])
        /\ ~loads[j].stale => inflight[loads[j].variant] = j
        /\ loads[j].from # None => WaitGood(loads[j], loads[loads[j].from])
        /\ loads[j].variant \in Lists!Variants
    BY <2>1, ListFacts DEF ListInv, LoadsGood
  <2>3. LoadGood(loads[j])'
    BY <1>1, <2>1, <2>2 DEF LoadGood, BornAt
  <2>4. ~loads'[j].stale => inflight'[loads'[j].variant] = j
    BY <1>3, <2>1, <2>2
  <2>5. ASSUME loads'[j].from # None
        PROVE  WaitGood(loads[j], loads[loads[j].from])'
    <3> DEFINE p == loads[j].from
    <3>1. p \in Lists!Ids /\ p # i /\ WaitGood(loads[j], loads[p])
      BY <2>1, <2>2, <2>5, ListFacts
    <3>2. loads[p] # None /\ loads[p].variant = "plain"
      BY <3>1 DEF WaitGood
    <3>3. loads[p].from = None
      BY <3>1, <3>2 DEF ListInv, LoadsGood, LoadGood
    <3>4. loads'[p] = loads[p]
      BY <1>4, <3>1, <3>3, ListConstants
    <3> QED
      BY <2>1, <3>1, <3>4
  <2> QED
    BY <2>3, <2>4, <2>5
<1>7. ASSUME NEW v \in Lists!Variants PROVE Registered(v)' /\ EntryGood(v)'
  <2>1. Registered(v)'
    BY <1>3, <1>4, ListFacts DEF ListInv, Registered
  <2>2. EntryGood(v)'
    BY <1>1 DEF ListInv, EntryGood, BornAt
  <2> QED
    BY <2>1, <2>2
<1>8. QueryKnown'
  <2> SUFFICES ASSUME Lists!Joinable("plain"), queries' > 0 PROVE Lists!Joinable("plain")'
    <3>1. queries' > 0 => queries > 0
      BY <1>1
    <3> QED
      BY <1>1, <3>1 DEF ListInv, QueryKnown
  <2> DEFINE p == inflight["plain"]
  <2>1. /\ p \in Lists!Ids /\ loads[p] # None /\ loads[p].variant = "plain"
        /\ ~loads[p].stale /\ loads[p].from = None
    BY JoinableIs DEF Lists!Variants
  <2>2. p # i
    BY <1>1, <2>1
  <2>3. loads'[p] = loads[p]
    BY <1>4, <2>1, <2>2, ListConstants
  <2>4. inflight'["plain"] = p
    BY <1>3, <2>1, <2>2, ListConstants DEF Lists!Variants
  <2> QED
    BY <2>1, <2>3, <2>4, ListConstants DEF Lists!Joinable
<1>9. AnswerGood'
  BY <1>1 DEF ListInv, AnswerGood, Lists!MaxAge
<1> QED
  BY <1>5, <1>6, <1>7, <1>8, <1>9 DEF ListInv

LEMMA ListStepHolds ==
  ASSUME ListInv, [Lists!Next]_listVars
  PROVE  ListInv'
<1>1. ASSUME UNCHANGED listVars PROVE ListInv'
  <2>1. UNCHANGED <<data, notices, notified, entries, inflight, loads, queries, answer>>
    BY <1>1 DEF listVars
  <2> QED
    BY <2>1 DEF ListInv, ListTypes, LoadsGood, LoadGood, WaitGood, AnswerGood, QueryKnown,
       Registered, EntryGood, BornAt, Lists!Joinable, Lists!MaxAge
<1> QED
  BY <1>1, TickHolds, CommitListHolds, ClearHolds, LoadPlainHolds, LoadPackedFromEntryHolds,
     LoadPackedFromLoadHolds, HitHolds, JoinHolds, ReadHolds, FinishHolds, FailHolds
     DEF Lists!Next

-----------------------------------------------------------------------------
(* The JSON-RPC endpoint.  A call is answered in steps between which       *)
(* blocks are stored, so the invariant says of every step what the call    *)
(* has read by then: how it relates to what was stored when the call was   *)
(* made, and to what is stored by now.  An answer stays good once given.   *)

EndpointPCs ==
  {"idle", "start", "answered", "refused", "read", "floor", "transactions", "samples",
   "from", "to", "hashes"}

\* A block that may be missing, and what a call answers.
Maybe == Endpoint!Blocks \union {None}
Answers ==
  Nat \union {None} \union (SUBSET Endpoint!Blocks) \union Seq(Endpoint!Blocks)
    \union Endpoint!Found

RpcCalls ==
  [pc : EndpointPCs, request : Requests \union {None}, head : Maybe, from : Maybe, to : Maybe,
   rows : SUBSET Endpoint!Blocks, answer : Answers]

Befores == [indexed : SUBSET Endpoint!Blocks, head : Maybe, heard : Maybe]

EndpointTypes ==
  /\ height \in Endpoint!Blocks /\ indexed \in SUBSET Endpoint!Blocks
  /\ forward \in Maybe /\ backfill \in Maybe \union {-1} /\ heard \in Maybe
  /\ rpcCall \in RpcCalls
  /\ rpcCall.pc # "idle" => rpcCall.request \in Requests /\ before \in Befores

\* What the head and what was heard stand for; blocks are only added.
IndexGood ==
  /\ forward # None => forward \in indexed
  /\ heard # None => heard \in indexed /\ forward # None /\ heard <= forward

SinceBefore ==
  rpcCall.pc # "idle" =>
    /\ before.indexed \subseteq indexed
    /\ before.head # None =>
         before.head \in before.indexed /\ forward # None /\ before.head <= forward
    /\ before.heard # None =>
         before.heard \in before.indexed /\ before.head # None /\ before.heard <= before.head

MethodGood ==
  /\ rpcCall.pc \in {"from", "to", "hashes"} => rpcCall.request.method = "logs"
  /\ rpcCall.pc = "floor" => rpcCall.request.method = "balance"
  /\ rpcCall.pc = "transactions" => rpcCall.request.method = "block"
  /\ rpcCall.pc = "samples" => rpcCall.request.method = "fees"

\* What a parameter was resolved to.
Named(tag, b) ==
  /\ tag.kind = "latest" =>
       /\ forward # None /\ b <= forward /\ b \in indexed
       /\ before.head # None => before.head <= b
  /\ tag.kind = "earliest" => b \in indexed
  /\ tag.kind = "number" => b = tag.block
  /\ tag.kind = "hash" => b = tag.block /\ b \in indexed

ParameterGood ==
  /\ rpcCall.pc \in {"read", "transactions", "samples"} /\ rpcCall.request.method # "logs" =>
       rpcCall.to \in Endpoint!Blocks /\ Named(rpcCall.request.to, rpcCall.to)
  /\ rpcCall.pc = "transactions" => rpcCall.to \in indexed

\* How far back a fee history goes.
Reach == IF rpcCall.request.count < FeeSpan THEN rpcCall.request.count ELSE FeeSpan

WindowGood ==
  rpcCall.pc = "samples" =>
    /\ \E b \in rpcCall.rows : b <= rpcCall.to
    /\ \A b \in rpcCall.rows : rpcCall.to - Reach < b
    /\ \A b \in before.indexed : rpcCall.to - Reach < b /\ b <= rpcCall.to => b \in rpcCall.rows

\* The ends of a range of logs.
LowEnd ==
  /\ rpcCall.from \in Endpoint!Blocks
  /\ rpcCall.request.from.kind = "earliest" => \A b \in before.indexed : rpcCall.from <= b
  /\ rpcCall.request.from.kind = "number" => rpcCall.from = rpcCall.request.from.block

HighEnd(c) ==
  LET tag == rpcCall.request.to IN
  /\ c \in Endpoint!Blocks /\ forward # None /\ c <= forward
  /\ tag.kind = "latest" /\ before.head # None => before.head <= c
  /\ tag.kind \in {"number", "hash"} =>
       /\ c <= tag.block
       /\ before.head # None => tag.block <= c \/ before.head <= c

RangeGood ==
  /\ rpcCall.pc \in {"from", "to"} =>
       /\ rpcCall.request.from.kind # "hash"
       /\ rpcCall.head \in Endpoint!Blocks /\ forward # None /\ rpcCall.head <= forward
       /\ before.head # None => before.head <= rpcCall.head
  /\ rpcCall.pc = "to" => LowEnd
  /\ rpcCall.pc \in {"read", "hashes"} /\ rpcCall.request.method = "logs" =>
       IF rpcCall.request.from.kind = "hash"
       THEN /\ rpcCall.from = rpcCall.request.from.block
            /\ rpcCall.to = rpcCall.request.from.block
       ELSE LowEnd /\ HighEnd(rpcCall.to)

\* The logs that were found.
LogsGood ==
  rpcCall.pc = "hashes" =>
    /\ \A b \in rpcCall.rows :
         b \in indexed /\ b \in LogBlocks /\ rpcCall.from <= b /\ b <= rpcCall.to
    /\ \A b \in before.indexed :
         b \in LogBlocks /\ rpcCall.from <= b /\ b <= rpcCall.to => b \in rpcCall.rows

FloorGood ==
  rpcCall.pc = "floor" /\ rpcCall.request.to.kind = "number" =>
    \A b \in before.indexed : b <= rpcCall.request.to.block => b \notin ReadBlocks

CountGood ==
  rpcCall.pc = "answered" /\ rpcCall.request.method = "count" => rpcCall.answer \in Nat

CallGood ==
  /\ MethodGood /\ ParameterGood /\ WindowGood /\ RangeGood /\ LogsGood /\ FloorGood
  /\ CountGood

AnswersGood ==
  Endpoint!LogsComplete /\ Endpoint!ReadsNotBehind /\ Endpoint!HeadHolds /\ Endpoint!FeesAligned

EndpointInv == EndpointTypes /\ IndexGood /\ SinceBefore /\ CallGood /\ AnswersGood

LEMMA EndpointConstants ==
  /\ MaxHeight \in Nat /\ MaxHeight >= 1
  /\ Endpoint!Blocks = 0..MaxHeight /\ Endpoint!Blocks \in SUBSET Nat
  /\ None \notin Int /\ None \notin Endpoint!Found /\ None \notin Endpoint!Blocks
  /\ FeeSpan \in Nat /\ FeeSpan >= 1
  /\ SentBlocks \in SUBSET Endpoint!Blocks /\ ReadBlocks \in SUBSET Endpoint!Blocks
  /\ \A r \in Requests :
       /\ r.method \in Endpoint!Methods /\ r.count \in Nat /\ r.count >= 1
       /\ r.from.kind \in {"latest", "earliest", "number", "hash"}
       /\ r.to.kind \in {"latest", "earliest", "number", "hash"}
       /\ r.from.block \in Endpoint!Blocks /\ r.to.block \in Endpoint!Blocks
<1>1. /\ MaxHeight \in Nat /\ MaxHeight >= 1
      /\ Endpoint!Blocks = 0..MaxHeight /\ Endpoint!Blocks \in SUBSET Nat
      /\ None \notin Int \union Endpoint!Found
      /\ FeeSpan \in Nat /\ FeeSpan >= 1
      /\ SentBlocks \in SUBSET Endpoint!Blocks /\ ReadBlocks \in SUBSET Endpoint!Blocks
  BY EndpointBounds DEF Endpoint!ShadowRpcAssumption, Endpoint!Blocks
<1>2. \A t \in Endpoint!Tags :
        t.kind \in {"latest", "earliest", "number", "hash"} /\ t.block \in Endpoint!Blocks
  BY <1>1 DEF Endpoint!Tags
<1>3. \A r \in Requests :
        /\ r.method \in Endpoint!Methods /\ r.count \in Nat /\ r.count >= 1
        /\ r.from \in Endpoint!Tags /\ r.to \in Endpoint!Tags
  BY EndpointBounds DEF Endpoint!ShadowRpcAssumption
<1> QED
  BY <1>1, <1>2, <1>3

\* The least and the greatest of some blocks.
LEMMA LeastBlockIs ==
  ASSUME NEW S \in SUBSET Endpoint!Blocks, S # {}
  PROVE  Endpoint!Min(S) \in S /\ \A y \in S : Endpoint!Min(S) <= y
<1>1. S \in SUBSET Nat
  BY EndpointConstants
<1>2. \E x \in S : \A y \in S : x <= y
  BY <1>1, LeastIs
<1> QED
  BY <1>2 DEF Endpoint!Min

LEMMA GreatestBlockIs ==
  ASSUME NEW S \in SUBSET Endpoint!Blocks, S # {}
  PROVE  Endpoint!Max(S) \in S /\ \A y \in S : y <= Endpoint!Max(S)
<1> DEFINE T == {MaxHeight - b : b \in S}
<1>1. T \in SUBSET Nat /\ T # {}
  <2>1. \A b \in S : MaxHeight - b \in Nat
    BY EndpointConstants
  <2> QED
    BY <2>1
<1>2. PICK t \in T : \A u \in T : t <= u
  BY <1>1, LeastIs
<1>3. PICK x \in S : t = MaxHeight - x
  BY <1>2
<1>4. ASSUME NEW y \in S PROVE y <= x
  <2>1. MaxHeight - x <= MaxHeight - y
    BY <1>2, <1>3
  <2>2. x \in Nat /\ y \in Nat /\ MaxHeight \in Nat
    BY EndpointConstants
  <2> QED
    BY <2>1, <2>2
<1>5. \A y \in S : x >= y
  BY <1>4, EndpointConstants
<1>6. \E m \in S : \A y \in S : m >= y
  BY <1>5
<1>7. Endpoint!Max(S) \in S /\ \A y \in S : Endpoint!Max(S) >= y
  BY <1>6 DEF Endpoint!Max
<1> QED
  BY <1>7, EndpointConstants

LEMMA EndpointCardinality ==
  \A S : Endpoint!Cardinality(S) = Cardinality(S)
  BY DEF Endpoint!Cardinality, Cardinality

LEMMA BlocksFinite ==
  ASSUME NEW S \in SUBSET Endpoint!Blocks
  PROVE  IsFiniteSet(S) /\ Cardinality(S) \in Nat
<1>1. IsFiniteSet(0..MaxHeight)
  BY FS_Interval, EndpointConstants
<1> QED
  BY <1>1, FS_Subset, FS_CardinalityType, EndpointConstants

\* Nonces grow with what is stored.
LEMMA NonceGrows ==
  ASSUME NEW S \in SUBSET SentBlocks, NEW T \in SUBSET SentBlocks, S \subseteq T
  PROVE  /\ Endpoint!Nonce(S) \in Nat /\ Endpoint!Nonce(T) \in Nat
         /\ Endpoint!Nonce(S) <= Endpoint!Nonce(T)
<1> DEFINE Before(m) == {b \in SentBlocks : b <= m}
<1>1. \A m : IsFiniteSet(Before(m)) /\ Cardinality(Before(m)) \in Nat
  BY BlocksFinite, EndpointConstants
<1>2. CASE S = {}
  BY <1>1, <1>2, EndpointCardinality DEF Endpoint!Nonce
<1>3. CASE S # {}
  <2>1. /\ S \in SUBSET Endpoint!Blocks /\ T \in SUBSET Endpoint!Blocks /\ T # {}
        /\ SentBlocks \in SUBSET Nat
    BY <1>3, EndpointConstants
  <2>2. Endpoint!Max(S) \in T /\ Endpoint!Max(T) \in T /\ Endpoint!Max(S) <= Endpoint!Max(T)
    BY <2>1, <1>3, GreatestBlockIs
  <2>3. Endpoint!Max(S) \in Nat /\ Endpoint!Max(T) \in Nat
    BY <2>1, <2>2, EndpointConstants
  <2>4. Before(Endpoint!Max(S)) \subseteq Before(Endpoint!Max(T))
    <3>1. \A m, n \in Nat : m <= n => \A b \in Nat : b <= m => b <= n
      OBVIOUS
    <3> QED
      BY <2>1, <2>2, <2>3, <3>1, Zenon
  <2>5. Cardinality(Before(Endpoint!Max(S))) <= Cardinality(Before(Endpoint!Max(T)))
    BY <1>1, <2>4, FS_Subset
  <2> QED
    BY <1>1, <1>3, <2>1, <2>5, EndpointCardinality DEF Endpoint!Nonce
<1> QED
  BY <1>2, <1>3

\* A set of blocks in order: every place is taken, and the blocks of an interval have the
\* places they have in it.
Below(b, S) == {c \in S : c < b}

LEMMA EveryPlaceIsTaken ==
  ASSUME NEW S \in SUBSET Endpoint!Blocks, NEW i \in Nat, i < Cardinality(S)
  PROVE  \E b \in S : Cardinality(Below(b, S)) = i
<1> DEFINE Free == {j \in Nat : j < Cardinality(S) /\ ~\E b \in S : Cardinality(Below(b, S)) = j}
<1>1. /\ IsFiniteSet(S) /\ Cardinality(S) \in Nat
      /\ \A b : IsFiniteSet(Below(b, S)) /\ Cardinality(Below(b, S)) \in Nat
  BY BlocksFinite DEF Below
<1>2. SUFFICES ASSUME Free # {} PROVE FALSE
  OBVIOUS
<1>3. PICK j \in Free : \A k \in Free : j <= k
  BY <1>2, LeastIs
<1>4. j \in Nat /\ j < Cardinality(S) /\ \A b \in S : Cardinality(Below(b, S)) # j
  BY <1>3
<1>5. S \in SUBSET Nat
  BY EndpointConstants
<1>6. CASE j = 0
  <2>1. S # {}
    BY <1>4, <1>6, FS_EmptySet
  <2>2. Below(Endpoint!Min(S), S) = {}
    <3>1. Endpoint!Min(S) \in Nat /\ \A y \in S : Endpoint!Min(S) <= y
      BY <1>5, <2>1, LeastBlockIs
    <3>2. \A m \in Nat : (\A y \in S : m <= y) => \A y \in S : ~(y < m)
      BY <1>5
    <3> QED
      BY <3>1, <3>2 DEF Below
  <2> QED
    BY <1>4, <1>6, <2>1, <2>2, LeastBlockIs, FS_EmptySet
<1>7. CASE j # 0
  <2>1. j - 1 \in Nat /\ j - 1 < Cardinality(S) /\ j - 1 \notin Free
    BY <1>1, <1>3, <1>4, <1>7
  <2>2. PICK b \in S : Cardinality(Below(b, S)) = j - 1
    BY <2>1
  <2>3. b \notin Below(b, S) /\ b \in Nat
    BY <1>5 DEF Below
  <2>4. Cardinality(Below(b, S) \union {b}) = j
    <3>1. Cardinality(Below(b, S) \union {b}) = Cardinality(Below(b, S)) + 1
      BY <1>1, <2>3, FS_AddElement
    <3> QED
      BY <1>4, <2>2, <3>1
  <2>5. Below(b, S) \union {b} # S
    BY <1>4, <2>4
  <2> DEFINE Above1 == {c \in S : b < c}
  <2>6. Above1 # {}
    <3>1. PICK c \in S : c \notin Below(b, S) \union {b}
      BY <2>5 DEF Below
    <3>2. c \in Nat /\ ~(c < b) /\ c # b
      BY <1>5, <3>1 DEF Below
    <3> QED
      BY <2>3, <3>1, <3>2
  <2>7. Endpoint!Min(Above1) \in Above1 /\ \A y \in Above1 : Endpoint!Min(Above1) <= y
    BY <2>6, LeastBlockIs
  <2> DEFINE m == Endpoint!Min(Above1)
  <2>8. Below(m, S) = Below(b, S) \union {b}
    <3>1. m \in S /\ m \in Nat /\ b < m /\ \A y \in S : b < y => m <= y
      BY <1>5, <2>7
    <3> HIDE DEF m
    <3>2. \A c \in S : c < m <=> c < b \/ c = b
      BY <1>5, <2>3, <3>1
    <3> QED
      BY <3>2 DEF Below
  <2> QED
    BY <1>4, <2>4, <2>7, <2>8
<1> QED
  BY <1>6, <1>7

LEMMA RankRises ==
  ASSUME NEW S \in SUBSET Endpoint!Blocks, NEW b \in S, NEW c \in S
  PROVE  /\ Cardinality(Below(b, S)) \in Nat /\ Cardinality(Below(b, S)) < Cardinality(S)
         /\ b < c => Cardinality(Below(b, S)) < Cardinality(Below(c, S))
<1>1. /\ IsFiniteSet(S) /\ Cardinality(S) \in Nat
      /\ \A x : IsFiniteSet(Below(x, S)) /\ Cardinality(Below(x, S)) \in Nat
  BY BlocksFinite DEF Below
<1>2. S \in SUBSET Nat /\ b \in Nat /\ c \in Nat /\ b \notin Below(b, S)
  BY EndpointConstants DEF Below
<1>3. Cardinality(Below(b, S) \union {b}) = Cardinality(Below(b, S)) + 1
  BY <1>1, <1>2, FS_AddElement
<1>4. Cardinality(Below(b, S) \union {b}) <= Cardinality(S)
  <2>1. Below(b, S) \union {b} \subseteq S
    BY DEF Below
  <2> QED
    BY <1>1, <2>1, FS_Subset
<1>5. ASSUME b < c PROVE Cardinality(Below(b, S) \union {b}) <= Cardinality(Below(c, S))
  <2>1. \A x \in Nat : x < b => x < c
    BY <1>2, <1>5
  <2>2. Below(b, S) \union {b} \subseteq Below(c, S)
    BY <1>2, <1>5, <2>1 DEF Below
  <2> QED
    BY <1>1, <2>2, FS_Subset
<1> QED
  BY <1>1, <1>3, <1>4, <1>5

LEMMA RankIsUnique ==
  ASSUME NEW S \in SUBSET Endpoint!Blocks, NEW b \in S, NEW c \in S,
         Cardinality(Below(b, S)) = Cardinality(Below(c, S))
  PROVE  b = c
<1>1. b \in Nat /\ c \in Nat
  BY EndpointConstants
<1>2. ~(b < c) /\ ~(c < b)
  BY RankRises
<1> QED
  BY <1>1, <1>2

LEMMA InOrderIs ==
  ASSUME NEW S \in SUBSET Endpoint!Blocks, S # {}, NEW w, w = Endpoint!InOrder(S),
         NEW n, n = Cardinality(S)
  PROVE  /\ n \in Nat /\ n >= 1 /\ w \in [1..n -> S]
         /\ \A b \in S : \E i \in 1..n : w[i] = b
         /\ \A b \in S : w[1] <= b /\ b <= w[n]
         /\ (\A b \in Nat : w[1] <= b /\ b <= w[n] => b \in S)
              => \A i \in 1..n : w[i] = w[1] + i - 1
<1>1. n \in Nat /\ n >= 1
  <2>1. n \in Nat /\ n # 0
    BY BlocksFinite, FS_EmptySet
  <2> QED
    BY <2>1
<1>2. \A i \in 1..n : w[i] \in S /\ Cardinality(Below(w[i], S)) = i - 1
  <2> SUFFICES ASSUME NEW i \in 1..n
               PROVE  w[i] \in S /\ Cardinality(Below(w[i], S)) = i - 1
    OBVIOUS
  <2>1. i - 1 \in Nat /\ i - 1 < Cardinality(S)
    BY <1>1
  <2>2. \E b \in S : Cardinality(Below(b, S)) = i - 1
    BY <2>1, EveryPlaceIsTaken
  <2>3. w[i] = CHOOSE b \in S : Cardinality(Below(b, S)) = i - 1
    BY EndpointCardinality, Zenon DEF Endpoint!InOrder, Below
  <2> QED
    BY <2>2, <2>3
<1>3. w \in [1..n -> S]
  <2>1. n = Endpoint!Cardinality(S)
    BY EndpointCardinality
  <2>2. w = [i \in 1..n |-> CHOOSE b \in S : Endpoint!Cardinality({c \in S : c < b}) = i - 1]
    BY <2>1 DEF Endpoint!InOrder
  <2> QED
    BY <1>2, <2>2
<1>4. S \in SUBSET Nat
  BY EndpointConstants
<1>5. ASSUME NEW b \in S PROVE \E i \in 1..n : w[i] = b
  <2> DEFINE r == Cardinality(Below(b, S))
  <2>1. r \in Nat /\ r < n
    BY RankRises
  <2>2. r + 1 \in 1..n /\ (r + 1) - 1 = r
    BY <1>1, <2>1
  <2>3. w[r + 1] \in S /\ Cardinality(Below(w[r + 1], S)) = r
    BY <1>2, <2>2
  <2>4. w[r + 1] = b
    BY <2>3, RankIsUnique
  <2> QED
    BY <2>2, <2>4
<1>6. ASSUME NEW i \in 1..n, NEW j \in 1..n, i <= j PROVE w[i] <= w[j]
  <2>1. w[i] \in S /\ w[j] \in S /\ w[i] \in Nat /\ w[j] \in Nat
    BY <1>2, <1>4
  <2>2. ~(Cardinality(Below(w[j], S)) < Cardinality(Below(w[i], S)))
    BY <1>1, <1>2, <1>6
  <2>3. ~(w[j] < w[i])
    BY <2>1, <2>2, RankRises
  <2> QED
    BY <2>1, <2>3
<1>7. ASSUME NEW b \in S PROVE w[1] <= b /\ b <= w[n]
  <2>1. PICK i \in 1..n : w[i] = b
    BY <1>5
  <2>2. 1 \in 1..n /\ n \in 1..n /\ 1 <= i /\ i <= n
    BY <1>1
  <2> QED
    BY <1>6, <2>1, <2>2
<1>8. ASSUME \A b \in Nat : w[1] <= b /\ b <= w[n] => b \in S, NEW i \in 1..n
      PROVE  w[i] = w[1] + i - 1
  <2> DEFINE m == w[i]
             l == w[1]
             h == w[n]
  <2>1. /\ m \in S /\ l \in S /\ m \in Nat /\ l \in Nat /\ h \in Nat /\ l <= m /\ m <= h
        /\ Cardinality(Below(m, S)) = i - 1
    <3>1. 1 \in 1..n /\ n \in 1..n
      BY <1>1
    <3>2. m \in S /\ l \in S /\ h \in S /\ Cardinality(Below(m, S)) = i - 1
      BY <1>2, <3>1
    <3>3. l <= m /\ m <= h
      BY <1>7, <3>2
    <3> QED
      BY <1>4, <3>2, <3>3
  <2>2. \A b \in S : l <= b
    BY <1>7
  <2>3. \A b \in Nat : l <= b /\ b <= h => b \in S
    BY <1>8
  <2> HIDE DEF m, l, h
  <2>4. Below(m, S) = l..(m - 1)
    <3>1. \A b \in Below(m, S) : b \in l..(m - 1)
      BY <1>4, <2>1, <2>2 DEF Below
    <3>2. \A b \in l..(m - 1) : b \in Below(m, S)
      BY <2>1, <2>3 DEF Below
    <3> QED
      BY <3>1, <3>2
  <2>5. Cardinality(l..(m - 1)) = m - l
    <3>1. l \in Int /\ m - 1 \in Int
      BY <2>1
    <3>2. Cardinality(l..(m - 1)) = IF l > m - 1 THEN 0 ELSE (m - 1) - l + 1
      BY <3>1, FS_Interval
    <3> QED
      BY <2>1, <3>2
  <2>6. m - l = i - 1
    BY <2>1, <2>4, <2>5
  <2>7. m = l + i - 1
    BY <1>1, <2>1, <2>6
  <2> QED
    BY <2>7 DEF m, l
<1> QED
  BY <1>1, <1>3, <1>5, <1>7, <1>8

LEMMA EndpointInvImplies ==
  ASSUME EndpointInv
  PROVE  /\ Endpoint!TypeOK /\ Endpoint!LogsComplete /\ Endpoint!ReadsNotBehind
         /\ Endpoint!HeadHolds /\ Endpoint!FeesAligned
<1>1. /\ height \in Endpoint!Blocks /\ indexed \subseteq Endpoint!Blocks
      /\ forward \in Maybe /\ backfill \in Maybe \union {-1} /\ heard \in Maybe
  BY DEF EndpointInv, EndpointTypes
<1>2. rpcCall.rows \subseteq Endpoint!Blocks /\ {rpcCall.head, rpcCall.from, rpcCall.to} \subseteq Maybe
  BY DEF EndpointInv, EndpointTypes, RpcCalls
<1>3. Endpoint!TypeOK
  BY <1>1, <1>2 DEF Endpoint!TypeOK, Maybe
<1> QED
  BY <1>3 DEF EndpointInv, AnswersGood

LEMMA EndpointStarts ==
  ASSUME Endpoint!Init
  PROVE  EndpointInv
<1>1. /\ height = MaxHeight - 1 /\ indexed = {} /\ forward = None /\ backfill = None
      /\ heard = None /\ rpcCall = Endpoint!NoCall
  BY DEF Endpoint!Init, Endpoint!Chain!Init
<1>2. rpcCall \in RpcCalls /\ rpcCall.pc = "idle"
  BY <1>1 DEF Endpoint!NoCall, RpcCalls, Maybe, Answers, EndpointPCs
<1>3. EndpointTypes
  BY <1>1, <1>2, EndpointConstants DEF EndpointTypes, Maybe
<1>4. IndexGood /\ SinceBefore /\ CallGood
  BY <1>1, <1>2 DEF IndexGood, SinceBefore, CallGood, MethodGood, ParameterGood, WindowGood,
     RangeGood, LogsGood, FloorGood, CountGood
<1>5. AnswersGood
  BY <1>2 DEF AnswersGood, Endpoint!LogsComplete, Endpoint!ReadsNotBehind, Endpoint!HeadHolds,
     Endpoint!FeesAligned, Endpoint!Answered, Endpoint!Asked, Endpoint!At
<1> QED
  BY <1>3, <1>4, <1>5 DEF EndpointInv

-----------------------------------------------------------------------------
(* Blocks are stored. *)

LEMMA ChainMoves ==
  ASSUME EndpointTypes, IndexGood, Endpoint!ChainStep
  PROVE  /\ height' \in Endpoint!Blocks /\ indexed' \in SUBSET Endpoint!Blocks
         /\ forward' \in Maybe /\ backfill' \in Maybe \union {-1}
         /\ indexed \subseteq indexed'
         /\ forward # None => forward' # None /\ forward <= forward'
         /\ forward' # None => forward' \in indexed'
         /\ UNCHANGED <<rpcCall, before, heard>>
<1>1. UNCHANGED <<rpcCall, before, heard>>
  BY DEF Endpoint!ChainStep
<1>2. CASE height < MaxHeight /\ Endpoint!Chain!Grow
  BY <1>1, <1>2, EndpointConstants
     DEF Endpoint!Chain!Grow, EndpointTypes, IndexGood, Maybe
<1>3. CASE \E b \in Endpoint!Blocks : forward' = b /\ Endpoint!Chain!IndexForward
  BY <1>1, <1>3, EndpointConstants
     DEF Endpoint!Chain!IndexForward, EndpointTypes, IndexGood, Maybe
<1>4. CASE \E b \in Endpoint!Blocks : backfill' = b - 1 /\ Endpoint!Chain!IndexBackward
  <2>1. PICK b \in Endpoint!Blocks : backfill' = b - 1 /\ Endpoint!Chain!IndexBackward
    BY <1>4
  <2>2. /\ b - 1 \in Endpoint!Blocks \union {-1} /\ backfill' + 1 = b
        /\ \A f \in Endpoint!Blocks : f <= f
    BY <2>1, EndpointConstants
  <2> QED
    BY <1>1, <2>1, <2>2 DEF Endpoint!Chain!IndexBackward, EndpointTypes, IndexGood, Maybe
<1>5. CASE \E b \in Endpoint!Blocks : indexed' = indexed \cup {b} /\ Endpoint!Chain!FillHole
  <2>1. \A f \in Endpoint!Blocks : f <= f
    BY EndpointConstants
  <2> QED
    BY <1>1, <1>5, <2>1 DEF Endpoint!Chain!FillHole, EndpointTypes, IndexGood, Maybe
<1> QED
  BY <1>2, <1>3, <1>4, <1>5 DEF Endpoint!ChainStep

LEMMA ChainKeepsCall ==
  ASSUME EndpointInv, Endpoint!ChainStep
  PROVE  EndpointTypes' /\ IndexGood' /\ SinceBefore' /\ CallGood'
<1>1. /\ EndpointTypes /\ IndexGood /\ SinceBefore /\ CallGood
      /\ height' \in Endpoint!Blocks /\ indexed' \in SUBSET Endpoint!Blocks
      /\ forward' \in Maybe /\ backfill' \in Maybe \union {-1}
      /\ indexed \subseteq indexed'
      /\ forward # None => forward' # None /\ forward <= forward'
      /\ forward' # None => forward' \in indexed'
      /\ rpcCall' = rpcCall /\ before' = before /\ heard' = heard
  BY ChainMoves DEF EndpointInv
<1>2. EndpointTypes'
  BY <1>1 DEF EndpointTypes
\* What is no higher than the head stays so.
<1>3. \A b \in Endpoint!Blocks : forward # None /\ b <= forward => b <= forward'
  BY <1>1, EndpointConstants DEF EndpointTypes, Maybe
<1>4. IndexGood' /\ SinceBefore'
  <2>1. IndexGood'
    BY <1>1, <1>3, EndpointConstants DEF IndexGood, EndpointTypes, Maybe
  <2>2. rpcCall.pc # "idle" => before \in Befores
    BY <1>1 DEF EndpointTypes
  <2>3. rpcCall.pc # "idle" /\ before.head # None => before.head \in Endpoint!Blocks
    BY <2>2 DEF Befores, Maybe
  <2>4. SinceBefore'
    BY <1>1, <1>3, <2>3 DEF SinceBefore
  <2> QED
    BY <2>1, <2>4
<1>5. MethodGood' /\ WindowGood' /\ LogsGood' /\ FloorGood' /\ CountGood'
  BY <1>1 DEF CallGood, CountGood, MethodGood, WindowGood, LogsGood, FloorGood, Reach
<1>6. ParameterGood'
  BY <1>1, <1>3 DEF CallGood, ParameterGood, Named
<1>7. RangeGood'
  <2>1. LowEnd => LowEnd'
    BY <1>1 DEF LowEnd
  <2>2. HighEnd(rpcCall.to) => HighEnd(rpcCall.to)'
    BY <1>1, <1>3 DEF HighEnd
  <2> QED
    BY <1>1, <1>3, <2>1, <2>2 DEF CallGood, RangeGood
<1> QED
  BY <1>2, <1>4, <1>5, <1>6, <1>7 DEF CallGood

\* A block parameter now names at least what it did.
LEMMA ResolveGrows ==
  ASSUME EndpointInv, Endpoint!ChainStep, rpcCall.pc # "idle",
         rpcCall.request.to \in Endpoint!Tags, rpcCall.request.to.kind # "earliest",
         Endpoint!Least(rpcCall.request.to) # None
  PROVE  /\ Endpoint!Resolve(rpcCall.request.to) \in Endpoint!Blocks
         /\ Endpoint!Resolve(rpcCall.request.to)' \in Endpoint!Blocks
         /\ Endpoint!Resolve(rpcCall.request.to) <= Endpoint!Resolve(rpcCall.request.to)'
<1> DEFINE tag == rpcCall.request.to
<1>1. /\ forward \in Maybe /\ forward' \in Maybe /\ tag' = tag
      /\ forward # None => forward' # None /\ forward <= forward'
  BY ChainMoves DEF EndpointInv, EndpointTypes
<1>2. CASE tag.kind = "latest"
  <2>1. forward # None
    BY <1>2 DEF EndpointInv, SinceBefore, Endpoint!Least
  <2> QED
    BY <1>1, <1>2, <2>1 DEF Endpoint!Resolve, Endpoint!indexedHead, Maybe
<1>3. CASE tag.kind # "latest"
  <2>1. tag.block \in Endpoint!Blocks /\ tag.block <= tag.block
    BY EndpointConstants DEF Endpoint!Tags
  <2> QED
    BY <1>1, <1>3, <2>1 DEF Endpoint!Resolve
<1> QED
  BY <1>2, <1>3

LEMMA ChainKeepsAnswers ==
  ASSUME EndpointInv, Endpoint!ChainStep
  PROVE  AnswersGood'
<1>1. /\ indexed \in SUBSET Endpoint!Blocks /\ indexed' \in SUBSET Endpoint!Blocks
      /\ indexed \subseteq indexed'
      /\ rpcCall' = rpcCall /\ before' = before /\ heard' = heard
  BY ChainMoves DEF EndpointInv, EndpointTypes
<1>2. ASSUME rpcCall.pc # "idle"
      PROVE  /\ rpcCall.request \in Requests /\ rpcCall.request.from \in Endpoint!Tags
             /\ rpcCall.request.to \in Endpoint!Tags /\ rpcCall.request.to.kind = rpcCall.request.to.kind
  <2>1. rpcCall.request \in Requests
    BY <1>2 DEF EndpointInv, EndpointTypes
  <2> QED
    BY <2>1, EndpointBounds DEF Endpoint!ShadowRpcAssumption
<1>3. \A tag : Endpoint!Least(tag)' = Endpoint!Least(tag)
  BY <1>1 DEF Endpoint!Least
<1>4. Endpoint!HeadHolds' /\ Endpoint!FeesAligned'
  BY <1>1 DEF EndpointInv, AnswersGood, Endpoint!HeadHolds, Endpoint!FeesAligned,
     Endpoint!Answered, Endpoint!Asked, Endpoint!At, Endpoint!Entries
<1>5. ASSUME NEW low \in Int, NEW high \in Int, NEW top \in Int, high <= top
      PROVE  Endpoint!Matching(indexed, low, high) \subseteq Endpoint!Matching(indexed', low, top)
  BY <1>1, <1>5, EndpointConstants DEF Endpoint!Matching
<1>6. Endpoint!LogsComplete'
  <2> DEFINE from == rpcCall.request.from
             to == rpcCall.request.to
             low == IF from.kind = "earliest" THEN 0 ELSE from.block
             high == IF from.kind = "hash" THEN from.block ELSE Endpoint!Resolve(to)
             first == IF from.kind = "hash" THEN from.block ELSE Endpoint!Least(to)
             top == IF from.kind = "hash" THEN from.block ELSE before.head
             Lower == top # None =>
               Endpoint!Matching(before.indexed, low, IF first < top THEN first ELSE top)
                 \subseteq rpcCall.answer
  <2>1. SUFFICES ASSUME Endpoint!At("answered"), Endpoint!Asked("logs"), from.kind # "latest",
                        to.kind # "earliest", Endpoint!Least(to) # None
                 PROVE  /\ rpcCall.answer \subseteq Endpoint!Matching(indexed', low, high')
                        /\ Lower
    BY <1>1, <1>3 DEF Endpoint!LogsComplete, Endpoint!Answered, Endpoint!Asked, Endpoint!At,
       Endpoint!Matching
  <2>2. rpcCall.answer \subseteq Endpoint!Matching(indexed, low, high) /\ Lower
    BY <2>1 DEF EndpointInv, AnswersGood, Endpoint!LogsComplete, Endpoint!Answered
  <2>3. rpcCall.pc # "idle" /\ from \in Endpoint!Tags /\ to \in Endpoint!Tags
    BY <2>1, <1>2 DEF Endpoint!Asked, Endpoint!At
  <2>4. low \in Int /\ from.block \in Int /\ from' = from
    BY <2>3, <1>1, EndpointConstants DEF Endpoint!Tags
  <2>5. Endpoint!Resolve(to) \in Int /\ Endpoint!Resolve(to)' \in Int
        /\ Endpoint!Resolve(to) <= Endpoint!Resolve(to)'
    BY <2>1, <2>3, ResolveGrows, EndpointConstants
  <2>6. high' = IF from.kind = "hash" THEN from.block ELSE Endpoint!Resolve(to)'
    BY <1>1
  <2>7. high \in Int /\ high' \in Int /\ high <= high'
    BY <2>4, <2>5, <2>6
  <2> HIDE DEF low, high
  <2>8. Endpoint!Matching(indexed, low, high) \subseteq Endpoint!Matching(indexed', low, high')
    BY <1>5, <2>4, <2>7
  <2> QED
    BY <2>2, <2>8
<1>7. Endpoint!ReadsNotBehind'
  <2> DEFINE tag == rpcCall.request.to
             S == Endpoint!UpTo(indexed, Endpoint!Resolve(tag)) \cap SentBlocks
             T == Endpoint!UpTo(indexed', Endpoint!Resolve(tag)') \cap SentBlocks
  <2>1. ASSUME Endpoint!Answered("count"), tag.kind # "earliest", Endpoint!Least(tag) # None
        PROVE  /\ Endpoint!Nonce(Endpoint!UpTo(before.indexed, Endpoint!Least(tag)) \cap SentBlocks)
                    <= rpcCall.answer
               /\ rpcCall.answer <= Endpoint!Nonce(T)
    <3>1. /\ Endpoint!Nonce(Endpoint!UpTo(before.indexed, Endpoint!Least(tag)) \cap SentBlocks)
               <= rpcCall.answer
          /\ rpcCall.answer <= Endpoint!Nonce(S)
      BY <2>1 DEF EndpointInv, AnswersGood, Endpoint!ReadsNotBehind
    <3>2. rpcCall.pc # "idle" /\ tag \in Endpoint!Tags
      BY <2>1, <1>2 DEF Endpoint!Answered, Endpoint!Asked, Endpoint!At
    <3>3. /\ Endpoint!Resolve(tag) \in Endpoint!Blocks /\ Endpoint!Resolve(tag)' \in Endpoint!Blocks
          /\ Endpoint!Resolve(tag) <= Endpoint!Resolve(tag)'
      BY <2>1, <3>2, ResolveGrows
    <3>4. S \subseteq T
      <4>1. \A b, m, n \in Nat : b <= m /\ m <= n => b <= n
        OBVIOUS
      <4> QED
        BY <1>1, <3>3, <4>1, EndpointConstants, Zenon DEF Endpoint!UpTo
    <3>5. rpcCall.answer \in Nat
      BY <2>1 DEF EndpointInv, CallGood, CountGood, Endpoint!Answered, Endpoint!Asked, Endpoint!At
    <3>6. Endpoint!Nonce(S) \in Nat /\ Endpoint!Nonce(T) \in Nat
          /\ Endpoint!Nonce(S) <= Endpoint!Nonce(T)
      <4>1. S \in SUBSET SentBlocks /\ T \in SUBSET SentBlocks
        OBVIOUS
      <4> QED
        BY <3>4, <4>1, NonceGrows
    <3> QED
      BY <3>1, <3>5, <3>6
  <2> QED
    BY <1>1, <1>3, <2>1 DEF EndpointInv, AnswersGood, Endpoint!ReadsNotBehind,
       Endpoint!Answered, Endpoint!Asked, Endpoint!At
<1> QED
  BY <1>4, <1>6, <1>7 DEF AnswersGood

-----------------------------------------------------------------------------
(* A step of the call. *)

\* What a step of the call finds, and what it leaves as it was.
LEMMA CallFacts ==
  ASSUME EndpointInv, rpcCall.pc # "idle"
  PROVE  /\ rpcCall \in RpcCalls /\ rpcCall.request \in Requests /\ before \in Befores
         /\ rpcCall.request.method \in Endpoint!Methods /\ rpcCall.request.count \in Nat
         /\ rpcCall.request.count >= 1
         /\ rpcCall.request.from.kind \in {"latest", "earliest", "number", "hash"}
         /\ rpcCall.request.to.kind \in {"latest", "earliest", "number", "hash"}
         /\ rpcCall.request.from.block \in Endpoint!Blocks
         /\ rpcCall.request.to.block \in Endpoint!Blocks
         /\ indexed \in SUBSET Endpoint!Blocks /\ forward \in Maybe /\ heard \in Maybe
         /\ before.indexed \in SUBSET Endpoint!Blocks /\ before.head \in Maybe
         /\ before.heard \in Maybe /\ before.indexed \subseteq indexed
         /\ forward # None => forward \in indexed
         /\ before.head # None =>
              before.head \in before.indexed /\ forward # None /\ before.head <= forward
         /\ before.heard # None =>
              before.heard \in before.indexed /\ before.head # None /\ before.heard <= before.head
         /\ CallGood /\ AnswersGood
<1>1. /\ rpcCall \in RpcCalls /\ rpcCall.request \in Requests /\ before \in Befores
      /\ indexed \in SUBSET Endpoint!Blocks /\ forward \in Maybe /\ heard \in Maybe
  BY DEF EndpointInv, EndpointTypes
<1>2. /\ before.indexed \in SUBSET Endpoint!Blocks /\ before.head \in Maybe
      /\ before.heard \in Maybe
  BY <1>1 DEF Befores
<1> QED
  BY <1>1, <1>2, EndpointConstants DEF EndpointInv, IndexGood, SinceBefore

LEMMA FrameHolds ==
  ASSUME EndpointInv, rpcCall.pc # "idle", UNCHANGED <<height, indexed, forward, backfill, before>>,
         heard' = heard \/ (heard' = forward /\ forward # None),
         rpcCall' \in RpcCalls, rpcCall'.request = rpcCall.request
  PROVE  EndpointTypes' /\ IndexGood' /\ SinceBefore'
<1>1. /\ height \in Endpoint!Blocks /\ indexed \in SUBSET Endpoint!Blocks
      /\ forward \in Maybe /\ backfill \in Maybe \union {-1} /\ heard \in Maybe
      /\ rpcCall.request \in Requests /\ before \in Befores
  BY DEF EndpointInv, EndpointTypes
<1>2. EndpointTypes'
  BY <1>1 DEF EndpointTypes
<1>3. IndexGood'
  <2>1. \A f \in Endpoint!Blocks : f <= f
    BY EndpointConstants
  <2> QED
    BY <1>1, <2>1 DEF EndpointInv, IndexGood, Maybe
<1>4. SinceBefore'
  BY DEF EndpointInv, SinceBefore
<1> QED
  BY <1>2, <1>3, <1>4

LEMMA GotoIs ==
  ASSUME rpcCall \in RpcCalls, NEW p \in EndpointPCs, Endpoint!Goto(p)
  PROVE  /\ rpcCall' \in RpcCalls /\ rpcCall'.pc = p /\ rpcCall'.request = rpcCall.request
         /\ rpcCall'.head = rpcCall.head /\ rpcCall'.from = rpcCall.from
         /\ rpcCall'.to = rpcCall.to /\ rpcCall'.rows = rpcCall.rows
  BY DEF Endpoint!Goto, RpcCalls

LEMMA AnswerIs ==
  ASSUME rpcCall \in RpcCalls, NEW a \in Answers, Endpoint!Answer(a)
  PROVE  /\ rpcCall' \in RpcCalls /\ rpcCall'.pc = "answered"
         /\ rpcCall'.request = rpcCall.request /\ rpcCall'.answer = a
  BY DEF Endpoint!Answer, RpcCalls, EndpointPCs

LEMMA RefuseIs ==
  ASSUME rpcCall \in RpcCalls, Endpoint!Refuse
  PROVE  /\ rpcCall' \in RpcCalls /\ rpcCall'.pc = "refused"
         /\ rpcCall'.request = rpcCall.request
  BY DEF Endpoint!Refuse, RpcCalls, EndpointPCs

\* Nothing is answered yet.
LEMMA NoAnswerYet ==
  ASSUME rpcCall'.pc \notin {"answered", "refused"}
  PROVE  AnswersGood' /\ CountGood'
  BY DEF AnswersGood, CountGood, Endpoint!LogsComplete, Endpoint!ReadsNotBehind,
     Endpoint!HeadHolds, Endpoint!FeesAligned, Endpoint!Answered, Endpoint!At

\* An answer is good if it is good for its method.
LEMMA AnswerHolds ==
  ASSUME EndpointInv, rpcCall.pc # "idle", UNCHANGED <<height, indexed, forward, backfill, before>>,
         heard' = heard \/ (heard' = forward /\ forward # None), NEW a \in Answers,
         Endpoint!Answer(a),
         rpcCall.request.method = "logs" => Endpoint!LogsComplete',
         rpcCall.request.method = "count" => a \in Nat,
         rpcCall.request.method \in {"count", "balance", "block"} => Endpoint!ReadsNotBehind',
         rpcCall.request.method = "block" => Endpoint!HeadHolds',
         rpcCall.request.method = "fees" => Endpoint!FeesAligned'
  PROVE  EndpointInv'
<1>1. /\ rpcCall' \in RpcCalls /\ rpcCall'.pc = "answered"
      /\ rpcCall'.request = rpcCall.request /\ rpcCall'.answer = a
  BY AnswerIs, CallFacts
<1>2. CallGood'
  BY <1>1 DEF CallGood, MethodGood, ParameterGood, WindowGood, RangeGood, LogsGood, FloorGood,
     CountGood
<1>3. Endpoint!LogsComplete'
  BY <1>1 DEF Endpoint!LogsComplete, Endpoint!Answered, Endpoint!Asked
<1>4. Endpoint!ReadsNotBehind'
  BY <1>1 DEF Endpoint!ReadsNotBehind, Endpoint!Answered, Endpoint!Asked
<1>5. Endpoint!HeadHolds' /\ Endpoint!FeesAligned'
  BY <1>1 DEF Endpoint!HeadHolds, Endpoint!FeesAligned, Endpoint!Answered, Endpoint!Asked
<1> QED
  BY <1>1, <1>2, <1>3, <1>4, <1>5, FrameHolds DEF EndpointInv, AnswersGood

LEMMA RefuseHolds ==
  ASSUME EndpointInv, rpcCall.pc # "idle",
         UNCHANGED <<height, indexed, forward, backfill, before, heard>>, Endpoint!Refuse,
         rpcCall.request.method = "balance" /\ rpcCall.request.to.kind = "number" =>
           \A b \in before.indexed : b <= rpcCall.request.to.block => b \notin ReadBlocks
  PROVE  EndpointInv'
<1>1. /\ rpcCall' \in RpcCalls /\ rpcCall'.pc = "refused"
      /\ rpcCall'.request = rpcCall.request
  BY RefuseIs, CallFacts
<1>2. CallGood'
  BY <1>1 DEF CallGood, MethodGood, ParameterGood, WindowGood, RangeGood, LogsGood, FloorGood,
     CountGood
<1>3. AnswersGood'
  BY <1>1 DEF AnswersGood, Endpoint!LogsComplete, Endpoint!ReadsNotBehind, Endpoint!HeadHolds,
     Endpoint!FeesAligned, Endpoint!Answered, Endpoint!Asked, Endpoint!At, Endpoint!UpTo
<1> QED
  BY <1>1, <1>2, <1>3, FrameHolds DEF EndpointInv

-----------------------------------------------------------------------------
(* The head, and the block parameter of the other methods. *)

LEMMA AnswerHeadHolds ==
  ASSUME EndpointInv, Endpoint!AnswerHead
  PROVE  EndpointInv'
<1> DEFINE a == IF forward = None THEN 0 ELSE forward
<1>1. /\ rpcCall.pc # "idle" /\ rpcCall.request.method = "blockNumber" /\ Endpoint!Answer(a)
      /\ UNCHANGED <<height, indexed, forward, backfill, before>>
      /\ heard' = heard \/ (heard' = forward /\ forward # None)
  BY DEF Endpoint!AnswerHead, Endpoint!At, Endpoint!Asked, Endpoint!indexedHead, Endpoint!chain
<1>2. a \in Answers
  BY <1>1, CallFacts, EndpointConstants DEF Answers, Maybe
<1> HIDE DEF a
<1> QED
  BY <1>1, <1>2, AnswerHolds

\* A call that goes on is good if what its next step expects holds.
LEMMA MoveHolds ==
  ASSUME EndpointInv, rpcCall.pc # "idle",
         UNCHANGED <<height, indexed, forward, backfill, before, heard>>,
         rpcCall' \in RpcCalls, rpcCall'.request = rpcCall.request,
         rpcCall'.pc \notin {"answered", "refused"},
         MethodGood', ParameterGood', WindowGood', RangeGood', LogsGood', FloorGood'
  PROVE  EndpointInv'
<1>1. AnswersGood' /\ CountGood'
  BY NoAnswerYet
<1>2. EndpointTypes' /\ IndexGood' /\ SinceBefore'
  BY FrameHolds
<1> QED
  BY <1>1, <1>2 DEF EndpointInv, CallGood

\* What a parameter resolves to; nothing, only if nothing was stored before.
LEMMA ResolvesTo ==
  ASSUME EndpointInv, rpcCall.pc # "idle", NEW tag, tag.block \in Endpoint!Blocks,
         tag.kind \in {"latest", "earliest", "number", "hash"}, ~Endpoint!UnknownHash(tag)
  PROVE  /\ Endpoint!Resolve(tag) = None =>
              /\ tag.kind \in {"latest", "earliest"} /\ Endpoint!Least(tag) = None
              /\ tag.kind = "latest" => before.head = None
              /\ forward = None
         /\ Endpoint!Resolve(tag) # None =>
              Endpoint!Resolve(tag) \in Endpoint!Blocks /\ Named(tag, Endpoint!Resolve(tag))
<1>1. /\ forward \in Maybe /\ indexed \in SUBSET Endpoint!Blocks
      /\ forward # None => forward \in indexed
      /\ before.indexed \subseteq indexed
      /\ before.head # None => forward # None /\ before.head <= forward
  BY CallFacts
<1>2. None \notin Endpoint!Blocks /\ \A b \in Endpoint!Blocks : b <= b
  BY EndpointConstants
<1>3. CASE tag.kind = "latest"
  BY <1>1, <1>2, <1>3
     DEF Endpoint!Resolve, Endpoint!indexedHead, Endpoint!Least, Named, Maybe
<1>4. CASE tag.kind = "earliest"
  <2>1. CASE indexed = {}
    BY <1>1, <1>4, <2>1
       DEF Endpoint!Resolve, Endpoint!MinStoredBlock, Endpoint!Least
  <2>2. CASE indexed # {}
    <3>1. Endpoint!Min(indexed) \in indexed
      BY <1>1, <2>2, LeastBlockIs
    <3> QED
      BY <1>1, <1>2, <1>4, <2>2, <3>1
         DEF Endpoint!Resolve, Endpoint!MinStoredBlock, Named
  <2> QED
    BY <2>1, <2>2
<1>5. CASE tag.kind \in {"number", "hash"}
  BY <1>2, <1>5 DEF Endpoint!Resolve, Endpoint!UnknownHash, Named
<1> QED
  BY <1>3, <1>4, <1>5

\* The block that was read lies between what the parameter named and what it names by now.
LEMMA ReadIsBetween ==
  ASSUME EndpointInv, rpcCall.pc # "idle", NEW tag, tag.block \in Endpoint!Blocks,
         tag.kind \in {"latest", "number", "hash"},
         NEW b \in Endpoint!Blocks, Named(tag, b), Endpoint!Least(tag) # None
  PROVE  /\ Endpoint!Least(tag) \in Endpoint!Blocks /\ Endpoint!Least(tag) <= b
         /\ Endpoint!Resolve(tag) \in Endpoint!Blocks /\ b <= Endpoint!Resolve(tag)
<1>1. forward \in Maybe /\ before.head \in Maybe
  BY CallFacts
<1>2. b <= b
  BY EndpointConstants
<1> QED
  BY <1>1, <1>2
     DEF Endpoint!Resolve, Endpoint!indexedHead, Endpoint!Least, Named, Maybe

LEMMA ResolveBlockTagHolds ==
  ASSUME EndpointInv, Endpoint!ResolveBlockTag
  PROVE  EndpointInv'
<1> DEFINE tag == rpcCall.request.to
           method == rpcCall.request.method
<1>1. /\ rpcCall.pc = "start" /\ rpcCall.pc # "idle"
      /\ method \in {"count", "balance", "block", "fees"}
      /\ UNCHANGED <<height, indexed, forward, backfill, before, heard>>
  <2>1. /\ rpcCall.pc = "start" /\ rpcCall.pc # "idle"
        /\ method \notin {"blockNumber", "logs"}
        /\ UNCHANGED <<height, indexed, forward, backfill, before, heard>>
    BY DEF Endpoint!ResolveBlockTag, Endpoint!At, Endpoint!Asked, Endpoint!chain
  <2>2. method \in Endpoint!Methods
    BY <2>1, CallFacts
  <2> QED
    BY <2>1, <2>2 DEF Endpoint!Methods
<1>2. /\ tag.block \in Endpoint!Blocks /\ rpcCall \in RpcCalls
      /\ tag.kind \in {"latest", "earliest", "number", "hash"}
  BY <1>1, CallFacts
<1>3. CASE method = "count" /\ tag.kind = "earliest"
  <2>1. Endpoint!Answer(0)
    BY <1>1, <1>3 DEF Endpoint!ResolveBlockTag, Endpoint!Asked, Endpoint!At
  <2>2. 0 \in Answers /\ 0 \in Nat
    BY DEF Answers
  <2>3. rpcCall'.request = rpcCall.request
    BY <1>2, <2>1, <2>2, AnswerIs
  <2>4. Endpoint!ReadsNotBehind'
    BY <1>3, <2>3 DEF Endpoint!ReadsNotBehind, Endpoint!Answered, Endpoint!Asked
  <2> QED
    BY <1>1, <1>3, <2>1, <2>2, <2>4, AnswerHolds
<1>4. CASE ~(method = "count" /\ tag.kind = "earliest") /\ Endpoint!UnknownHash(tag)
  <2>1. Endpoint!Refuse
    BY <1>1, <1>4 DEF Endpoint!ResolveBlockTag, Endpoint!Asked, Endpoint!At
  <2>2. tag.kind = "hash"
    BY <1>4 DEF Endpoint!UnknownHash
  <2> QED
    BY <1>1, <2>1, <2>2, RefuseHolds
<1>5. CASE /\ ~(method = "count" /\ tag.kind = "earliest")
           /\ ~Endpoint!UnknownHash(tag) /\ Endpoint!Resolve(tag) = None
  <2>1. /\ tag.kind \in {"latest", "earliest"} /\ Endpoint!Least(tag) = None
        /\ tag.kind = "latest" => before.head = None
    BY <1>1, <1>2, <1>5, ResolvesTo
  <2>3. before' = before
    BY <1>1
  <2>4. \A t : Endpoint!Least(t)' = Endpoint!Least(t)
    BY <2>3 DEF Endpoint!Least
  <2>5. 0 \in Answers /\ None \in Answers /\ << >> \in Answers /\ 0 \in Nat
    <3>1. << >> \in Seq(Endpoint!Blocks) /\ 0 \in Nat
      OBVIOUS
    <3>2. Seq(Endpoint!Blocks) \subseteq Answers /\ Nat \subseteq Answers /\ None \in Answers
      BY Zenon DEF Answers
    <3> QED
      BY <3>1, <3>2, Zenon
  <2>6. CASE method = "count"
    <3>1. Endpoint!Answer(0)
      BY <1>1, <1>5, <2>6 DEF Endpoint!ResolveBlockTag, Endpoint!Asked, Endpoint!At
    <3>2. rpcCall'.request = rpcCall.request
      BY <1>2, <2>5, <3>1, AnswerIs
    <3>3. Endpoint!ReadsNotBehind'
      BY <2>1, <2>4, <2>6, <3>2 DEF Endpoint!ReadsNotBehind, Endpoint!Answered, Endpoint!Asked
    <3> QED
      BY <1>1, <2>5, <2>6, <3>1, <3>3, AnswerHolds
  <2>7. CASE method = "block"
    <3>1. Endpoint!Answer(None)
      BY <1>1, <1>5, <2>7 DEF Endpoint!ResolveBlockTag, Endpoint!Asked, Endpoint!At
    <3>2. rpcCall'.request = rpcCall.request /\ rpcCall'.answer = None
      BY <1>2, <2>5, <3>1, AnswerIs
    <3>3. Endpoint!ReadsNotBehind'
      BY <2>1, <2>4, <2>7, <3>2 DEF Endpoint!ReadsNotBehind, Endpoint!Answered, Endpoint!Asked
    <3>4. before.heard # None => before.head # None
      BY <1>1, CallFacts
    <3>5. Endpoint!HeadHolds'
      BY <1>1, <2>1, <3>2, <3>4 DEF Endpoint!HeadHolds
    <3> QED
      BY <1>1, <2>5, <2>7, <3>1, <3>3, <3>5, AnswerHolds
  <2>8. CASE method = "fees"
    <3>1. Endpoint!Answer(<< >>)
      BY <1>1, <1>5, <2>8 DEF Endpoint!ResolveBlockTag, Endpoint!Asked, Endpoint!At
    <3>2. rpcCall'.answer = << >>
      BY <1>2, <2>5, <3>1, AnswerIs
    <3>3. Endpoint!FeesAligned'
      BY <3>2 DEF Endpoint!FeesAligned
    <3> QED
      BY <1>1, <2>5, <2>8, <3>1, <3>3, AnswerHolds
  <2>9. CASE method = "balance"
    <3>1. Endpoint!Goto("floor")
      BY <1>1, <1>5, <2>9 DEF Endpoint!ResolveBlockTag, Endpoint!Asked, Endpoint!At
    <3>2. rpcCall' \in RpcCalls /\ rpcCall'.pc = "floor" /\ rpcCall'.request = rpcCall.request
      BY <1>2, <3>1, GotoIs DEF EndpointPCs
    <3>3. MethodGood' /\ ParameterGood' /\ WindowGood' /\ RangeGood' /\ LogsGood' /\ FloorGood'
      BY <2>1, <2>9, <3>2
         DEF MethodGood, ParameterGood, WindowGood, RangeGood, LogsGood, FloorGood
    <3> QED
      BY <1>1, <3>2, <3>3, MoveHolds
  <2> QED
    BY <1>1, <2>6, <2>7, <2>8, <2>9
<1>6. CASE /\ ~(method = "count" /\ tag.kind = "earliest")
           /\ ~Endpoint!UnknownHash(tag) /\ Endpoint!Resolve(tag) # None
  <2>1. rpcCall' = [rpcCall EXCEPT !.pc = "read", !.to = Endpoint!Resolve(tag)]
    BY <1>1, <1>6 DEF Endpoint!ResolveBlockTag, Endpoint!Asked, Endpoint!At
  <2>2. Endpoint!Resolve(tag) \in Endpoint!Blocks /\ Named(tag, Endpoint!Resolve(tag))
    BY <1>1, <1>2, <1>6, ResolvesTo
  <2>3. /\ rpcCall' \in RpcCalls /\ rpcCall'.pc = "read" /\ rpcCall'.request = rpcCall.request
        /\ rpcCall'.to = Endpoint!Resolve(tag)
    BY <1>2, <2>1, <2>2 DEF RpcCalls, EndpointPCs, Maybe
  <2>5. MethodGood' /\ ParameterGood' /\ WindowGood' /\ RangeGood' /\ LogsGood' /\ FloorGood'
    BY <1>1, <2>2, <2>3
       DEF MethodGood, ParameterGood, WindowGood, RangeGood, LogsGood, FloorGood, Named
  <2> QED
    BY <1>1, <2>3, <2>5, MoveHolds
<1> QED
  BY <1>3, <1>4, <1>5, <1>6

-----------------------------------------------------------------------------
(* Nonces, balances and blocks. *)

LEMMA CountSentHolds ==
  ASSUME EndpointInv, Endpoint!CountSent
  PROVE  EndpointInv'
<1> DEFINE tag == rpcCall.request.to
           a == Endpoint!getSentTransactionCount(indexed, rpcCall.to)
           Had == Endpoint!UpTo(before.indexed, Endpoint!Least(tag)) \cap SentBlocks
           Has == Endpoint!UpTo(indexed, Endpoint!Resolve(tag)) \cap SentBlocks
           Seen == {b \in indexed \cap SentBlocks : b <= rpcCall.to}
<1>1. /\ rpcCall.pc = "read" /\ rpcCall.pc # "idle" /\ rpcCall.request.method = "count"
      /\ UNCHANGED <<height, indexed, forward, backfill, before, heard>> /\ Endpoint!Answer(a)
  BY DEF Endpoint!CountSent, Endpoint!At, Endpoint!Asked, Endpoint!chain
<1>2. rpcCall.to \in Endpoint!Blocks /\ Named(tag, rpcCall.to)
  BY <1>1, CallFacts DEF CallGood, ParameterGood
<1>3. a = Endpoint!Nonce(Seen) /\ a \in Nat
  <2>1. Seen \in SUBSET SentBlocks
    OBVIOUS
  <2>2. Endpoint!Nonce(Seen) \in Nat
    BY <2>1, NonceGrows
  <2> QED
    BY <2>2 DEF Endpoint!getSentTransactionCount
<1>4. ASSUME tag.kind # "earliest", Endpoint!Least(tag) # None
      PROVE  Endpoint!Nonce(Had) <= a /\ a <= Endpoint!Nonce(Has)
  <2>1. tag.block \in Endpoint!Blocks /\ tag.kind \in {"latest", "number", "hash"}
    BY <1>1, <1>4, CallFacts
  <2>2. /\ Endpoint!Least(tag) \in Endpoint!Blocks /\ Endpoint!Least(tag) <= rpcCall.to
        /\ Endpoint!Resolve(tag) \in Endpoint!Blocks /\ rpcCall.to <= Endpoint!Resolve(tag)
    BY <1>1, <1>2, <1>4, <2>1, ReadIsBetween
  <2>3. \A b, m, n \in Nat : b <= m /\ m <= n => b <= n
    OBVIOUS
  <2>4. before.indexed \subseteq indexed /\ indexed \in SUBSET Endpoint!Blocks
    BY <1>1, CallFacts
  <2>5. Had \subseteq Seen /\ Seen \subseteq Has
    BY <1>2, <2>2, <2>3, <2>4, EndpointConstants, Zenon DEF Endpoint!UpTo
  <2>6. Had \in SUBSET SentBlocks /\ Seen \in SUBSET SentBlocks /\ Has \in SUBSET SentBlocks
    OBVIOUS
  <2>7. Endpoint!Nonce(Had) <= Endpoint!Nonce(Seen)
    BY <2>5, <2>6, NonceGrows
  <2>8. Endpoint!Nonce(Seen) <= Endpoint!Nonce(Has)
    BY <2>5, <2>6, NonceGrows
  <2> QED
    BY <1>3, <2>7, <2>8
<1>5. a \in Answers
  BY <1>3, Zenon DEF Answers
<1>6. rpcCall'.request = rpcCall.request /\ rpcCall'.answer = a
  BY <1>1, <1>5, AnswerIs, CallFacts
<1>7. Endpoint!ReadsNotBehind'
  <2>1. before' = before /\ indexed' = indexed /\ forward' = forward
    BY <1>1
  <2>2. \A t : Endpoint!Least(t)' = Endpoint!Least(t)
    BY <2>1 DEF Endpoint!Least
  <2>3. \A t : Endpoint!Resolve(t)' = Endpoint!Resolve(t)
    BY <2>1 DEF Endpoint!Resolve, Endpoint!MinStoredBlock, Endpoint!indexedHead
  <2> HIDE DEF a
  <2> QED
    BY <1>1, <1>4, <1>6, <2>1, <2>2, <2>3
       DEF Endpoint!ReadsNotBehind, Endpoint!Answered, Endpoint!Asked
<1> HIDE DEF a
<1> QED
  BY <1>1, <1>3, <1>5, <1>7, AnswerHolds

LEMMA ReadBalanceHolds ==
  ASSUME EndpointInv, Endpoint!ReadBalance
  PROVE  EndpointInv'
<1> DEFINE tag == rpcCall.request.to
           a == Endpoint!getBalanceAt(indexed, rpcCall.to)
           Seen == {b \in indexed \cap ReadBlocks : b <= rpcCall.to}
           Had == Endpoint!UpTo(before.indexed, Endpoint!Least(tag)) \cap ReadBlocks
<1>1. /\ rpcCall.pc = "read" /\ rpcCall.pc # "idle" /\ rpcCall.request.method = "balance"
      /\ UNCHANGED <<height, indexed, forward, backfill, before, heard>>
      /\ IF a = None THEN Endpoint!Goto("floor") ELSE Endpoint!Answer(a)
  BY DEF Endpoint!ReadBalance, Endpoint!At, Endpoint!Asked, Endpoint!chain
<1>2. /\ rpcCall.to \in Endpoint!Blocks /\ Named(tag, rpcCall.to) /\ rpcCall \in RpcCalls
      /\ before.indexed \subseteq indexed /\ indexed \in SUBSET Endpoint!Blocks
  BY <1>1, CallFacts DEF CallGood, ParameterGood
<1>3. a = IF Seen = {} THEN None ELSE Endpoint!Max(Seen)
  BY DEF Endpoint!getBalanceAt
<1>4. Seen \in SUBSET Endpoint!Blocks
  BY <1>2
<1>5. CASE Seen = {}
  <2>1. Endpoint!Goto("floor")
    BY <1>1, <1>3, <1>5
  <2>2. rpcCall' \in RpcCalls /\ rpcCall'.pc = "floor" /\ rpcCall'.request = rpcCall.request
    BY <1>2, <2>1, GotoIs DEF EndpointPCs
  <2>3. ASSUME tag.kind = "number", NEW b \in before.indexed, b <= tag.block
        PROVE  b \notin ReadBlocks
    BY <1>2, <1>5, <2>3 DEF Named
  <2>4. FloorGood'
    BY <1>1, <2>2, <2>3 DEF FloorGood
  <2>5. MethodGood' /\ ParameterGood' /\ WindowGood' /\ RangeGood' /\ LogsGood'
    BY <1>1, <2>2 DEF MethodGood, ParameterGood, WindowGood, RangeGood, LogsGood
  <2> QED
    BY <1>1, <2>2, <2>4, <2>5, MoveHolds
<1>6. CASE Seen # {}
  <2>1. a = Endpoint!Max(Seen) /\ a \in Seen /\ \A b \in Seen : b <= a
    BY <1>3, <1>4, <1>6, GreatestBlockIs
  <2>2. a \in Endpoint!Blocks /\ a \in Nat /\ a # None
    BY <1>4, <2>1, EndpointConstants
  <2>3. a \in Answers
    BY <2>2, Zenon DEF Answers
  <2>4. Endpoint!Answer(a)
    BY <1>1, <2>2
  <2>5. ASSUME tag.kind # "earliest", Endpoint!Least(tag) # None
        PROVE  Endpoint!Newest(Had) <= a
    <3>1. tag.block \in Endpoint!Blocks /\ tag.kind \in {"latest", "number", "hash"}
      BY <1>1, <2>5, CallFacts
    <3>2. Endpoint!Least(tag) \in Endpoint!Blocks /\ Endpoint!Least(tag) <= rpcCall.to
      BY <1>1, <1>2, <2>5, <3>1, ReadIsBetween
    <3>3. \A b, m, n \in Nat : b <= m /\ m <= n => b <= n
      OBVIOUS
    <3>4. Had \subseteq Seen
      BY <1>2, <3>2, <3>3, EndpointConstants, Zenon DEF Endpoint!UpTo
    <3>5. CASE Had = {}
      BY <2>2, <3>5 DEF Endpoint!Newest
    <3>6. CASE Had # {}
      <4>1. Had \in SUBSET Endpoint!Blocks
        BY <1>4, <3>4
      <4>2. Endpoint!Max(Had) \in Had
        BY <3>6, <4>1, GreatestBlockIs
      <4>3. Endpoint!Max(Had) <= a
        BY <2>1, <3>4, <4>2
      <4> QED
        BY <3>6, <4>3 DEF Endpoint!Newest
    <3> QED
      BY <3>5, <3>6
  <2>6. rpcCall'.pc = "answered" /\ rpcCall'.request = rpcCall.request /\ rpcCall'.answer = a
    BY <1>2, <2>3, <2>4, AnswerIs
  <2>7. Endpoint!ReadsNotBehind'
    <3>1. before' = before
      BY <1>1
    <3>2. \A t : Endpoint!Least(t)' = Endpoint!Least(t)
      BY <3>1 DEF Endpoint!Least
    <3> HIDE DEF a
    <3> QED
      BY <1>1, <2>5, <2>6, <3>1, <3>2
         DEF Endpoint!ReadsNotBehind, Endpoint!Answered, Endpoint!Asked, Endpoint!At
  <2> HIDE DEF a
  <2> QED
    BY <1>1, <2>3, <2>4, <2>7, AnswerHolds
<1> QED
  BY <1>5, <1>6

LEMMA ReadFloorHolds ==
  ASSUME EndpointInv, Endpoint!ReadFloor
  PROVE  EndpointInv'
<1>1. /\ rpcCall.pc = "floor" /\ rpcCall.pc # "idle" /\ Endpoint!Refuse
      /\ UNCHANGED <<height, indexed, forward, backfill, before, heard>>
  BY DEF Endpoint!ReadFloor, Endpoint!At, Endpoint!chain
<1>2. FloorGood
  BY <1>1, CallFacts DEF CallGood
<1> QED
  BY <1>1, <1>2, RefuseHolds DEF FloorGood

LEMMA ReadBlockHolds ==
  ASSUME EndpointInv, Endpoint!ReadBlock
  PROVE  EndpointInv'
<1> DEFINE tag == rpcCall.request.to
<1>1. /\ rpcCall.pc = "read" /\ rpcCall.pc # "idle" /\ rpcCall.request.method = "block"
      /\ UNCHANGED <<height, indexed, forward, backfill, before, heard>>
      /\ IF rpcCall.to \in indexed THEN Endpoint!Goto("transactions") ELSE Endpoint!Answer(None)
  BY DEF Endpoint!ReadBlock, Endpoint!At, Endpoint!Asked, Endpoint!chain
<1>2. /\ rpcCall.to \in Endpoint!Blocks /\ Named(tag, rpcCall.to) /\ rpcCall \in RpcCalls
      /\ before.indexed \subseteq indexed /\ indexed \in SUBSET Endpoint!Blocks
      /\ tag.kind \in {"latest", "earliest", "number", "hash"}
      /\ before.heard # None => before.heard \in before.indexed
  BY <1>1, CallFacts DEF CallGood, ParameterGood
<1>3. CASE rpcCall.to \in indexed
  <2>1. Endpoint!Goto("transactions")
    BY <1>1, <1>3
  <2>2. /\ rpcCall' \in RpcCalls /\ rpcCall'.pc = "transactions"
        /\ rpcCall'.request = rpcCall.request /\ rpcCall'.to = rpcCall.to
    BY <1>2, <2>1, GotoIs DEF EndpointPCs
  <2>3. MethodGood' /\ WindowGood' /\ RangeGood' /\ LogsGood' /\ FloorGood'
    BY <1>1, <2>2 DEF MethodGood, WindowGood, RangeGood, LogsGood, FloorGood
  <2>4. ParameterGood'
    BY <1>1, <1>2, <1>3, <2>2 DEF ParameterGood, Named
  <2> QED
    BY <1>1, <2>2, <2>3, <2>4, MoveHolds
<1>4. CASE rpcCall.to \notin indexed
  <2>1. Endpoint!Answer(None)
    BY <1>1, <1>4
  <2>2. None \in Answers
    BY Zenon DEF Answers
  <2>3. rpcCall'.pc = "answered" /\ rpcCall'.request = rpcCall.request /\ rpcCall'.answer = None
    BY <1>2, <2>1, <2>2, AnswerIs
  <2>4. tag.kind = "number" /\ tag.block \notin indexed
    BY <1>2, <1>4 DEF Named
  <2>5. before' = before
    BY <1>1
  <2>6. Endpoint!ReadsNotBehind'
    BY <1>1, <1>2, <2>3, <2>4, <2>5
       DEF Endpoint!ReadsNotBehind, Endpoint!Answered, Endpoint!Asked, Endpoint!At
  <2>7. Endpoint!HeadHolds'
    BY <1>2, <2>3, <2>4, <2>5 DEF Endpoint!HeadHolds
  <2> QED
    BY <1>1, <2>1, <2>2, <2>6, <2>7, AnswerHolds
<1> QED
  BY <1>3, <1>4

LEMMA ReadTransactionsHolds ==
  ASSUME EndpointInv, Endpoint!ReadTransactions
  PROVE  EndpointInv'
<1> DEFINE tag == rpcCall.request.to
           a == [block |-> rpcCall.to, whole |-> rpcCall.to \in indexed]
<1>1. /\ rpcCall.pc = "transactions" /\ rpcCall.pc # "idle" /\ Endpoint!Answer(a)
      /\ UNCHANGED <<height, indexed, forward, backfill, before, heard>>
  BY DEF Endpoint!ReadTransactions, Endpoint!At, Endpoint!chain
<1>2. /\ rpcCall.to \in Endpoint!Blocks /\ Named(tag, rpcCall.to) /\ rpcCall \in RpcCalls
      /\ rpcCall.to \in indexed /\ rpcCall.request.method = "block"
      /\ before.head \in Maybe /\ before.heard \in Maybe
      /\ before.heard # None => before.head # None /\ before.heard <= before.head
  <2>1. rpcCall.request.method = "block"
    BY <1>1, CallFacts DEF CallGood, MethodGood
  <2> QED
    BY <1>1, <2>1, CallFacts DEF CallGood, ParameterGood
<1>3. a \in Endpoint!Found /\ a.block = rpcCall.to /\ a.whole
  BY <1>2 DEF Endpoint!Found
<1> HIDE DEF a
<1>4. a # None /\ a \in Answers
  <2>1. Endpoint!Found \subseteq Answers
    BY Zenon DEF Answers
  <2> QED
    BY <1>3, <2>1, EndpointConstants
<1>5. rpcCall'.pc = "answered" /\ rpcCall'.request = rpcCall.request /\ rpcCall'.answer = a
  BY <1>1, <1>2, <1>4, AnswerIs
<1>6. before' = before
  BY <1>1
<1>7. Endpoint!ReadsNotBehind'
  BY <1>2, <1>3, <1>4, <1>5
     DEF Endpoint!ReadsNotBehind, Endpoint!Answered, Endpoint!Asked, Endpoint!At
<1>8. Endpoint!HeadHolds'
  <2>1. ASSUME before.heard # None, tag.kind = "latest" PROVE before.heard <= rpcCall.to
    <3>1. before.head # None /\ before.head <= rpcCall.to /\ before.heard <= before.head
      BY <1>2, <2>1 DEF Named
    <3> QED
      BY <1>2, <2>1, <3>1, EndpointConstants DEF Maybe
  <2> QED
    BY <1>3, <1>4, <1>5, <1>6, <2>1 DEF Endpoint!HeadHolds
<1> QED
  BY <1>1, <1>2, <1>4, <1>7, <1>8, AnswerHolds

-----------------------------------------------------------------------------
(* Fees. *)

LEMMA ReadWindowHolds ==
  ASSUME EndpointInv, Endpoint!ReadWindow
  PROVE  EndpointInv'
<1> DEFINE rows == Endpoint!FeeWindow(indexed, rpcCall.to, rpcCall.request.count)
<1>1. /\ rpcCall.pc = "read" /\ rpcCall.pc # "idle" /\ rpcCall.request.method = "fees"
      /\ UNCHANGED <<height, indexed, forward, backfill, before, heard>>
      /\ IF \A b \in rows : b > rpcCall.to THEN Endpoint!Answer(<< >>)
         ELSE rpcCall' = [rpcCall EXCEPT !.pc = "samples", !.rows = rows]
  BY DEF Endpoint!ReadWindow, Endpoint!At, Endpoint!Asked, Endpoint!chain
<1>2. /\ rpcCall.to \in Endpoint!Blocks /\ Named(rpcCall.request.to, rpcCall.to)
      /\ rpcCall \in RpcCalls
      /\ before.indexed \subseteq indexed /\ indexed \in SUBSET Endpoint!Blocks
      /\ rpcCall.request.count \in Nat /\ rpcCall.request.count >= 1
  BY <1>1, CallFacts DEF CallGood, ParameterGood
<1>3. CASE \A b \in rows : b > rpcCall.to
  <2>1. Endpoint!Answer(<< >>) /\ << >> \in Seq(Endpoint!Blocks)
    BY <1>1, <1>3
  <2>2. << >> \in Answers
    BY <2>1, Zenon DEF Answers
  <2>3. rpcCall'.answer = << >>
    BY <1>2, <2>1, <2>2, AnswerIs
  <2>4. Endpoint!FeesAligned'
    BY <2>3 DEF Endpoint!FeesAligned
  <2> QED
    BY <1>1, <2>1, <2>2, <2>4, AnswerHolds
<1>4. CASE ~\A b \in rows : b > rpcCall.to
  <2>1. rpcCall' = [rpcCall EXCEPT !.pc = "samples", !.rows = rows]
    BY <1>1, <1>4
  <2>2. rows = {b \in indexed : rpcCall.to - Reach < b /\ b <= rpcCall.to + 1}
    <3>1. rows = {b \in indexed : b > rpcCall.to - Reach /\ b <= rpcCall.to + 1}
      BY Zenon DEF Endpoint!FeeWindow, Reach
    <3>2. Reach \in Int
      BY <1>2, EndpointConstants DEF Reach
    <3> QED
      BY <1>2, <3>1, <3>2, EndpointConstants
  <2>3. Reach' = Reach
    BY <2>1, <1>2 DEF Reach, RpcCalls
  <2> HIDE DEF rows
  <2>4. rows \in SUBSET Endpoint!Blocks
    BY <1>2, <2>2
  <2>5. /\ rpcCall' \in RpcCalls /\ rpcCall'.pc = "samples" /\ rpcCall'.rows = rows
        /\ rpcCall'.request = rpcCall.request /\ rpcCall'.to = rpcCall.to
    BY <1>2, <2>1, <2>4 DEF RpcCalls, EndpointPCs
  <2>6. MethodGood' /\ RangeGood' /\ LogsGood' /\ FloorGood'
    BY <1>1, <2>5 DEF MethodGood, RangeGood, LogsGood, FloorGood
  <2>7. ParameterGood'
    BY <1>1, <1>2, <2>5 DEF ParameterGood, Named
  <2>8. WindowGood'
    <3>1. \E b \in rows : b <= rpcCall.to
      BY <1>2, <1>4, <2>4, EndpointConstants
    <3>2. \A b \in rows : rpcCall.to - Reach < b
      BY <2>2
    <3>3. \A b \in before.indexed :
            rpcCall.to - Reach < b /\ b <= rpcCall.to => b \in rows
      <4>1. \A b \in Nat : b <= rpcCall.to => b <= rpcCall.to + 1
        BY <1>2, EndpointConstants
      <4> QED
        BY <1>2, <2>2, <4>1, EndpointConstants
    <3>4. before' = before
      BY <1>1
    <3> QED
      BY <2>3, <2>5, <3>1, <3>2, <3>3, <3>4 DEF WindowGood
  <2> QED
    BY <1>1, <2>5, <2>6, <2>7, <2>8, MoveHolds
<1> QED
  BY <1>3, <1>4

LEMMA ReadSamplesHolds ==
  ASSUME EndpointInv, Endpoint!ReadSamples
  PROVE  EndpointInv'
<1> DEFINE S == {b \in rpcCall.rows : b <= rpcCall.to}
           w == Endpoint!InOrder(S)
           n == Cardinality(S)
           next == Endpoint!Max(rpcCall.rows)
           a == Append(w, next)
<1>1. /\ rpcCall.pc = "samples" /\ rpcCall.pc # "idle" /\ Endpoint!Answer(a)
      /\ UNCHANGED <<height, indexed, forward, backfill, before, heard>>
  BY DEF Endpoint!ReadSamples, Endpoint!At, Endpoint!chain
<1>2. /\ rpcCall.to \in Endpoint!Blocks /\ rpcCall \in RpcCalls
      /\ rpcCall.request.method = "fees" /\ rpcCall.request.count \in Nat
      /\ before.indexed \in SUBSET Endpoint!Blocks
      /\ \E b \in rpcCall.rows : b <= rpcCall.to
      /\ \A b \in rpcCall.rows : rpcCall.to - Reach < b
      /\ \A b \in before.indexed :
           rpcCall.to - Reach < b /\ b <= rpcCall.to => b \in rpcCall.rows
  <2>1. rpcCall.request.method = "fees" /\ WindowGood
    BY <1>1, CallFacts DEF CallGood, MethodGood
  <2> QED
    BY <1>1, <2>1, CallFacts DEF CallGood, ParameterGood, WindowGood
<1>3. rpcCall.rows \in SUBSET Endpoint!Blocks /\ S \in SUBSET Endpoint!Blocks /\ S # {}
  BY <1>2 DEF RpcCalls
<1>4. next \in Endpoint!Blocks
  <2>1. rpcCall.rows # {}
    BY <1>3
  <2> QED
    BY <1>3, <2>1, GreatestBlockIs
<1>5. /\ n \in Nat /\ n >= 1 /\ w \in [1..n -> S]
      /\ \A b \in S : \E i \in 1..n : w[i] = b
      /\ \A b \in S : w[1] <= b /\ b <= w[n]
      /\ (\A b \in Nat : w[1] <= b /\ b <= w[n] => b \in S)
           => \A i \in 1..n : w[i] = w[1] + i - 1
  <2>1. w = Endpoint!InOrder(S) /\ n = Cardinality(S)
    OBVIOUS
  <2> HIDE DEF S, w, n
  <2> QED
    BY <1>3, <2>1, InOrderIs
<1> HIDE DEF w, n, next
<1>6. w \in Seq(Endpoint!Blocks) /\ Len(w) = n
  <2>1. w \in [1..n -> Endpoint!Blocks]
    BY <1>3, <1>5
  <2> QED
    BY <1>5, <2>1
<1>7. a \in Seq(Endpoint!Blocks) /\ Len(a) = n + 1 /\ \A i \in 1..n : a[i] = w[i]
  BY <1>4, <1>5, <1>6
<1> HIDE DEF a
<1>8. a \in Answers
  BY <1>7, Zenon DEF Answers
<1>9. rpcCall'.request = rpcCall.request /\ rpcCall'.answer = a
  BY <1>1, <1>2, <1>8, AnswerIs
<1>10. Endpoint!Entries' = n /\ 1 \in 1..n /\ n \in 1..n
  BY <1>5, <1>7, <1>9 DEF Endpoint!Entries
<1>11. /\ a[n] = w[n] /\ a[1] = w[1] /\ w[n] \in S /\ w[1] \in S
       /\ w[n] \in Nat /\ w[1] \in Nat
  BY <1>3, <1>5, <1>7, <1>10, EndpointConstants
\* What was stored between the oldest and the newest of the rows is among them.
<1>12. ASSUME NEW b \in before.indexed, b >= w[1], b <= w[n] PROVE b \in S
  <2>1. b \in Nat /\ rpcCall.to \in Nat /\ Reach \in Int
    BY <1>2, EndpointConstants DEF Reach
  <2>2. rpcCall.to - Reach < w[1] /\ w[n] <= rpcCall.to
    BY <1>2, <1>11
  <2>3. rpcCall.to - Reach < b /\ b <= rpcCall.to
    BY <1>11, <1>12, <2>1, <2>2
  <2> QED
    BY <1>2, <2>3
<1>13. {b \in before.indexed : b >= a[1] /\ b <= a[n]} \subseteq Endpoint!Range(a)
  <2>1. ASSUME NEW b \in before.indexed, b >= a[1], b <= a[n] PROVE b \in Endpoint!Range(a)
    <3>1. b \in S
      BY <1>11, <1>12, <2>1
    <3>2. PICK i \in 1..n : w[i] = b
      BY <1>5, <3>1
    <3>3. i \in DOMAIN a /\ a[i] = b
      BY <1>5, <1>7, <3>2
    <3> QED
      BY <3>3 DEF Endpoint!Range
  <2> QED
    BY <2>1
<1>14. ASSUME a[1]..a[n] \subseteq before.indexed
       PROVE  \A i \in 1..n : a[i] = a[1] + i - 1
  <2>1. \A b \in Nat : w[1] <= b /\ b <= w[n] => b \in S
    <3>1. \A b \in Nat : w[1] <= b /\ b <= w[n] => b \in before.indexed
      BY <1>11, <1>14
    <3> QED
      BY <1>11, <1>12, <3>1
  <2> QED
    BY <1>5, <1>7, <1>11, <2>1
<1>15. Endpoint!FeesAligned'
  <2>1. before' = before
    BY <1>1
  <2> QED
    BY <1>9, <1>10, <1>13, <1>14, <2>1 DEF Endpoint!FeesAligned
<1> QED
  BY <1>1, <1>2, <1>8, <1>15, AnswerHolds

-----------------------------------------------------------------------------
(* Logs. *)

LEMMA LogsOfHashHolds ==
  ASSUME EndpointInv, Endpoint!LogsOfHash
  PROVE  EndpointInv'
<1> DEFINE tag == rpcCall.request.from
<1>1. /\ rpcCall.pc = "start" /\ rpcCall.pc # "idle" /\ rpcCall.request.method = "logs"
      /\ tag.kind = "hash"
      /\ UNCHANGED <<height, indexed, forward, backfill, before, heard>>
      /\ IF Endpoint!UnknownHash(tag) THEN Endpoint!Refuse
         ELSE rpcCall' = [rpcCall EXCEPT !.pc = "read", !.from = tag.block, !.to = tag.block]
  BY DEF Endpoint!LogsOfHash, Endpoint!At, Endpoint!Asked, Endpoint!chain
<1>2. rpcCall \in RpcCalls /\ tag.block \in Endpoint!Blocks
  BY <1>1, CallFacts
<1>3. CASE Endpoint!UnknownHash(tag)
  <2>1. Endpoint!Refuse
    BY <1>1, <1>3
  <2> QED
    BY <1>1, <2>1, RefuseHolds
<1>4. CASE ~Endpoint!UnknownHash(tag)
  <2>1. /\ rpcCall' \in RpcCalls /\ rpcCall'.pc = "read" /\ rpcCall'.request = rpcCall.request
        /\ rpcCall'.from = tag.block /\ rpcCall'.to = tag.block
    BY <1>1, <1>2, <1>4 DEF RpcCalls, EndpointPCs, Maybe
  <2>2. MethodGood' /\ ParameterGood' /\ WindowGood' /\ RangeGood' /\ LogsGood' /\ FloorGood'
    BY <1>1, <2>1 DEF MethodGood, ParameterGood, WindowGood, RangeGood, LogsGood, FloorGood
  <2> QED
    BY <1>1, <2>1, <2>2, MoveHolds
<1> QED
  BY <1>3, <1>4

LEMMA LogsHeadHolds ==
  ASSUME EndpointInv, Endpoint!LogsHead
  PROVE  EndpointInv'
<1> DEFINE tag == rpcCall.request.from
<1>1. /\ rpcCall.pc = "start" /\ rpcCall.pc # "idle" /\ rpcCall.request.method = "logs"
      /\ tag.kind # "hash"
      /\ UNCHANGED <<height, indexed, forward, backfill, before, heard>>
      /\ IF forward = None THEN Endpoint!Answer({})
         ELSE rpcCall' = [rpcCall EXCEPT !.pc = "from", !.head = forward]
  BY DEF Endpoint!LogsHead, Endpoint!At, Endpoint!Asked, Endpoint!chain, Endpoint!indexedHead
<1>2. /\ rpcCall \in RpcCalls /\ forward \in Maybe
      /\ before.head # None => forward # None /\ before.head <= forward
  BY <1>1, CallFacts
<1>3. CASE forward = None
  <2>1. Endpoint!Answer({}) /\ {} \in Answers
    BY <1>1, <1>3, Zenon DEF Answers
  <2>2. rpcCall'.request = rpcCall.request /\ rpcCall'.answer = {}
    BY <1>2, <2>1, AnswerIs
  <2>3. before' = before /\ before.head = None
    BY <1>1, <1>2, <1>3
  <2>4. Endpoint!LogsComplete'
    BY <1>1, <2>2, <2>3 DEF Endpoint!LogsComplete
  <2> QED
    BY <1>1, <2>1, <2>4, AnswerHolds
<1>4. CASE forward # None
  <2>1. /\ rpcCall' \in RpcCalls /\ rpcCall'.pc = "from" /\ rpcCall'.request = rpcCall.request
        /\ rpcCall'.head = forward
    BY <1>1, <1>2, <1>4 DEF RpcCalls, EndpointPCs
  <2>2. MethodGood' /\ ParameterGood' /\ WindowGood' /\ LogsGood' /\ FloorGood'
    BY <1>1, <2>1 DEF MethodGood, ParameterGood, WindowGood, LogsGood, FloorGood
  <2>3. RangeGood'
    <3>1. forward \in Endpoint!Blocks /\ forward <= forward
      BY <1>2, <1>4, EndpointConstants DEF Maybe
    <3> QED
      BY <1>1, <1>2, <1>4, <2>1, <3>1 DEF RangeGood
  <2> QED
    BY <1>1, <2>1, <2>2, <2>3, MoveHolds
<1> QED
  BY <1>3, <1>4

LEMMA ResolveFromHolds ==
  ASSUME EndpointInv, Endpoint!ResolveFrom
  PROVE  EndpointInv'
<1> DEFINE tag == rpcCall.request.from
           from == Endpoint!Resolve(tag)
<1>1. /\ rpcCall.pc = "from" /\ rpcCall.pc # "idle"
      /\ rpcCall' = [rpcCall EXCEPT !.pc = "to", !.from = from]
      /\ UNCHANGED <<height, indexed, forward, backfill, before, heard>>
  BY DEF Endpoint!ResolveFrom, Endpoint!At, Endpoint!chain
<1>2. /\ rpcCall \in RpcCalls /\ CallGood /\ tag.block \in Endpoint!Blocks
      /\ tag.kind \in {"latest", "earliest", "number", "hash"}
      /\ indexed \in SUBSET Endpoint!Blocks /\ before.indexed \subseteq indexed
  BY <1>1, CallFacts
<1>3. /\ rpcCall.request.method = "logs" /\ tag.kind # "hash"
      /\ rpcCall.head \in Endpoint!Blocks /\ forward # None /\ rpcCall.head <= forward
      /\ before.head # None => before.head <= rpcCall.head
  BY <1>1, <1>2 DEF CallGood, MethodGood, RangeGood
<1>4. from \in Endpoint!Blocks
  <2>1. ~Endpoint!UnknownHash(tag)
    BY <1>3 DEF Endpoint!UnknownHash
  <2> QED
    BY <1>1, <1>2, <1>3, <2>1, ResolvesTo
<1>5. ASSUME tag.kind = "earliest" PROVE \A b \in before.indexed : from <= b
  <2>1. CASE indexed = {}
    BY <1>2, <2>1
  <2>2. CASE indexed # {}
    <3>1. \A b \in indexed : Endpoint!Min(indexed) <= b
      BY <1>2, <2>2, LeastBlockIs
    <3>2. from = Endpoint!Min(indexed)
      BY <1>5, <2>2 DEF Endpoint!Resolve, Endpoint!MinStoredBlock
    <3> QED
      BY <1>2, <3>1, <3>2
  <2> QED
    BY <2>1, <2>2
<1>6. tag.kind = "number" => from = tag.block
  BY DEF Endpoint!Resolve
<1> HIDE DEF from
<1>7. /\ rpcCall' \in RpcCalls /\ rpcCall'.pc = "to" /\ rpcCall'.request = rpcCall.request
      /\ rpcCall'.head = rpcCall.head /\ rpcCall'.from = from
  BY <1>1, <1>2, <1>4 DEF RpcCalls, EndpointPCs, Maybe
<1>8. MethodGood' /\ ParameterGood' /\ WindowGood' /\ LogsGood' /\ FloorGood'
  BY <1>3, <1>7 DEF MethodGood, ParameterGood, WindowGood, LogsGood, FloorGood
<1>9. RangeGood'
  <2>1. before' = before /\ forward' = forward
    BY <1>1
  <2>2. LowEnd'
    BY <1>4, <1>5, <1>6, <1>7, <2>1 DEF LowEnd
  <2> QED
    BY <1>3, <1>7, <2>1, <2>2 DEF RangeGood
<1> QED
  BY <1>1, <1>7, <1>8, <1>9, MoveHolds

\* What was stored in the range that was asked for, up to the head of then, lies between
\* the ends.
LEMMA InsideEnds ==
  ASSUME EndpointInv, rpcCall.pc # "idle", LowEnd, NEW c, HighEnd(c),
         rpcCall.request.from.kind \in {"earliest", "number"},
         rpcCall.request.to.kind # "earliest", Endpoint!Least(rpcCall.request.to) # None,
         before.head # None, NEW b \in before.indexed,
         rpcCall.request.from.kind = "number" => rpcCall.request.from.block <= b,
         b <= Endpoint!Least(rpcCall.request.to), b <= before.head
  PROVE  rpcCall.from <= b /\ b <= c
<1> DEFINE tag == rpcCall.request.to
<1>1. /\ tag.kind \in {"latest", "number", "hash"} /\ tag.block \in Endpoint!Blocks
      /\ before.head \in Endpoint!Blocks /\ b \in Endpoint!Blocks
      /\ c \in Endpoint!Blocks
  BY CallFacts DEF Maybe, HighEnd
<1>2. rpcCall.from <= b
  BY DEF LowEnd
<1>3. b <= c
  <2>1. \A x, y, z \in Endpoint!Blocks : x <= y /\ y <= z => x <= z
    BY EndpointConstants
  <2>2. CASE tag.kind = "latest"
    BY <1>1, <2>1, <2>2 DEF HighEnd
  <2>3. CASE tag.kind # "latest"
    <3>1. b <= tag.block
      BY <1>1, <2>3 DEF Endpoint!Least
    <3> QED
      BY <1>1, <2>1, <2>3, <3>1 DEF HighEnd
  <2> QED
    BY <2>2, <2>3
<1> QED
  BY <1>2, <1>3

\* An answer with the blocks of the range is complete.
LEMMA LogsAnswered ==
  ASSUME EndpointInv, rpcCall.pc # "idle", UNCHANGED <<indexed, forward, before>>,
         rpcCall'.request = rpcCall.request,
         rpcCall.request.from.kind = "hash" =>
           /\ \A b \in rpcCall'.answer :
                b \in indexed /\ b \in LogBlocks /\ b = rpcCall.request.from.block
           /\ \A b \in before.indexed :
                b \in LogBlocks /\ b = rpcCall.request.from.block => b \in rpcCall'.answer,
         rpcCall.request.from.kind \in {"earliest", "number"}
           /\ rpcCall.request.to.kind # "earliest"
           /\ Endpoint!Least(rpcCall.request.to) # None =>
             /\ \A b \in rpcCall'.answer :
                  /\ b \in indexed /\ b \in LogBlocks
                  /\ rpcCall.request.from.kind = "number" => rpcCall.request.from.block <= b
                  /\ b <= Endpoint!Resolve(rpcCall.request.to)
             /\ before.head # None =>
                  \A b \in before.indexed :
                    /\ b \in LogBlocks
                    /\ rpcCall.request.from.kind = "number" => rpcCall.request.from.block <= b
                    /\ b <= Endpoint!Least(rpcCall.request.to) /\ b <= before.head
                    => b \in rpcCall'.answer
  PROVE  Endpoint!LogsComplete'
<1> DEFINE from == rpcCall.request.from
           to == rpcCall.request.to
           low == IF from.kind = "earliest" THEN 0 ELSE from.block
           high == IF from.kind = "hash" THEN from.block ELSE Endpoint!Resolve(to)
           first == IF from.kind = "hash" THEN from.block ELSE Endpoint!Least(to)
           top == IF from.kind = "hash" THEN from.block ELSE before.head
           ans == rpcCall'.answer
<1>1. before' = before /\ indexed' = indexed /\ forward' = forward
  OBVIOUS
<1>2. \A t : Endpoint!Least(t)' = Endpoint!Least(t)
  BY <1>1 DEF Endpoint!Least
<1>3. \A t : Endpoint!Resolve(t)' = Endpoint!Resolve(t)
  BY <1>1 DEF Endpoint!Resolve, Endpoint!MinStoredBlock, Endpoint!indexedHead
<1>4. SUFFICES ASSUME from.kind # "latest", to.kind # "earliest", Endpoint!Least(to) # None
               PROVE  /\ ans \subseteq Endpoint!Matching(indexed, low, high)
                      /\ top # None =>
                           Endpoint!Matching(before.indexed, low, IF first < top THEN first ELSE top)
                             \subseteq ans
  BY <1>1, <1>2, <1>3 DEF Endpoint!LogsComplete
<1>5. /\ from.kind \in {"earliest", "number", "hash"} /\ to.kind \in {"latest", "number", "hash"}
      /\ from.block \in Endpoint!Blocks /\ to.block \in Endpoint!Blocks
      /\ indexed \in SUBSET Endpoint!Blocks /\ before.indexed \in SUBSET Endpoint!Blocks
      /\ forward \in Maybe /\ before.head \in Maybe
      /\ before.head # None => forward # None
  BY <1>4, CallFacts
<1>6. Endpoint!Least(to) \in Endpoint!Blocks
  BY <1>4, <1>5 DEF Endpoint!Least, Maybe
<1>7. Endpoint!Resolve(to) \in Endpoint!Blocks
  <2>1. to.kind = "latest" => forward # None
    BY <1>4, <1>5 DEF Endpoint!Least
  <2> QED
    BY <1>5, <2>1 DEF Endpoint!Resolve, Endpoint!indexedHead, Maybe
<1>8. CASE from.kind = "hash"
  <2>1. low = from.block /\ high = from.block /\ first = from.block /\ top = from.block
    BY <1>8
  <2>2. \A b \in Nat : b \in low..high <=> b = from.block
    BY <1>5, <2>1, EndpointConstants
  <2>3. (IF first < top THEN first ELSE top) = high
    BY <2>1
  <2> HIDE DEF low, high, first, top
  <2> QED
    BY <1>5, <1>8, <2>2, <2>3, EndpointConstants DEF Endpoint!Matching
<1>9. CASE from.kind # "hash"
  <2>1. high = Endpoint!Resolve(to) /\ first = Endpoint!Least(to) /\ top = before.head
    BY <1>9
  <2>2. \A b \in Nat : low <= b <=> (from.kind = "number" => from.block <= b)
    BY <1>5, <1>9, EndpointConstants
  <2>3. low \in Nat /\ high \in Nat /\ first \in Nat
    BY <1>5, <1>6, <1>7, <2>1, EndpointConstants
  <2> HIDE DEF low, high, first, top
  <2>4. ans \subseteq Endpoint!Matching(indexed, low, high)
    <3>1. ASSUME NEW b \in ans PROVE b \in indexed /\ b \in LogBlocks /\ b \in low..high
      <4>1. /\ b \in indexed /\ b \in LogBlocks /\ b <= high
            /\ from.kind = "number" => from.block <= b
        BY <1>4, <1>5, <1>9, <2>1, <3>1
      <4>2. b \in Nat
        BY <1>5, <4>1, EndpointConstants
      <4> QED
        BY <2>2, <2>3, <4>1, <4>2
    <3> QED
      BY <3>1 DEF Endpoint!Matching
  <2>5. ASSUME top # None
        PROVE  Endpoint!Matching(before.indexed, low, IF first < top THEN first ELSE top)
                 \subseteq ans
    <3>1. top \in Nat
      BY <1>5, <2>1, <2>5, EndpointConstants DEF Maybe
    <3>2. ASSUME NEW b \in before.indexed, b \in LogBlocks,
                 b \in low..(IF first < top THEN first ELSE top)
          PROVE  b \in ans
      <4>1. b \in Nat /\ low <= b /\ b <= first /\ b <= top
        BY <2>3, <3>1, <3>2
      <4> QED
        BY <1>4, <1>5, <1>9, <2>1, <2>2, <2>5, <3>2, <4>1
    <3> QED
      BY <3>2 DEF Endpoint!Matching
  <2> QED
    BY <2>4, <2>5
<1> QED
  BY <1>8, <1>9

LEMMA ResolveToHolds ==
  ASSUME EndpointInv, Endpoint!ResolveTo
  PROVE  EndpointInv'
<1> DEFINE tag == rpcCall.request.to
           from == rpcCall.request.from
           to == Endpoint!Resolve(tag)
           c == IF to > rpcCall.head THEN rpcCall.head ELSE to
<1>1. /\ rpcCall.pc = "to" /\ rpcCall.pc # "idle"
      /\ UNCHANGED <<height, indexed, forward, backfill, before, heard>>
      /\ IF Endpoint!UnknownHash(tag) THEN Endpoint!Refuse
         ELSE IF rpcCall.from = None \/ to = None \/ c < rpcCall.from THEN Endpoint!Answer({})
         ELSE IF c - rpcCall.from + 1 > Span THEN Endpoint!Refuse
         ELSE rpcCall' = [rpcCall EXCEPT !.pc = "read", !.to = c]
  BY DEF Endpoint!ResolveTo, Endpoint!At, Endpoint!chain
<1>2. /\ rpcCall \in RpcCalls /\ CallGood /\ tag.block \in Endpoint!Blocks
      /\ tag.kind \in {"latest", "earliest", "number", "hash"}
      /\ from.kind \in {"latest", "earliest", "number", "hash"}
      /\ from.block \in Endpoint!Blocks
      /\ indexed \in SUBSET Endpoint!Blocks /\ before.indexed \in SUBSET Endpoint!Blocks
      /\ forward \in Maybe /\ before.head \in Maybe
  BY <1>1, CallFacts
<1>3. /\ rpcCall.request.method = "logs" /\ from.kind # "hash" /\ LowEnd
      /\ rpcCall.head \in Endpoint!Blocks /\ forward # None /\ rpcCall.head <= forward
      /\ before.head # None => before.head <= rpcCall.head
  BY <1>1, <1>2 DEF CallGood, MethodGood, RangeGood
<1>4. CASE Endpoint!UnknownHash(tag)
  <2>1. Endpoint!Refuse
    BY <1>1, <1>4
  <2> QED
    BY <1>1, <1>3, <2>1, RefuseHolds
<1>5. CASE ~Endpoint!UnknownHash(tag)
  <2>1. to \in Endpoint!Blocks /\ Named(tag, to)
    BY <1>1, <1>2, <1>3, <1>5, ResolvesTo
  <2>2. rpcCall.from \in Endpoint!Blocks
    BY <1>3 DEF LowEnd
  <2>3. /\ c \in Endpoint!Blocks /\ c \in Nat /\ c <= rpcCall.head /\ c <= to
        /\ c = to \/ c = rpcCall.head
    BY <1>3, <2>1, EndpointConstants
  <2> HIDE DEF c
  <2>4. HighEnd(c)
    <3>1. \A x, y, z \in Endpoint!Blocks : x <= y /\ y <= z => x <= z
      BY EndpointConstants
    <3>2. \A x \in Endpoint!Blocks : x <= x
      BY EndpointConstants
    <3>3. c <= forward
      BY <1>2, <1>3, <2>3, <3>1 DEF Maybe
    <3>4. tag.kind = "latest" /\ before.head # None => before.head <= c
      BY <1>3, <2>1, <2>3 DEF Named
    <3>5. ASSUME tag.kind \in {"number", "hash"}
          PROVE  c <= tag.block /\ (before.head # None => tag.block <= c \/ before.head <= c)
      BY <1>2, <1>3, <2>1, <2>3, <3>2, <3>5 DEF Named
    <3> QED
      BY <1>3, <2>3, <3>3, <3>4, <3>5 DEF HighEnd
  <2>5. CASE c < rpcCall.from
    <3>1. Endpoint!Answer({}) /\ {} \in Answers
      BY <1>1, <1>5, <2>5, Zenon DEF Answers
    <3>2. rpcCall'.request = rpcCall.request /\ rpcCall'.answer = {}
      BY <1>2, <3>1, AnswerIs
    <3>3. before' = before
      BY <1>1
    <3>4. ASSUME from.kind # "latest", tag.kind # "earliest", Endpoint!Least(tag) # None,
                 before.head # None, NEW b \in before.indexed,
                 from.kind = "number" => from.block <= b,
                 b <= Endpoint!Least(tag), b <= before.head
          PROVE  FALSE
      <4>1. rpcCall.from <= b /\ b <= c
        BY <1>1, <1>2, <1>3, <2>4, <3>4, InsideEnds
      <4> QED
        BY <1>2, <2>2, <2>3, <2>5, <4>1, EndpointConstants
    <3>5. Endpoint!LogsComplete'
      BY <1>1, <1>2, <1>3, <3>2, <3>4, LogsAnswered
    <3> QED
      BY <1>1, <1>3, <3>1, <3>5, AnswerHolds
  <2>6. CASE ~(c < rpcCall.from) /\ c - rpcCall.from + 1 > Span
    <3>1. Endpoint!Refuse
      BY <1>1, <1>5, <2>1, <2>2, <2>6, EndpointConstants
    <3> QED
      BY <1>1, <1>3, <3>1, RefuseHolds
  <2>7. CASE ~(c < rpcCall.from) /\ ~(c - rpcCall.from + 1 > Span)
    <3>1. rpcCall' = [rpcCall EXCEPT !.pc = "read", !.to = c]
      BY <1>1, <1>5, <2>1, <2>2, <2>7, EndpointConstants
    <3>2. /\ rpcCall' \in RpcCalls /\ rpcCall'.pc = "read" /\ rpcCall'.request = rpcCall.request
          /\ rpcCall'.to = c /\ rpcCall'.from = rpcCall.from
      BY <1>2, <2>3, <3>1 DEF RpcCalls, EndpointPCs, Maybe
    <3>3. MethodGood' /\ ParameterGood' /\ WindowGood' /\ LogsGood' /\ FloorGood'
      BY <1>3, <3>2 DEF MethodGood, ParameterGood, WindowGood, LogsGood, FloorGood
    <3>4. before' = before /\ forward' = forward
      BY <1>1
    <3>5. LowEnd'
      BY <1>3, <3>2, <3>4 DEF LowEnd
    <3>6. HighEnd(rpcCall.to)'
      BY <2>4, <3>2, <3>4 DEF HighEnd
    <3>7. RangeGood'
      BY <1>3, <3>2, <3>5, <3>6 DEF RangeGood
    <3> QED
      BY <1>1, <3>2, <3>3, <3>7, MoveHolds
  <2> QED
    BY <2>5, <2>6, <2>7
<1> QED
  BY <1>4, <1>5

LEMMA QueryLogsHolds ==
  ASSUME EndpointInv, Endpoint!QueryLogs
  PROVE  EndpointInv'
<1> DEFINE rows == Endpoint!queryLogs(indexed, rpcCall.from, rpcCall.to)
<1>1. /\ rpcCall.pc = "read" /\ rpcCall.pc # "idle" /\ rpcCall.request.method = "logs"
      /\ rpcCall' = [rpcCall EXCEPT !.pc = "hashes", !.rows = rows]
      /\ UNCHANGED <<height, indexed, forward, backfill, before, heard>>
  BY DEF Endpoint!QueryLogs, Endpoint!At, Endpoint!Asked, Endpoint!chain
<1>2. /\ rpcCall \in RpcCalls /\ RangeGood /\ indexed \in SUBSET Endpoint!Blocks
      /\ before.indexed \subseteq indexed
  BY <1>1, CallFacts DEF CallGood
<1>3. rows = {b \in indexed \cap LogBlocks : rpcCall.from <= b /\ b <= rpcCall.to}
  BY DEF Endpoint!queryLogs
<1> HIDE DEF rows
<1>4. rows \in SUBSET Endpoint!Blocks
  BY <1>2, <1>3
<1>5. /\ rpcCall' \in RpcCalls /\ rpcCall'.pc = "hashes" /\ rpcCall'.request = rpcCall.request
      /\ rpcCall'.rows = rows /\ rpcCall'.from = rpcCall.from /\ rpcCall'.to = rpcCall.to
  BY <1>1, <1>2, <1>4 DEF RpcCalls, EndpointPCs
<1>6. before' = before /\ forward' = forward /\ indexed' = indexed
  BY <1>1
<1>7. LowEnd => LowEnd'
  BY <1>5, <1>6 DEF LowEnd
<1>8. HighEnd(rpcCall.to) => HighEnd(rpcCall.to)'
  BY <1>5, <1>6 DEF HighEnd
<1>9. RangeGood'
  BY <1>1, <1>2, <1>5, <1>7, <1>8 DEF RangeGood
<1>10. LogsGood'
  BY <1>2, <1>3, <1>5, <1>6 DEF LogsGood
<1>11. MethodGood' /\ ParameterGood' /\ WindowGood' /\ FloorGood'
  BY <1>1, <1>5 DEF MethodGood, ParameterGood, WindowGood, FloorGood
<1> QED
  BY <1>1, <1>5, <1>9, <1>10, <1>11, MoveHolds

LEMMA ReadHashesHolds ==
  ASSUME EndpointInv, Endpoint!ReadHashes
  PROVE  EndpointInv'
<1> DEFINE from == rpcCall.request.from
           to == rpcCall.request.to
           a == rpcCall.rows \cap indexed
<1>1. /\ rpcCall.pc = "hashes" /\ rpcCall.pc # "idle" /\ Endpoint!Answer(a)
      /\ UNCHANGED <<height, indexed, forward, backfill, before, heard>>
  BY DEF Endpoint!ReadHashes, Endpoint!At, Endpoint!chain
<1>2. /\ rpcCall \in RpcCalls /\ indexed \in SUBSET Endpoint!Blocks
      /\ forward \in Maybe /\ before.indexed \subseteq indexed
      /\ rpcCall.request.method = "logs" /\ LogsGood /\ RangeGood
      /\ from.kind \in {"latest", "earliest", "number", "hash"}
      /\ to.kind \in {"latest", "earliest", "number", "hash"}
      /\ from.block \in Endpoint!Blocks /\ to.block \in Endpoint!Blocks
  <2>1. rpcCall.request.method = "logs" /\ LogsGood /\ RangeGood
    BY <1>1, CallFacts DEF CallGood, MethodGood
  <2> QED
    BY <1>1, <2>1, CallFacts
<1>3. /\ \A b \in a : b \in indexed /\ b \in LogBlocks /\ rpcCall.from <= b /\ b <= rpcCall.to
      /\ \A b \in before.indexed :
           b \in LogBlocks /\ rpcCall.from <= b /\ b <= rpcCall.to => b \in a
  BY <1>1, <1>2 DEF LogsGood
<1>4. a \in Answers
  <2>1. a \in SUBSET Endpoint!Blocks
    BY <1>2
  <2> QED
    BY <2>1, Zenon DEF Answers
<1> HIDE DEF a
<1>5. rpcCall'.request = rpcCall.request /\ rpcCall'.answer = a
  BY <1>1, <1>2, <1>4, AnswerIs
<1>6. CASE from.kind = "hash"
  <2>1. rpcCall.from = from.block /\ rpcCall.to = from.block
    BY <1>1, <1>2, <1>6 DEF RangeGood
  <2>2. ASSUME NEW b \in a PROVE b = from.block
    <3>1. b \in indexed /\ from.block <= b /\ b <= from.block
      BY <1>3, <2>1
    <3>2. b \in Nat /\ from.block \in Nat
      BY <1>2, <3>1, EndpointConstants
    <3> QED
      BY <3>1, <3>2
  <2>3. from.block <= from.block
    BY <1>2, EndpointConstants
  <2>4. \A b \in before.indexed : b \in LogBlocks /\ b = from.block => b \in a
    BY <1>3, <2>1, <2>3
  <2>5. Endpoint!LogsComplete'
    BY <1>1, <1>3, <1>5, <1>6, <2>2, <2>4, LogsAnswered
  <2> QED
    BY <1>1, <1>2, <1>4, <2>5, AnswerHolds
<1>7. CASE from.kind # "hash"
  <2>1. LowEnd /\ HighEnd(rpcCall.to)
    BY <1>1, <1>2, <1>7 DEF RangeGood
  <2>2. ASSUME from.kind \in {"earliest", "number"}, to.kind # "earliest",
               Endpoint!Least(to) # None, NEW b \in a
        PROVE  /\ b \in indexed /\ b \in LogBlocks
               /\ from.kind = "number" => from.block <= b
               /\ b <= Endpoint!Resolve(to)
    <3>1. b \in indexed /\ b \in LogBlocks /\ rpcCall.from <= b /\ b <= rpcCall.to
      BY <1>3
    <3>2. b \in Nat /\ rpcCall.to \in Nat
      BY <1>2, <2>1, <3>1, EndpointConstants DEF HighEnd
    <3>3. Endpoint!Resolve(to) \in Nat /\ rpcCall.to <= Endpoint!Resolve(to)
      BY <1>2, <2>1, <2>2, EndpointConstants
         DEF HighEnd, Endpoint!Resolve, Endpoint!indexedHead, Maybe
    <3> QED
      BY <2>1, <3>1, <3>2, <3>3 DEF LowEnd
  <2>3. ASSUME from.kind \in {"earliest", "number"}, to.kind # "earliest",
               Endpoint!Least(to) # None, before.head # None,
               NEW b \in before.indexed, b \in LogBlocks,
               from.kind = "number" => from.block <= b,
               b <= Endpoint!Least(to), b <= before.head
        PROVE  b \in a
    <3>1. rpcCall.from <= b /\ b <= rpcCall.to
      BY <1>1, <2>1, <2>3, InsideEnds
    <3> QED
      BY <1>3, <2>3, <3>1
  <2>4. Endpoint!LogsComplete'
    BY <1>1, <1>5, <1>7, <2>2, <2>3, LogsAnswered
  <2> QED
    BY <1>1, <1>2, <1>4, <2>4, AnswerHolds
<1> QED
  BY <1>6, <1>7

-----------------------------------------------------------------------------
(* A call is made, and its answer leaves. *)

LEMMA AskHolds ==
  ASSUME EndpointInv, NEW r \in Requests, Endpoint!Ask(r)
  PROVE  EndpointInv'
<1>1. /\ rpcCall' = [Endpoint!NoCall EXCEPT !.pc = "start", !.request = r]
      /\ before' = [indexed |-> indexed, head |-> forward, heard |-> heard]
      /\ UNCHANGED <<height, indexed, forward, backfill, heard>>
  BY DEF Endpoint!Ask, Endpoint!chain
<1>2. /\ height \in Endpoint!Blocks /\ indexed \in SUBSET Endpoint!Blocks
      /\ forward \in Maybe /\ backfill \in Maybe \union {-1} /\ heard \in Maybe
      /\ forward # None => forward \in indexed
      /\ heard # None => heard \in indexed /\ forward # None /\ heard <= forward
  BY DEF EndpointInv, EndpointTypes, IndexGood
<1>3. rpcCall' \in RpcCalls /\ rpcCall'.pc = "start" /\ rpcCall'.request = r
  BY <1>1 DEF Endpoint!NoCall, RpcCalls, Maybe, Answers, EndpointPCs
<1>4. /\ before' \in Befores /\ before'.indexed = indexed /\ before'.head = forward
      /\ before'.heard = heard
  BY <1>1, <1>2 DEF Befores
<1>5. EndpointTypes' /\ IndexGood'
  BY <1>1, <1>2, <1>3, <1>4 DEF EndpointTypes, IndexGood
<1>6. SinceBefore'
  <2>1. forward # None => forward <= forward
    BY <1>2, EndpointConstants DEF Maybe
  <2> QED
    BY <1>1, <1>2, <1>4, <2>1 DEF SinceBefore
<1>7. MethodGood' /\ ParameterGood' /\ WindowGood' /\ RangeGood' /\ LogsGood' /\ FloorGood'
  BY <1>3 DEF MethodGood, ParameterGood, WindowGood, RangeGood, LogsGood, FloorGood
<1>8. AnswersGood' /\ CountGood'
  BY <1>3, NoAnswerYet
<1> QED
  BY <1>5, <1>6, <1>7, <1>8 DEF EndpointInv, CallGood

LEMMA DoneHolds ==
  ASSUME EndpointInv, Endpoint!Done
  PROVE  EndpointInv'
<1>1. /\ rpcCall' = Endpoint!NoCall
      /\ height' = height /\ indexed' = indexed /\ forward' = forward /\ backfill' = backfill
      /\ heard' = heard
  BY DEF Endpoint!Done, Endpoint!chain
<1>2. rpcCall' \in RpcCalls /\ rpcCall'.pc = "idle"
  BY <1>1 DEF Endpoint!NoCall, RpcCalls, Maybe, Answers, EndpointPCs
<1>3. EndpointTypes' /\ IndexGood' /\ SinceBefore'
  BY <1>1, <1>2 DEF EndpointInv, EndpointTypes, IndexGood, SinceBefore
<1>4. MethodGood' /\ ParameterGood' /\ WindowGood' /\ RangeGood' /\ LogsGood' /\ FloorGood'
  BY <1>2 DEF MethodGood, ParameterGood, WindowGood, RangeGood, LogsGood, FloorGood
<1>5. AnswersGood' /\ CountGood'
  BY <1>2, NoAnswerYet
<1> QED
  BY <1>3, <1>4, <1>5 DEF EndpointInv, CallGood

LEMMA EndpointStepHolds ==
  ASSUME EndpointInv, [Endpoint!Next]_endpointVars
  PROVE  EndpointInv'
<1>1. CASE Endpoint!ChainStep
  BY <1>1, ChainKeepsCall, ChainKeepsAnswers DEF EndpointInv
<1>2. CASE \E r \in Requests : Endpoint!Ask(r)
  BY <1>2, AskHolds
<1>3. CASE Endpoint!CallStep
  BY <1>3, AnswerHeadHolds, ResolveBlockTagHolds, CountSentHolds, ReadBalanceHolds,
     ReadFloorHolds, ReadBlockHolds, ReadTransactionsHolds, ReadWindowHolds, ReadSamplesHolds,
     LogsOfHashHolds, LogsHeadHolds, ResolveFromHolds, ResolveToHolds, QueryLogsHolds,
     ReadHashesHolds DEF Endpoint!CallStep
<1>4. CASE Endpoint!Done
  BY <1>4, DoneHolds
<1>5. CASE UNCHANGED endpointVars
  <2>1. /\ rpcCall' = rpcCall /\ before' = before /\ heard' = heard
        /\ height' = height /\ indexed' = indexed /\ forward' = forward /\ backfill' = backfill
    BY <1>5 DEF endpointVars
  <2>2. EndpointTypes' /\ IndexGood' /\ SinceBefore'
    BY <2>1 DEF EndpointInv, EndpointTypes, IndexGood, SinceBefore
  <2>3. CallGood'
    BY <2>1 DEF EndpointInv, CallGood, MethodGood, ParameterGood, WindowGood, RangeGood,
       LogsGood, FloorGood, CountGood, Named, Reach, LowEnd, HighEnd
  <2>4. Endpoint!LogsComplete' /\ Endpoint!ReadsNotBehind'
    BY <2>1 DEF EndpointInv, AnswersGood, Endpoint!LogsComplete, Endpoint!ReadsNotBehind,
       Endpoint!Answered, Endpoint!Asked, Endpoint!At, Endpoint!Least, Endpoint!Resolve,
       Endpoint!indexedHead, Endpoint!MinStoredBlock
  <2>5. Endpoint!HeadHolds' /\ Endpoint!FeesAligned'
    BY <2>1 DEF EndpointInv, AnswersGood, Endpoint!HeadHolds, Endpoint!FeesAligned,
       Endpoint!Answered, Endpoint!Asked, Endpoint!At, Endpoint!Entries
  <2> QED
    BY <2>2, <2>3, <2>4, <2>5 DEF EndpointInv, AnswersGood
<1> QED
  BY <1>1, <1>2, <1>3, <1>4, <1>5 DEF Endpoint!Next
-----------------------------------------------------------------------------
(* The table of top transactions.  A writer decides on what it sees, so    *)
(* what the invariant says of a row that is missing, or that a writer has  *)
(* deleted, must outlast what others do meanwhile: as many transactions    *)
(* as the table keeps come before it among the blocks that are stored, or  *)
(* that the writer will have stored when it commits.  RecordBlocks are never     *)
(* taken back, so this stays true, whichever version of them is stored.    *)

\* The transactions of some blocks, whatever the version of the blocks.
Places(B) == [block : B, position : Positions, version : {1}]

Above(r, S) == {s \in S : TopTransactions!Before(s, r)}

\* The blocks B alone keep a transaction out of the table.
Beaten(r, B) == MaxRecords <= Cardinality(Above(r, Places(B)))

StoredBlocks == {b \in RecordBlocks : stored[b] # None}

\* The blocks that are stored when w commits, at the least.
Known(w) == StoredBlocks \union {saving[w]}

\* The transactions of the block that w saves.
Own(w) == [block : {saving[w]}, position : Positions, version : {version[w]}]

TopSteps == {"idle", "delete", "minimum", "insert", "prune", "commit"}

TopTypes ==
  /\ stored \in [RecordBlocks -> TopTransactions!Versions \union {None}]
  /\ records \in SUBSET TopTransactions!Rows
  /\ saving \in [Writers -> RecordBlocks \union {None}]
  /\ step \in [Writers -> TopSteps]
  /\ version \in [Writers -> TopTransactions!Versions]
  /\ mine \in [Writers -> SUBSET TopTransactions!Rows]
  /\ deleted \in [Writers -> SUBSET TopTransactions!Rows]
  /\ minimum \in [Writers -> Nat]
  /\ saves \in [RecordBlocks -> 0..MaxSaves]

\* The locks: no two writers have a block, or have deleted a row.
WritersApart ==
  /\ \A w \in Writers : saving[w] = None <=> step[w] = "idle"
  /\ \A v, w \in Writers : v # w /\ saving[v] = saving[w] => saving[v] = None
  /\ \A v, w \in Writers : v # w => deleted[v] \intersect deleted[w] = {}
  /\ \A w \in Writers : deleted[w] \subseteq records

\* The rows of a writer are of its block, of which it has deleted what was there.
OwnRows(w) ==
  /\ mine[w] \subseteq Own(w)
  /\ step[w] \notin {"prune", "commit"} => mine[w] = {}
  /\ step[w] \in {"idle", "delete"} => deleted[w] = {}
  /\ step[w] \notin {"idle", "delete"} =>
       \A r \in records : r.block = saving[w] => r \in deleted[w]

\* What a writer has deleted or passed over is not missed when it commits.
Justified(w) ==
  /\ \A r \in deleted[w] : r.block = saving[w] \/ Beaten(r, Known(w))
  /\ step[w] \in {"prune", "commit"} =>
       \A r \in Own(w) : r \in mine[w] \/ Beaten(r, Known(w))
  /\ step[w] = "insert" =>
       \A r \in Own(w) : TopTransactions!RecordValue(r) < minimum[w] => Beaten(r, Known(w))

NoneMissed ==
  \A r \in TopTransactions!AllRows : r \in records \/ Beaten(r, StoredBlocks)

\* The table is the shares of the writers together, and a writer that is about to
\* commit leaves no more of its share and its own rows than the table keeps.
Share(w, K) ==
  /\ K[w] \subseteq records /\ Cardinality(K[w]) <= MaxRecords
  /\ step[w] = "commit" => Cardinality(mine[w] \union (K[w] \ deleted[w])) <= MaxRecords

Shared ==
  \E K \in [Writers -> SUBSET TopTransactions!Rows] :
    /\ \A w \in Writers : Share(w, K)
    /\ \A r \in records : \E w \in Writers : r \in K[w]

TopInv ==
  /\ TopTypes /\ WritersApart /\ TopTransactions!RecordsAreOfStoredBlocks /\ NoneMissed
  /\ \A w \in Writers : OwnRows(w) /\ Justified(w)
  /\ Shared

-----------------------------------------------------------------------------
(* Sets of rows and how many they are.                                     *)

LEMMA TopCardinality ==
  /\ \A S : TopTransactions!Cardinality(S) = Cardinality(S)
  /\ \A S : TopTransactions!IsFiniteSet(S) <=> IsFiniteSet(S)
  BY DEF TopTransactions!Cardinality, Cardinality, TopTransactions!IsFiniteSet, IsFiniteSet

LEMMA TopConstants ==
  /\ RecordBlocks \in SUBSET Nat /\ Positions \in SUBSET Nat /\ None \notin Nat
  /\ IsFiniteSet(RecordBlocks) /\ IsFiniteSet(Positions) /\ IsFiniteSet(Writers)
  /\ recordValue \in [RecordBlocks \X Positions -> Nat]
  /\ MaxRecords \in Nat /\ MaxRecords >= 1 /\ MaxSaves \in Nat /\ MaxSaves >= 1
<1>1. TopTransactions!RecordsAssumption
  BY TopBounds
<1>2. /\ RecordBlocks \in SUBSET Nat /\ Positions \in SUBSET Nat /\ None \notin Nat
      /\ recordValue \in [RecordBlocks \X Positions -> Nat]
      /\ MaxRecords \in Nat \ {0} /\ MaxSaves \in Nat \ {0}
  BY <1>1 DEF TopTransactions!RecordsAssumption
<1>3. IsFiniteSet(RecordBlocks) /\ IsFiniteSet(Positions) /\ IsFiniteSet(Writers)
  BY <1>1, TopCardinality, Zenon DEF TopTransactions!RecordsAssumption
<1> QED
  BY <1>2, <1>3

\* A set that can be told apart within another is no larger.
LEMMA OneToOne ==
  ASSUME NEW S, NEW T, IsFiniteSet(T), NEW f \in [S -> T],
         \A a, b \in S : f[a] = f[b] => a = b
  PROVE  IsFiniteSet(S) /\ Cardinality(S) <= Cardinality(T)
<1>1. f \in Injection(S, T)
  BY Fun_IsInj
<1> QED
  BY <1>1, FS_Injection

LEMMA RowFacts ==
  /\ \A r \in TopTransactions!Rows :
       /\ r.block \in RecordBlocks /\ r.position \in Positions
       /\ r.version \in TopTransactions!Versions
       /\ r.block \in Nat /\ r.position \in Nat
       /\ TopTransactions!RecordValue(r) \in Nat
  /\ \A r, s \in TopTransactions!Rows :
       r.block = s.block /\ r.position = s.position /\ r.version = s.version => r = s
<1>1. \A r \in TopTransactions!Rows :
        /\ r.block \in RecordBlocks /\ r.position \in Positions
        /\ r.version \in TopTransactions!Versions
  BY DEF TopTransactions!Rows
<1>2. \A r \in TopTransactions!Rows :
        r.block \in Nat /\ r.position \in Nat /\ TopTransactions!RecordValue(r) \in Nat
  BY <1>1, TopConstants DEF TopTransactions!RecordValue
<1> QED
  BY <1>1, <1>2 DEF TopTransactions!Rows

LEMMA RowsFinite ==
  /\ IsFiniteSet(TopTransactions!Rows)
  /\ \A B \in SUBSET RecordBlocks : Places(B) \in SUBSET TopTransactions!Rows
<1>1. IsFiniteSet((RecordBlocks \X Positions) \X TopTransactions!Versions)
  <2>1. IsFiniteSet(TopTransactions!Versions)
    <3>1. 1 \in Int /\ MaxSaves \in Int
      BY TopConstants
    <3> QED
      BY <3>1, FS_Interval DEF TopTransactions!Versions
  <2>2. IsFiniteSet(RecordBlocks \X Positions)
    BY TopConstants, FS_Product
  <2> QED
    BY <2>1, <2>2, FS_Product
<1> DEFINE f == [r \in TopTransactions!Rows |-> <<<<r.block, r.position>>, r.version>>]
<1>2. f \in [TopTransactions!Rows -> (RecordBlocks \X Positions) \X TopTransactions!Versions]
  BY RowFacts
<1>3. \A a, b \in TopTransactions!Rows : f[a] = f[b] => a = b
  BY RowFacts
<1> HIDE DEF f
<1>4. IsFiniteSet(TopTransactions!Rows)
  BY <1>1, <1>2, <1>3, OneToOne
<1>5. 1 \in TopTransactions!Versions
  BY TopConstants DEF TopTransactions!Versions
<1> QED
  BY <1>4, <1>5 DEF Places, TopTransactions!Rows

\* Every set of rows, and what comes before a row in it.
LEMMA AboveFinite ==
  ASSUME NEW S \in SUBSET TopTransactions!Rows, NEW r
  PROVE  /\ IsFiniteSet(S) /\ Cardinality(S) \in Nat
         /\ IsFiniteSet(Above(r, S)) /\ Cardinality(Above(r, S)) \in Nat
         /\ Above(r, S) \in SUBSET TopTransactions!Rows
<1>1. Above(r, S) \in SUBSET TopTransactions!Rows
  BY DEF Above
<1> QED
  BY <1>1, RowsFinite, FS_Subset, FS_CardinalityType

LEMMA BeforeIsOrder ==
  /\ \A r, s, t \in TopTransactions!Rows :
       TopTransactions!Before(r, s) /\ TopTransactions!Before(s, t)
         => TopTransactions!Before(r, t)
  /\ \A r \in TopTransactions!Rows : ~TopTransactions!Before(r, r)
  /\ \A r, s \in TopTransactions!Rows :
       \/ TopTransactions!Before(r, s) \/ TopTransactions!Before(s, r)
       \/ r.block = s.block /\ r.position = s.position
<1> HIDE DEF TopTransactions!RecordValue, TopTransactions!Rows
<1> QED
  BY RowFacts DEF TopTransactions!Before

LEMMA TopIs ==
  \A n, S : TopTransactions!Top(n, S) = {r \in S : Cardinality(Above(r, S)) < n}
  BY TopCardinality, Zenon DEF TopTransactions!Top, Above

\* A set with one row of each transaction.
OneRowEach(S) ==
  \A r, s \in S : r.block = s.block /\ r.position = s.position => r = s

LEMMA TopIsSmall ==
  ASSUME NEW S \in SUBSET TopTransactions!Rows, OneRowEach(S), NEW n \in Nat
  PROVE  Cardinality(TopTransactions!Top(n, S)) <= n
<1> DEFINE T == TopTransactions!Top(n, S)
           rank == [r \in T |-> Cardinality(Above(r, S))]
<1>1. \A r \in T : r \in S /\ r \in TopTransactions!Rows /\ Cardinality(Above(r, S)) < n
  BY TopIs
<1>2. \A r : Cardinality(Above(r, S)) \in Nat /\ IsFiniteSet(Above(r, S))
  BY AboveFinite
<1> HIDE DEF T
<1>3. rank \in [T -> 0..(n - 1)]
  BY <1>1, <1>2
<1>4. ASSUME NEW a \in S, NEW b \in S, TopTransactions!Before(a, b)
      PROVE  Cardinality(Above(a, S)) < Cardinality(Above(b, S))
  <2>1. a \notin Above(a, S) /\ Above(a, S) \union {a} \in SUBSET Above(b, S)
    BY <1>4, BeforeIsOrder DEF Above
  <2>2. Cardinality(Above(a, S) \union {a}) = Cardinality(Above(a, S)) + 1
    BY <1>2, <2>1, FS_AddElement
  <2>3. Cardinality(Above(a, S) \union {a}) <= Cardinality(Above(b, S))
    BY <1>2, <2>1, FS_Subset
  <2> QED
    BY <1>2, <2>2, <2>3
<1>5. \A a, b \in T : rank[a] = rank[b] => a = b
  <2> SUFFICES ASSUME NEW a \in T, NEW b \in T,
                      Cardinality(Above(a, S)) = Cardinality(Above(b, S))
               PROVE  a = b
    OBVIOUS
  <2>1. a \in S /\ b \in S /\ a \in TopTransactions!Rows /\ b \in TopTransactions!Rows
    BY <1>1
  <2>2. ~TopTransactions!Before(a, b) /\ ~TopTransactions!Before(b, a)
    BY <1>2, <1>4, <2>1
  <2> QED
    BY <2>1, <2>2, BeforeIsOrder DEF OneRowEach
<1>6. IsFiniteSet(0..(n - 1)) /\ Cardinality(0..(n - 1)) = n
  BY FS_Interval
<1> HIDE DEF rank
<1>7. IsFiniteSet(T) /\ Cardinality(T) <= n
  BY <1>3, <1>5, <1>6, OneToOne
<1> QED
  BY <1>7 DEF T

\* The rows before one, told apart, are as many transactions before it.
LEMMA RowsAreOfPlaces ==
  ASSUME NEW B \in SUBSET RecordBlocks, NEW S \in SUBSET TopTransactions!Rows, OneRowEach(S),
         \A s \in S : s.block \in B, NEW r, NEW U \in SUBSET Above(r, Places(B) \union S),
         U \subseteq S
  PROVE  Cardinality(U) <= Cardinality(Above(r, Places(B)))
<1> DEFINE f == [s \in U |-> [block |-> s.block, position |-> s.position, version |-> 1]]
<1>1. \A s \in U : s \in S /\ s \in TopTransactions!Rows /\ TopTransactions!Before(s, r)
  BY DEF Above
<1>2. \A s \in U : f[s] \in Places(B)
  BY <1>1, RowFacts DEF Places
<1>3. \A s \in U : TopTransactions!Before(f[s], r)
  BY <1>1 DEF TopTransactions!Before, TopTransactions!RecordValue
<1>4. f \in [U -> Above(r, Places(B))]
  BY <1>2, <1>3 DEF Above
<1>5. \A a, b \in U : f[a] = f[b] => a = b
  BY <1>1 DEF OneRowEach
<1>6. IsFiniteSet(Above(r, Places(B)))
  BY RowsFinite, AboveFinite
<1> HIDE DEF f
<1> QED
  BY <1>4, <1>5, <1>6, OneToOne

LEMMA OutIsBeaten ==
  ASSUME NEW B \in SUBSET RecordBlocks, NEW S \in SUBSET TopTransactions!Rows, OneRowEach(S),
         \A s \in S : s.block \in B, NEW r \in S \ TopTransactions!Top(MaxRecords, S)
  PROVE  Beaten(r, B)
<1>1. ~(Cardinality(Above(r, S)) < MaxRecords)
  BY TopIs
<1>2. Above(r, S) \in SUBSET Above(r, Places(B) \union S) /\ Above(r, S) \subseteq S
  BY DEF Above
<1>3. Cardinality(Above(r, S)) <= Cardinality(Above(r, Places(B)))
  BY <1>2, RowsAreOfPlaces
<1>4. Cardinality(Above(r, S)) \in Nat /\ Cardinality(Above(r, Places(B))) \in Nat
  BY RowsFinite, AboveFinite
<1> QED
  BY <1>1, <1>3, <1>4, TopConstants DEF Beaten

\* A value below the minimum of some rows is below that of as many as count.
LEMMA BelowMinimumIsBeaten ==
  ASSUME NEW B \in SUBSET RecordBlocks, NEW S \in SUBSET TopTransactions!Rows, OneRowEach(S),
         \A s \in S : s.block \in B, NEW q \in TopTransactions!Rows,
         TopTransactions!RecordValue(q) < TopTransactions!MinimumOf(S)
  PROVE  Beaten(q, B)
<1> DEFINE Last(r) == Cardinality(Above(r, S)) = MaxRecords - 1
           l == CHOOSE r \in S : Last(r)
<1>1. TopTransactions!MinimumOf(S) =
        IF \E r \in S : Last(r) THEN TopTransactions!RecordValue(l) ELSE 0
  BY TopCardinality, Zenon DEF TopTransactions!MinimumOf, Above
<1>2. TopTransactions!RecordValue(q) \in Nat
  BY RowFacts
<1>3. \E r \in S : Last(r)
  BY <1>1, <1>2
<1>4. l \in S /\ Last(l)
  BY <1>3
<1>5. TopTransactions!RecordValue(q) < TopTransactions!RecordValue(l)
  BY <1>1, <1>3
<1> HIDE DEF l
<1>6. /\ Above(l, S) \union {l} \in SUBSET Above(q, Places(B) \union S)
      /\ Above(l, S) \union {l} \subseteq S
  BY <1>4, <1>5, RowFacts DEF Above, TopTransactions!Before
<1>7. l \notin Above(l, S)
  BY <1>4, BeforeIsOrder DEF Above
<1>8. IsFiniteSet(Above(l, S)) /\ Cardinality(Above(l, S)) \in Nat
  BY AboveFinite
<1>9. Cardinality(Above(l, S) \union {l}) = MaxRecords
  <2> DEFINE d == Above(l, S)
  <2>1. l \notin d /\ IsFiniteSet(d) /\ Cardinality(d) = MaxRecords - 1
    BY <1>4, <1>7, <1>8
  <2> HIDE DEF d
  <2>2. Cardinality(d \union {l}) = Cardinality(d) + 1
    BY <2>1, FS_AddElement
  <2>3. Cardinality(d \union {l}) = MaxRecords
    BY <2>1, <2>2, TopConstants
  <2> QED
    BY <2>3 DEF d
<1>10. Cardinality(Above(l, S) \union {l}) <= Cardinality(Above(q, Places(B)))
  BY <1>6, RowsAreOfPlaces
<1> QED
  BY <1>9, <1>10 DEF Beaten

LEMMA BeatenStays ==
  ASSUME NEW B, NEW C \in SUBSET RecordBlocks, B \subseteq C, NEW r, Beaten(r, B)
  PROVE  Beaten(r, C)
<1>1. Above(r, Places(B)) \in SUBSET Above(r, Places(C))
  BY DEF Above, Places
<1>2. /\ IsFiniteSet(Above(r, Places(C))) /\ Cardinality(Above(r, Places(C))) \in Nat
      /\ Cardinality(Above(r, Places(B))) \in Nat
  BY RowsFinite, AboveFinite
<1>3. Cardinality(Above(r, Places(B))) <= Cardinality(Above(r, Places(C)))
  BY <1>1, <1>2, FS_Subset
<1> QED
  BY <1>2, <1>3, TopConstants DEF Beaten

\* What is beaten among the stored blocks does not belong in the table.
LEMMA BeatenIsOut ==
  ASSUME TopTypes, NEW r, Beaten(r, StoredBlocks)
  PROVE  r \notin TopTransactions!Top(MaxRecords, TopTransactions!AllRows)
<1> DEFINE U == Above(r, Places(StoredBlocks))
           A == TopTransactions!AllRows
           f == [s \in U |-> [block |-> s.block, position |-> s.position,
                              version |-> stored[s.block]]]
<1>1. A \in SUBSET TopTransactions!Rows
  BY DEF TopTransactions!AllRows
<1>2. \A s \in U : /\ s.block \in RecordBlocks /\ s.position \in Positions
                   /\ stored[s.block] \in TopTransactions!Versions
                   /\ s \in [block : RecordBlocks, position : Positions, version : {1}]
                   /\ TopTransactions!Before(s, r)
  BY DEF Above, Places, StoredBlocks, TopTypes
<1>3. \A s \in U : f[s] \in A
  BY <1>2 DEF TopTransactions!AllRows, TopTransactions!Rows
<1>4. \A s \in U : TopTransactions!Before(f[s], r)
  BY <1>2 DEF TopTransactions!Before, TopTransactions!RecordValue
<1>5. f \in [U -> Above(r, A)]
  BY <1>3, <1>4 DEF Above
<1>6. \A a, b \in U : f[a] = f[b] => a = b
  BY <1>2
<1>7. IsFiniteSet(Above(r, A)) /\ Cardinality(Above(r, A)) \in Nat
  BY <1>1, AboveFinite
<1> HIDE DEF f, U, A
<1>8. IsFiniteSet(U) /\ Cardinality(U) <= Cardinality(Above(r, A))
  BY <1>5, <1>6, <1>7, OneToOne
<1>9. MaxRecords <= Cardinality(U)
  BY DEF Beaten, U
<1>10. Cardinality(U) \in Nat
  BY <1>8, FS_CardinalityType
<1>11. ~(Cardinality(Above(r, A)) < MaxRecords)
  BY <1>7, <1>8, <1>9, <1>10, TopConstants
<1> QED
  BY <1>11, TopIs DEF A

\* The shares together are no more than their number allows.
LEMMA SharesAreBounded ==
  ASSUME TopTypes, Shared
  PROVE  Cardinality(records) <= MaxRecords * Cardinality(Writers)
<1>1. PICK K \in [Writers -> SUBSET TopTransactions!Rows] :
        /\ \A w \in Writers : Share(w, K)
        /\ \A r \in records : \E w \in Writers : r \in K[w]
  BY DEF Shared
<1>2. \A w \in Writers :
        /\ K[w] \in SUBSET TopTransactions!Rows /\ IsFiniteSet(K[w])
        /\ Cardinality(K[w]) \in Nat /\ Cardinality(K[w]) <= MaxRecords
  BY <1>1, AboveFinite DEF Share
\* Number the rows of each share.
<1>3. \A w \in Writers : \E f \in [K[w] -> 1..MaxRecords] :
        \A a, b \in K[w] : f[a] = f[b] => a = b
  <2> SUFFICES ASSUME NEW w \in Writers
               PROVE  \E f \in [K[w] -> 1..MaxRecords] :
                        \A a, b \in K[w] : f[a] = f[b] => a = b
    OBVIOUS
  <2>1. PICK g \in Bijection(1..Cardinality(K[w]), K[w]) : TRUE
    BY <1>2, FS_CardinalityType DEF ExistsBijection
  <2> DEFINE f == Inverse(g, 1..Cardinality(K[w]), K[w])
  <2>2. f \in Bijection(K[w], 1..Cardinality(K[w]))
    BY Fun_BijInverse
  <2> HIDE DEF f
  <2>3. f \in [K[w] -> 1..Cardinality(K[w])] /\ \A a, b \in K[w] : f[a] = f[b] => a = b
    BY <2>2 DEF Bijection, Injection, IsInjective
  <2>4. 1..Cardinality(K[w]) \subseteq 1..MaxRecords
    BY <1>2, TopConstants
  <2> QED
    BY <2>3, <2>4
<1> DEFINE owner == [r \in records |-> CHOOSE w \in Writers : r \in K[w]]
           nr == [w \in Writers |-> CHOOSE f \in [K[w] -> 1..MaxRecords] :
                    \A a, b \in K[w] : f[a] = f[b] => a = b]
           id == [r \in records |-> <<nr[owner[r]][r], owner[r]>>]
<1>4. \A r \in records : owner[r] \in Writers /\ r \in K[owner[r]]
  BY <1>1
<1>5. \A w \in Writers : /\ nr[w] \in [K[w] -> 1..MaxRecords]
                         /\ \A a, b \in K[w] : nr[w][a] = nr[w][b] => a = b
  BY <1>3
<1> HIDE DEF owner, nr
<1>6. id \in [records -> (1..MaxRecords) \X Writers]
  BY <1>4, <1>5
<1>7. \A a, b \in records : id[a] = id[b] => a = b
  BY <1>4, <1>5
<1>8. /\ IsFiniteSet(1..MaxRecords) /\ Cardinality(1..MaxRecords) = MaxRecords
      /\ IsFiniteSet((1..MaxRecords) \X Writers)
      /\ Cardinality((1..MaxRecords) \X Writers) = MaxRecords * Cardinality(Writers)
  <2>1. IsFiniteSet(1..MaxRecords) /\ Cardinality(1..MaxRecords) = MaxRecords
    BY TopConstants, FS_Interval
  <2> QED
    BY <2>1, TopConstants, FS_Product
<1> HIDE DEF id
<1> QED
  BY <1>6, <1>7, <1>8, OneToOne

-----------------------------------------------------------------------------
(* The steps of the writers.                                               *)

LEMMA TopInvImplies ==
  ASSUME TopInv
  PROVE  /\ TopTransactions!TypeOK /\ TopTransactions!RecordsAreOfStoredBlocks
         /\ TopTransactions!NoRecordLost /\ TopTransactions!TableBounded
<1>1. TopTransactions!TypeOK
  BY DEF TopInv, TopTypes, TopSteps, WritersApart, TopTransactions!TypeOK
<1>2. TopTransactions!NoRecordLost
  <2>1. \A n, S : TopTransactions!Top(n, S) \subseteq S
    BY TopIs
  <2> QED
    BY <2>1, BeatenIsOut DEF TopInv, NoneMissed, TopTransactions!NoRecordLost
<1>3. TopTransactions!TableBounded
  <2>1. Cardinality(records) <= MaxRecords * Cardinality(Writers)
    BY SharesAreBounded DEF TopInv
  <2> QED
    BY <2>1, TopCardinality, Zenon DEF TopTransactions!TableBounded
<1> QED
  BY <1>1, <1>2, <1>3 DEF TopInv

LEMMA TopStarts ==
  ASSUME TopTransactions!Init
  PROVE  TopInv
<1>0. /\ stored = [b \in RecordBlocks |-> None] /\ records = {}
      /\ saving = [w \in Writers |-> None] /\ step = [w \in Writers |-> "idle"]
      /\ version = [w \in Writers |-> 1] /\ mine = [w \in Writers |-> {}]
      /\ deleted = [w \in Writers |-> {}] /\ minimum = [w \in Writers |-> 0]
      /\ saves = [b \in RecordBlocks |-> 0]
  BY DEF TopTransactions!Init
<1>1. TopTypes
  BY <1>0, TopConstants DEF TopTypes, TopSteps, TopTransactions!Versions
<1>2. WritersApart
  BY <1>0 DEF WritersApart
<1>3. TopTransactions!RecordsAreOfStoredBlocks
  BY <1>0 DEF TopTransactions!RecordsAreOfStoredBlocks
<1>4. NoneMissed
  <2>1. \A r \in TopTransactions!Rows : r.version \in Nat /\ stored[r.block] = None
    BY <1>0, RowFacts DEF TopTransactions!Versions
  <2> QED
    BY <2>1, TopConstants DEF NoneMissed, TopTransactions!AllRows
<1>5. \A w \in Writers : OwnRows(w) /\ Justified(w)
  BY <1>0 DEF OwnRows, Justified
<1>6. Shared
  <2> DEFINE K == [w \in Writers |-> {}]
  <2>1. K \in [Writers -> SUBSET TopTransactions!Rows]
    OBVIOUS
  <2>2. \A w \in Writers : Share(w, K)
    BY <1>0, TopConstants, FS_EmptySet DEF Share
  <2> HIDE DEF K
  <2> QED
    BY <1>0, <2>1, <2>2 DEF Shared
<1> QED
  BY <1>1, <1>2, <1>3, <1>4, <1>5, <1>6 DEF TopInv

LEMMA KnownBlocks ==
  ASSUME TopTypes, WritersApart, NEW w \in Writers, step[w] # "idle"
  PROVE  /\ saving[w] \in RecordBlocks /\ version[w] \in TopTransactions!Versions
         /\ Known(w) \in SUBSET RecordBlocks /\ StoredBlocks \in SUBSET RecordBlocks
  BY DEF TopTypes, WritersApart, Known, StoredBlocks

LEMMA OwnIs ==
  ASSUME TopTypes, WritersApart, NEW w \in Writers, step[w] # "idle"
  PROVE  /\ Own(w) \in SUBSET TopTransactions!Rows /\ OneRowEach(Own(w))
         /\ \A r \in Own(w) : r.block = saving[w] /\ r.version = version[w]
         /\ \A r \in Own(w) : r.block \in Known(w)
<1>1. saving[w] \in RecordBlocks /\ version[w] \in TopTransactions!Versions
  BY KnownBlocks
<1>2. Own(w) \in SUBSET TopTransactions!Rows
  BY <1>1 DEF Own, TopTransactions!Rows
<1>3. \A r \in Own(w) : r.block = saving[w] /\ r.version = version[w]
  BY DEF Own
<1> QED
  BY <1>2, <1>3, RowFacts DEF OneRowEach, Known

\* What a writer sees: at most one row of each transaction.
LEMMA VisibleIs ==
  ASSUME TopInv, NEW w \in Writers, step[w] \notin {"idle", "delete"}
  PROVE  /\ TopTransactions!Visible(w) \in SUBSET TopTransactions!Rows
         /\ OneRowEach(TopTransactions!Visible(w))
         /\ \A r \in TopTransactions!Visible(w) : r.block \in Known(w)
<1> DEFINE V == TopTransactions!Visible(w)
<1>1. /\ TopTypes /\ WritersApart /\ OwnRows(w)
      /\ records \subseteq TopTransactions!AllRows
  BY DEF TopInv, TopTransactions!RecordsAreOfStoredBlocks
<1>2. /\ Own(w) \in SUBSET TopTransactions!Rows
      /\ \A r \in Own(w) : r.block = saving[w] /\ r.version = version[w]
  BY <1>1, OwnIs
<1>3. \A r \in V : \/ /\ r \in TopTransactions!Rows /\ stored[r.block] = r.version
                      /\ r.block # saving[w]
                   \/ r \in Own(w)
  BY <1>1 DEF TopTransactions!Visible, TopTransactions!AllRows, OwnRows
<1>4. V \in SUBSET TopTransactions!Rows
  BY <1>2, <1>3
<1>5. OneRowEach(V)
  BY <1>2, <1>3, RowFacts DEF OneRowEach
<1>6. \A r \in V : r.block \in Known(w)
  <2>1. \A r \in TopTransactions!Rows : r.version # None
    BY RowFacts, TopConstants DEF TopTransactions!Versions
  <2> QED
    BY <1>2, <1>3, <2>1, RowFacts DEF Known, StoredBlocks
<1> QED
  BY <1>4, <1>5, <1>6

\* The state of x's transaction stays.
Unmoved(x) ==
  /\ saving'[x] = saving[x] /\ step'[x] = step[x] /\ version'[x] = version[x]
  /\ mine'[x] = mine[x] /\ deleted'[x] = deleted[x] /\ minimum'[x] = minimum[x]

\* Others move: what x has decided still stands.
LEMMA DecisionsStand ==
  ASSUME TopInv, TopTypes', WritersApart', NEW x \in Writers, Unmoved(x),
         StoredBlocks \subseteq StoredBlocks',
         \A r \in records' : r \in records \/ r.block # saving[x]
  PROVE  OwnRows(x)' /\ Justified(x)'
<1>1. OwnRows(x)' /\ Own(x)' = Own(x)
  BY DEF TopInv, OwnRows, Own, Unmoved
<1>2. CASE step[x] = "idle"
  BY <1>1, <1>2 DEF TopInv, OwnRows, Justified, Unmoved
<1>3. CASE step[x] # "idle"
  <2>1. Known(x)' \in SUBSET RecordBlocks
    <3>1. step'[x] # "idle"
      BY <1>3 DEF Unmoved
    <3>2. saving'[x] \in RecordBlocks
      BY <3>1 DEF TopTypes, WritersApart
    <3> QED
      BY <3>2 DEF Known, StoredBlocks
  <2>2. Known(x) \subseteq Known(x)'
    BY DEF Known, Unmoved
  <2>3. \A r : Beaten(r, Known(x)) => Beaten(r, Known(x))'
    <3>1. \A r : Beaten(r, Known(x))' <=> Beaten(r, Known(x)')
      BY DEF Beaten, Above, Places, TopTransactions!Before, TopTransactions!RecordValue
    <3> QED
      BY <2>1, <2>2, <3>1, BeatenStays
  <2> QED
    BY <1>1, <2>3 DEF TopInv, Justified, Unmoved
<1> QED
  BY <1>2, <1>3

\* A step within w's transaction.
LEMMA WriterMoves ==
  ASSUME TopInv, NEW w \in Writers, UNCHANGED <<stored, records>>,
         \A x \in Writers \ {w} : Unmoved(x),
         TopTypes', WritersApart', OwnRows(w)', Justified(w)',
         \A K \in [Writers -> SUBSET TopTransactions!Rows] :
           Share(w, K) /\ step'[w] = "commit"
             => Cardinality(mine'[w] \union (K[w] \ deleted'[w])) <= MaxRecords
  PROVE  TopInv'
<1>1. StoredBlocks' = StoredBlocks
  BY DEF StoredBlocks
<1>2. \A x \in Writers : OwnRows(x)' /\ Justified(x)'
  <2> SUFFICES ASSUME NEW x \in Writers, x # w
               PROVE  OwnRows(x)' /\ Justified(x)'
    OBVIOUS
  <2> QED
    BY <1>1, DecisionsStand
<1>3. TopTransactions!RecordsAreOfStoredBlocks' /\ NoneMissed'
  <2>1. TopTransactions!AllRows' = TopTransactions!AllRows
    BY DEF TopTransactions!AllRows
  <2>2. \A r : Beaten(r, StoredBlocks)' <=> Beaten(r, StoredBlocks)
    BY <1>1 DEF Beaten, Above, Places, TopTransactions!Before, TopTransactions!RecordValue
  <2> QED
    BY <2>1, <2>2 DEF TopInv, NoneMissed, TopTransactions!RecordsAreOfStoredBlocks
<1>4. Shared'
  <2>1. PICK K \in [Writers -> SUBSET TopTransactions!Rows] :
          /\ \A x \in Writers : Share(x, K)
          /\ \A r \in records : \E x \in Writers : r \in K[x]
    BY DEF TopInv, Shared
  <2>2. \A x \in Writers : Share(x, K)'
    BY <2>1 DEF Share, Unmoved
  <2> QED
    BY <2>1, <2>2 DEF Shared
<1> QED
  BY <1>2, <1>3, <1>4 DEF TopInv

LEMMA SaveBlockRowHolds ==
  ASSUME TopInv, NEW w \in Writers, NEW b \in RecordBlocks, TopTransactions!SaveBlockRow(w, b)
  PROVE  TopInv'
<1>1. /\ step[w] = "idle" /\ saves[b] < MaxSaves
      /\ \A v \in Writers : saving[v] # b
      /\ saves' = [saves EXCEPT ![b] = @ + 1]
      /\ version' = [version EXCEPT ![w] = saves[b] + 1]
      /\ saving' = [saving EXCEPT ![w] = b]
      /\ step' = [step EXCEPT ![w] = "delete"]
      /\ UNCHANGED <<stored, records, mine, deleted, minimum>>
  BY DEF TopTransactions!SaveBlockRow
<1>2. TopTypes /\ WritersApart /\ OwnRows(w)
  BY DEF TopInv
<1>3. TopTypes'
  <2>1. saves[b] + 1 \in 1..MaxSaves /\ saves[b] + 1 \in 0..MaxSaves
    BY <1>1, <1>2, TopConstants DEF TopTypes
  <2> QED
    BY <1>1, <1>2, <2>1 DEF TopTypes, TopSteps, TopTransactions!Versions
<1>4. b # None
  BY TopConstants
<1>5. WritersApart'
  BY <1>1, <1>2, <1>4 DEF TopTypes, WritersApart
<1>6. OwnRows(w)' /\ Justified(w)'
  BY <1>1, <1>2 DEF TopTypes, OwnRows, Justified
<1>7. \A x \in Writers \ {w} : Unmoved(x)
  BY <1>1, <1>2 DEF TopTypes, Unmoved
<1>8. step'[w] # "commit"
  BY <1>1, <1>2 DEF TopTypes
<1> QED
  BY <1>1, <1>3, <1>5, <1>6, <1>7, <1>8, WriterMoves

LEMMA DeleteRecordsHolds ==
  ASSUME TopInv, NEW w \in Writers, TopTransactions!DeleteRecords(w)
  PROVE  TopInv'
<1> DEFINE old == {r \in records : r.block = saving[w]}
<1>1. TopTypes /\ WritersApart /\ OwnRows(w)
  BY DEF TopInv
<1>2. step[w] = "delete" /\ mine[w] = {} /\ deleted[w] = {}
  BY <1>1 DEF TopTransactions!DeleteRecords, OwnRows
<1>3. TopTransactions!Visible(w) = records
  BY <1>2 DEF TopTransactions!Visible
<1>4. /\ TopTransactions!Unlocked(w, old)
      /\ deleted' = [deleted EXCEPT ![w] = old]
      /\ step' = [step EXCEPT ![w] = "minimum"]
      /\ UNCHANGED <<stored, records, saving, version, mine, minimum, saves>>
  BY <1>1, <1>2, <1>3 DEF TopTransactions!DeleteRecords, TopTypes
<1> HIDE DEF TopTransactions!Rows
<1>5. TopTypes'
  BY <1>1, <1>4 DEF TopTypes, TopSteps
<1>6. WritersApart'
  BY <1>1, <1>2, <1>4 DEF TopTypes, WritersApart, TopTransactions!Unlocked
<1>7. OwnRows(w)' /\ Justified(w)'
  BY <1>1, <1>2, <1>4 DEF TopTypes, OwnRows, Justified
<1>8. \A x \in Writers \ {w} : Unmoved(x)
  BY <1>1, <1>4 DEF TopTypes, Unmoved
<1>9. step'[w] # "commit"
  BY <1>1, <1>4 DEF TopTypes
<1> QED
  BY <1>4, <1>5, <1>6, <1>7, <1>8, <1>9, WriterMoves

LEMMA GetMinimumHolds ==
  ASSUME TopInv, NEW w \in Writers, TopTransactions!GetMinimum(w)
  PROVE  TopInv'
<1> DEFINE V == TopTransactions!Visible(w)
           m == TopTransactions!MinimumOf(V)
<1>1. TopTypes /\ WritersApart /\ OwnRows(w) /\ Justified(w)
  BY DEF TopInv
<1>2. /\ step[w] = "minimum" /\ minimum' = [minimum EXCEPT ![w] = m]
      /\ step' = [step EXCEPT ![w] = "insert"]
      /\ UNCHANGED <<stored, records, saving, version, mine, deleted, saves>>
  BY DEF TopTransactions!GetMinimum
<1>3. /\ V \in SUBSET TopTransactions!Rows /\ OneRowEach(V)
      /\ \A r \in V : r.block \in Known(w)
      /\ Known(w) \in SUBSET RecordBlocks /\ Own(w) \in SUBSET TopTransactions!Rows
  BY <1>1, <1>2, VisibleIs, KnownBlocks, OwnIs
<1> HIDE DEF V
<1>4. m \in Nat
  <2>1. \A r \in V : TopTransactions!RecordValue(r) \in Nat
    BY <1>3, RowFacts
  <2> QED
    BY <2>1 DEF TopTransactions!MinimumOf
<1>5. \A r \in Own(w) : TopTransactions!RecordValue(r) < m => Beaten(r, Known(w))
  BY <1>3, BelowMinimumIsBeaten
<1> HIDE DEF m
<1>6. TopTypes'
  BY <1>1, <1>2, <1>4 DEF TopTypes, TopSteps
<1>7. WritersApart' /\ OwnRows(w)'
  BY <1>1, <1>2 DEF TopTypes, WritersApart, OwnRows, Own
<1>8. minimum'[w] = m /\ step'[w] = "insert"
  BY <1>1, <1>2 DEF TopTypes
<1>9. Justified(w)'
  <2>1. Own(w)' = Own(w) /\ \A r : Beaten(r, Known(w))' <=> Beaten(r, Known(w))
    BY <1>2 DEF Own, Known, StoredBlocks, Beaten, Above, Places, TopTransactions!Before,
       TopTransactions!RecordValue
  <2>2. \A r : TopTransactions!RecordValue(r)' = TopTransactions!RecordValue(r)
    BY DEF TopTransactions!RecordValue
  <2> QED
    BY <1>1, <1>2, <1>5, <1>8, <2>1, <2>2 DEF Justified
<1>10. \A x \in Writers \ {w} : Unmoved(x)
  BY <1>1, <1>2 DEF TopTypes, Unmoved
<1> QED
  BY <1>2, <1>6, <1>7, <1>8, <1>9, <1>10, WriterMoves

LEMMA InsertRecordsHolds ==
  ASSUME TopInv, NEW w \in Writers, TopTransactions!InsertRecords(w)
  PROVE  TopInv'
<1> DEFINE C == TopTransactions!Candidates(w)
<1>1. TopTypes /\ WritersApart /\ OwnRows(w) /\ Justified(w)
  BY DEF TopInv
<1>2. /\ step[w] = "insert" /\ mine' = [mine EXCEPT ![w] = C]
      /\ step' = [step EXCEPT ![w] = IF C = {} THEN "commit" ELSE "prune"]
      /\ UNCHANGED <<stored, records, saving, version, deleted, minimum, saves>>
  BY DEF TopTransactions!InsertRecords
<1>3. /\ Known(w) \in SUBSET RecordBlocks /\ Own(w) \in SUBSET TopTransactions!Rows
      /\ OneRowEach(Own(w)) /\ \A r \in Own(w) : r.block \in Known(w)
  BY <1>1, <1>2, KnownBlocks, OwnIs
<1>4. C = {r \in TopTransactions!Top(MaxRecords, Own(w)) :
             TopTransactions!RecordValue(r) >= minimum[w]}
  BY DEF TopTransactions!Candidates, Own
<1>5. C \subseteq Own(w)
  BY <1>4, TopIs
<1>6. \A r \in Own(w) : r \in C \/ Beaten(r, Known(w))
  <2> SUFFICES ASSUME NEW r \in Own(w), r \notin C PROVE Beaten(r, Known(w))
    OBVIOUS
  <2>1. CASE r \notin TopTransactions!Top(MaxRecords, Own(w))
    BY <1>3, <2>1, OutIsBeaten
  <2>2. CASE ~(TopTransactions!RecordValue(r) >= minimum[w])
    <3>1. TopTransactions!RecordValue(r) \in Nat /\ minimum[w] \in Nat
      BY <1>1, <1>3, RowFacts DEF TopTypes
    <3> QED
      BY <1>1, <1>2, <2>2, <3>1 DEF Justified
  <2> QED
    BY <1>4, <2>1, <2>2
<1> HIDE DEF C
<1>7. TopTypes'
  BY <1>1, <1>2, <1>3, <1>5 DEF TopTypes, TopSteps
<1>8. WritersApart'
  BY <1>1, <1>2 DEF TopTypes, WritersApart
<1>9. mine'[w] = C /\ step'[w] \in {"commit", "prune"} /\ (step'[w] = "commit" => C = {})
  BY <1>1, <1>2 DEF TopTypes
<1>10. OwnRows(w)'
  BY <1>1, <1>2, <1>5, <1>9 DEF OwnRows, Own
<1>11. Justified(w)'
  <2>1. Own(w)' = Own(w) /\ \A r : Beaten(r, Known(w))' <=> Beaten(r, Known(w))
    BY <1>2 DEF Own, Known, StoredBlocks, Beaten, Above, Places, TopTransactions!Before,
       TopTransactions!RecordValue
  <2> QED
    BY <1>1, <1>2, <1>6, <1>9, <2>1 DEF Justified
<1>12. \A x \in Writers \ {w} : Unmoved(x)
  BY <1>1, <1>2 DEF TopTypes, Unmoved
<1>13. ASSUME NEW K \in [Writers -> SUBSET TopTransactions!Rows],
              Share(w, K), step'[w] = "commit"
       PROVE  Cardinality(mine'[w] \union (K[w] \ deleted'[w])) <= MaxRecords
  <2>1. mine'[w] \union (K[w] \ deleted'[w]) \in SUBSET K[w]
    BY <1>9, <1>13
  <2>2. IsFiniteSet(K[w]) /\ Cardinality(K[w]) <= MaxRecords
    BY <1>13, AboveFinite DEF Share
  <2> QED
    BY <2>1, <2>2, TopConstants, NoMoreThan
<1> QED
  BY <1>2, <1>7, <1>8, <1>10, <1>11, <1>12, <1>13, WriterMoves

\* What is left of what a writer sees when it has pruned.
LEMMA PrunedIs ==
  ASSUME TopInv, NEW w \in Writers, step[w] = "prune"
  PROVE  LET V == TopTransactions!Visible(w)
             T == TopTransactions!Top(MaxRecords, V)
         IN  /\ T \in SUBSET V /\ V \in SUBSET TopTransactions!Rows
             /\ IsFiniteSet(T) /\ Cardinality(T) <= MaxRecords
             /\ TopTransactions!Pruned(V) = V \ T
             /\ \A r \in V \ T : Beaten(r, Known(w))
<1> DEFINE V == TopTransactions!Visible(w)
           T == TopTransactions!Top(MaxRecords, V)
<1>1. /\ V \in SUBSET TopTransactions!Rows /\ OneRowEach(V)
      /\ \A r \in V : r.block \in Known(w) /\ Known(w) \in SUBSET RecordBlocks
  BY VisibleIs, KnownBlocks DEF TopInv
<1>2. TopTransactions!Pruned(V) = V \ T
  BY DEF TopTransactions!Pruned
<1> HIDE DEF V
<1>3. T \in SUBSET V
  BY TopIs
<1>4. IsFiniteSet(T)
  BY <1>1, <1>3, AboveFinite
<1>5. Cardinality(T) <= MaxRecords
  BY <1>1, TopIsSmall, TopConstants
<1>6. \A r \in V \ T : Beaten(r, Known(w))
  BY <1>1, OutIsBeaten
<1> QED
  BY <1>1, <1>2, <1>3, <1>4, <1>5, <1>6 DEF V

LEMMA PruneRecordsHolds ==
  ASSUME TopInv, NEW w \in Writers, TopTransactions!PruneRecords(w)
  PROVE  TopInv'
<1> DEFINE V == TopTransactions!Visible(w)
           T == TopTransactions!Top(MaxRecords, V)
           G == V \ T
<1>1. TopTypes /\ WritersApart /\ OwnRows(w) /\ Justified(w)
  BY DEF TopInv
<1>2. /\ step[w] = "prune" /\ TopTransactions!Unlocked(w, TopTransactions!Pruned(V))
      /\ mine' = [mine EXCEPT ![w] = @ \ TopTransactions!Pruned(V)]
      /\ deleted' = [deleted EXCEPT ![w] = @ \union (TopTransactions!Pruned(V) \intersect records)]
      /\ step' = [step EXCEPT ![w] = "commit"]
      /\ UNCHANGED <<stored, records, saving, version, minimum, saves>>
  BY DEF TopTransactions!PruneRecords
<1>3. /\ T \in SUBSET V /\ V \in SUBSET TopTransactions!Rows
      /\ IsFiniteSet(T) /\ Cardinality(T) <= MaxRecords
      /\ TopTransactions!Pruned(V) = G
      /\ \A r \in G : Beaten(r, Known(w))
  BY <1>2, PrunedIs
<1>4. V = (records \ deleted[w]) \union mine[w]
  BY DEF TopTransactions!Visible
<1> HIDE DEF V, T
<1>5. /\ mine' = [mine EXCEPT ![w] = mine[w] \ G]
      /\ deleted' = [deleted EXCEPT ![w] = deleted[w] \union (G \intersect records)]
      /\ mine'[w] = mine[w] \ G /\ deleted'[w] = deleted[w] \union (G \intersect records)
      /\ step'[w] = "commit"
  BY <1>1, <1>2, <1>3 DEF TopTypes
<1>6. \A v \in Writers \ {w} : G \intersect deleted[v] = {}
  BY <1>2, <1>3 DEF TopTransactions!Unlocked
<1>7. G \in SUBSET TopTransactions!Rows
  BY <1>3
<1> HIDE DEF G
<1>8. TopTypes'
  BY <1>1, <1>2, <1>5, <1>7 DEF TopTypes, TopSteps
<1>9. WritersApart'
  BY <1>1, <1>2, <1>5, <1>6 DEF TopTypes, WritersApart
<1>10. OwnRows(w)'
  BY <1>1, <1>2, <1>5 DEF OwnRows, Own
<1>11. Justified(w)'
  <2>1. Own(w)' = Own(w) /\ \A r : Beaten(r, Known(w))' <=> Beaten(r, Known(w))
    BY <1>2 DEF Own, Known, StoredBlocks, Beaten, Above, Places, TopTransactions!Before,
       TopTransactions!RecordValue
  <2> QED
    BY <1>1, <1>2, <1>3, <1>5, <2>1 DEF Justified
<1>12. \A x \in Writers \ {w} : Unmoved(x)
  BY <1>1, <1>2, <1>5 DEF TopTypes, Unmoved
<1>13. ASSUME NEW K \in [Writers -> SUBSET TopTransactions!Rows],
              Share(w, K), step'[w] = "commit"
       PROVE  Cardinality(mine'[w] \union (K[w] \ deleted'[w])) <= MaxRecords
  <2>1. mine'[w] \union (K[w] \ deleted'[w]) \in SUBSET T
    BY <1>4, <1>5, <1>13 DEF Share, G
  <2> QED
    BY <1>3, <2>1, TopConstants, NoMoreThan
<1> QED
  BY <1>2, <1>8, <1>9, <1>10, <1>11, <1>12, <1>13, WriterMoves

LEMMA RollbackHolds ==
  ASSUME TopInv, NEW w \in Writers, TopTransactions!Rollback(w)
  PROVE  TopInv'
<1>1. TopTypes /\ WritersApart
  BY DEF TopInv
<1>2. /\ saving' = [saving EXCEPT ![w] = None] /\ step' = [step EXCEPT ![w] = "idle"]
      /\ mine' = [mine EXCEPT ![w] = {}] /\ deleted' = [deleted EXCEPT ![w] = {}]
      /\ minimum' = [minimum EXCEPT ![w] = 0]
      /\ UNCHANGED <<stored, records, version, saves>>
  BY DEF TopTransactions!Rollback, TopTransactions!End
<1> HIDE DEF TopTransactions!Rows
<1>3. TopTypes'
  BY <1>1, <1>2 DEF TopTypes, TopSteps
<1>4. WritersApart'
  BY <1>1, <1>2 DEF TopTypes, WritersApart
<1>5. OwnRows(w)' /\ Justified(w)' /\ step'[w] # "commit"
  BY <1>1, <1>2 DEF TopTypes, OwnRows, Justified
<1>6. \A x \in Writers \ {w} : Unmoved(x)
  BY <1>1, <1>2 DEF TopTypes, Unmoved
<1> QED
  BY <1>2, <1>3, <1>4, <1>5, <1>6, WriterMoves

\* What a commit does to the tables.
Commits(v) ==
  /\ step[v] = "commit"
  /\ records' = (records \ deleted[v]) \union mine[v]
  /\ stored' = [stored EXCEPT ![saving[v]] = version[v]]

LEMMA CommitIs ==
  ASSUME TopInv, NEW v \in Writers, Commits(v)
  PROVE  /\ StoredBlocks' = Known(v) /\ StoredBlocks \subseteq StoredBlocks'
         /\ StoredBlocks' \in SUBSET RecordBlocks
         /\ stored' \in [RecordBlocks -> TopTransactions!Versions \union {None}]
         /\ records' \in SUBSET TopTransactions!Rows
         /\ \A r \in records' : r \in records \/ r.block = saving[v]
         /\ TopTransactions!RecordsAreOfStoredBlocks' /\ NoneMissed'
<1>1. /\ TopTypes /\ WritersApart /\ OwnRows(v) /\ Justified(v) /\ step[v] = "commit"
      /\ records \subseteq TopTransactions!AllRows /\ NoneMissed
  BY DEF TopInv, TopTransactions!RecordsAreOfStoredBlocks, Commits
<1>2. /\ saving[v] \in RecordBlocks /\ version[v] \in TopTransactions!Versions
      /\ Known(v) \in SUBSET RecordBlocks
      /\ Own(v) \in SUBSET TopTransactions!Rows
      /\ \A r \in Own(v) : r.block = saving[v] /\ r.version = version[v]
  BY <1>1, KnownBlocks, OwnIs
<1>3. /\ stored' = [stored EXCEPT ![saving[v]] = version[v]]
      /\ records' = (records \ deleted[v]) \union mine[v]
      /\ mine[v] \subseteq Own(v) /\ deleted[v] \subseteq records
      /\ \A r \in records : r.block = saving[v] => r \in deleted[v]
      /\ stored \in [RecordBlocks -> TopTransactions!Versions \union {None}]
      /\ records \in SUBSET TopTransactions!Rows
  BY <1>1 DEF Commits, OwnRows, WritersApart, TopTypes
<1>4. version[v] # None
  BY <1>2, TopConstants DEF TopTransactions!Versions
<1>5. StoredBlocks' = Known(v)
  BY <1>2, <1>3, <1>4 DEF StoredBlocks, Known
<1>6. /\ stored' \in [RecordBlocks -> TopTransactions!Versions \union {None}]
      /\ records' \in SUBSET TopTransactions!Rows
      /\ \A r \in records' : r \in records \/ r.block = saving[v]
  BY <1>2, <1>3
<1>7. TopTransactions!RecordsAreOfStoredBlocks'
  <2> SUFFICES ASSUME NEW r \in records'
               PROVE  r \in TopTransactions!Rows /\ stored'[r.block] = r.version
    BY DEF TopTransactions!RecordsAreOfStoredBlocks, TopTransactions!AllRows
  <2>1. CASE r \in mine[v]
    BY <1>2, <1>3, <2>1
  <2>2. CASE r \in records \ deleted[v]
    <3>1. r \in TopTransactions!Rows /\ stored[r.block] = r.version
      BY <1>1, <2>2 DEF TopTransactions!AllRows
    <3>2. r.block # saving[v] /\ r.block \in RecordBlocks
      BY <1>3, <2>2, <3>1, RowFacts
    <3> QED
      BY <1>3, <3>1, <3>2
  <2> QED
    BY <1>3, <2>1, <2>2
<1>8. NoneMissed'
  <2>1. \A r : Beaten(r, StoredBlocks)' <=> Beaten(r, StoredBlocks')
    BY DEF Beaten, Above, Places, TopTransactions!Before, TopTransactions!RecordValue
  <2> SUFFICES ASSUME NEW r \in TopTransactions!Rows, stored'[r.block] = r.version,
                      r \notin records'
               PROVE  Beaten(r, Known(v))
    BY <1>5, <2>1 DEF NoneMissed, TopTransactions!AllRows
  <2>2. r.block \in RecordBlocks /\ r.position \in Positions
    BY RowFacts
  <2>3. CASE r.block = saving[v]
    <3>1. r.version = version[v]
      BY <1>2, <1>3, <2>3
    <3>2. r \in Own(v)
      BY <2>2, <2>3, <3>1 DEF Own, TopTransactions!Rows
    <3> QED
      BY <1>1, <1>3, <3>2 DEF Justified
  <2>4. CASE r.block # saving[v]
    <3>1. r \in TopTransactions!AllRows
      BY <1>3, <2>2, <2>4 DEF TopTransactions!AllRows
    <3>2. CASE r \in records
      BY <1>1, <1>3, <2>4, <3>2 DEF Justified
    <3>3. CASE Beaten(r, StoredBlocks)
      BY <1>2, <3>3, BeatenStays DEF Known
    <3> QED
      BY <1>1, <3>1, <3>2, <3>3 DEF NoneMissed
  <2> QED
    BY <2>3, <2>4
<1> QED
  BY <1>2, <1>5, <1>6, <1>7, <1>8 DEF Known

\* A commit, while the others stay or prune.
LEMMA CommitKeeps ==
  ASSUME TopInv, NEW v \in Writers, Commits(v), TopTypes', WritersApart',
         step'[v] = "idle", mine'[v] = {}, deleted'[v] = {},
         \A x \in Writers \ {v} : OwnRows(x)' /\ Justified(x)',
         \A x \in Writers \ {v}, K \in [Writers -> SUBSET TopTransactions!Rows] :
           Share(x, K) /\ step'[x] = "commit"
             => Cardinality(mine'[x] \union ((K[x] \ deleted[v]) \ deleted'[x])) <= MaxRecords
  PROVE  TopInv'
<1>1. OwnRows(v)' /\ Justified(v)'
  BY DEF OwnRows, Justified
<1>2. records' = (records \ deleted[v]) \union mine[v] /\ step[v] = "commit"
  BY DEF Commits
<1>3. Shared'
  <2>1. PICK K \in [Writers -> SUBSET TopTransactions!Rows] :
          /\ \A x \in Writers : Share(x, K)
          /\ \A r \in records : \E x \in Writers : r \in K[x]
    BY DEF TopInv, Shared
  <2>2. \A x \in Writers : K[x] \in SUBSET TopTransactions!Rows /\ K[x] \subseteq records
    BY <2>1 DEF Share
  <2>3. mine[v] \in SUBSET TopTransactions!Rows
    BY DEF TopInv, TopTypes
  <2>4. \E J \in [Writers -> SUBSET TopTransactions!Rows] :
          /\ J[v] = mine[v] \union (K[v] \ deleted[v])
          /\ \A x \in Writers \ {v} : J[x] = K[x] \ deleted[v]
    <3> DEFINE J == [x \in Writers |->
          IF x = v THEN mine[v] \union (K[v] \ deleted[v]) ELSE K[x] \ deleted[v]]
    <3>1. J \in [Writers -> SUBSET TopTransactions!Rows]
      BY <2>2, <2>3
    <3>2. /\ J[v] = mine[v] \union (K[v] \ deleted[v])
          /\ \A x \in Writers \ {v} : J[x] = K[x] \ deleted[v]
      OBVIOUS
    <3> HIDE DEF J
    <3> QED
      BY <3>1, <3>2
  <2>5. PICK J \in [Writers -> SUBSET TopTransactions!Rows] :
          /\ J[v] = mine[v] \union (K[v] \ deleted[v])
          /\ \A x \in Writers \ {v} : J[x] = K[x] \ deleted[v]
    BY <2>4
  <2>6. Share(v, J)'
    <3>1. Cardinality(J[v]) <= MaxRecords
      BY <1>2, <2>1, <2>5 DEF Share
    <3>2. J[v] \subseteq records'
      BY <1>2, <2>2, <2>5
    <3> QED
      BY <3>1, <3>2 DEF Share
  <2>7. ASSUME NEW x \in Writers \ {v} PROVE Share(x, J)'
    <3>1. J[x] \in SUBSET K[x] /\ J[x] \subseteq records'
      BY <1>2, <2>2, <2>5
    <3>2. IsFiniteSet(K[x]) /\ Cardinality(K[x]) <= MaxRecords
      BY <2>1, <2>2, AboveFinite DEF Share
    <3>3. Cardinality(J[x]) <= MaxRecords
      BY <3>1, <3>2, TopConstants, NoMoreThan
    <3>4. step'[x] = "commit" => Cardinality(mine'[x] \union (J[x] \ deleted'[x])) <= MaxRecords
      BY <2>1, <2>5
    <3> QED
      BY <3>1, <3>3, <3>4 DEF Share
  <2>8. \A r \in records' : \E x \in Writers : r \in J[x]
    BY <1>2, <2>1, <2>5
  <2> QED
    BY <2>6, <2>7, <2>8 DEF Shared
<1>4. TopTransactions!RecordsAreOfStoredBlocks' /\ NoneMissed'
  BY CommitIs
<1> QED
  BY <1>1, <1>3, <1>4 DEF TopInv

LEMMA CommitHolds ==
  ASSUME TopInv, NEW v \in Writers, TopTransactions!Commit(v)
  PROVE  TopInv'
<1>1. TopTypes /\ WritersApart
  BY DEF TopInv
<1>2. /\ saving' = [saving EXCEPT ![v] = None] /\ step' = [step EXCEPT ![v] = "idle"]
      /\ mine' = [mine EXCEPT ![v] = {}] /\ deleted' = [deleted EXCEPT ![v] = {}]
      /\ minimum' = [minimum EXCEPT ![v] = 0] /\ UNCHANGED <<version, saves>>
      /\ Commits(v)
  BY DEF TopTransactions!Commit, TopTransactions!End, Commits
<1>3. /\ StoredBlocks \subseteq StoredBlocks'
      /\ stored' \in [RecordBlocks -> TopTransactions!Versions \union {None}]
      /\ records' \in SUBSET TopTransactions!Rows
      /\ \A r \in records' : r \in records \/ r.block = saving[v]
      /\ records' = (records \ deleted[v]) \union mine[v] /\ step[v] = "commit"
  BY <1>2, CommitIs DEF Commits
<1> HIDE DEF TopTransactions!Rows
<1>4. TopTypes'
  BY <1>1, <1>2, <1>3 DEF TopTypes, TopSteps
<1>5. WritersApart'
  BY <1>1, <1>2, <1>3 DEF TopTypes, WritersApart
<1>6. ASSUME NEW x \in Writers \ {v} PROVE Unmoved(x) /\ OwnRows(x)' /\ Justified(x)'
  <2>1. Unmoved(x)
    BY <1>1, <1>2 DEF TopTypes, Unmoved
  <2>2. saving[v] # saving[x]
    BY <1>1, <1>3 DEF WritersApart
  <2> QED
    BY <1>3, <1>4, <1>5, <2>1, <2>2, DecisionsStand
<1>7. ASSUME NEW x \in Writers \ {v}, NEW K \in [Writers -> SUBSET TopTransactions!Rows],
             Share(x, K), step'[x] = "commit"
      PROVE  Cardinality(mine'[x] \union ((K[x] \ deleted[v]) \ deleted'[x])) <= MaxRecords
  <2> DEFINE U == mine[x] \union (K[x] \ deleted[x])
  <2>1. step[x] = "commit" /\ mine'[x] = mine[x] /\ deleted'[x] = deleted[x]
    BY <1>6, <1>7 DEF Unmoved
  <2>2. Cardinality(U) <= MaxRecords
    BY <1>7, <2>1 DEF Share
  <2>3. U \in SUBSET TopTransactions!Rows
    BY <1>1 DEF TopTypes
  <2>4. IsFiniteSet(U)
    BY <2>3, AboveFinite
  <2>5. mine'[x] \union ((K[x] \ deleted[v]) \ deleted'[x]) \in SUBSET U
    BY <2>1
  <2> HIDE DEF U
  <2> QED
    BY <2>2, <2>4, <2>5, TopConstants, NoMoreThan
<1>8. step'[v] = "idle" /\ mine'[v] = {} /\ deleted'[v] = {}
  BY <1>1, <1>2 DEF TopTypes
<1> QED
  BY <1>2, <1>4, <1>5, <1>6, <1>7, <1>8, CommitKeeps

LEMMA PruneAfterWaitHolds ==
  ASSUME TopInv, NEW w \in Writers, NEW v \in Writers, TopTransactions!PruneAfterWait(w, v)
  PROVE  TopInv'
<1> DEFINE V == TopTransactions!Visible(w)
           T == TopTransactions!Top(MaxRecords, V)
           G == V \ T
           D == (G \intersect records) \ deleted[v]
<1>1. TopTypes /\ WritersApart /\ OwnRows(w) /\ Justified(w)
  BY DEF TopInv
<1>2. step[w] = "prune" /\ v # w
  BY DEF TopTransactions!PruneAfterWait
<1>3. /\ T \in SUBSET V /\ V \in SUBSET TopTransactions!Rows
      /\ IsFiniteSet(T) /\ Cardinality(T) <= MaxRecords
      /\ TopTransactions!Pruned(V) = G
      /\ \A r \in G : Beaten(r, Known(w))
  BY <1>2, PrunedIs
<1>4. /\ Commits(v)
      /\ mine' = [mine EXCEPT ![w] = mine[w] \ G, ![v] = {}]
      /\ deleted' = [deleted EXCEPT ![v] = {}, ![w] = deleted[w] \union D]
      /\ TopTransactions!Unlocked(w, D)
      /\ step' = [step EXCEPT ![w] = "commit", ![v] = "idle"]
      /\ saving' = [saving EXCEPT ![v] = None] /\ minimum' = [minimum EXCEPT ![v] = 0]
      /\ UNCHANGED <<version, saves>>
  BY <1>1, <1>2, <1>3 DEF TopTransactions!PruneAfterWait, Commits, TopTypes
<1>5. V = (records \ deleted[w]) \union mine[w]
  BY DEF TopTransactions!Visible
<1> HIDE DEF V, T, TopTransactions!Rows
<1>6. /\ mine'[w] = mine[w] \ G /\ deleted'[w] = deleted[w] \union D /\ step'[w] = "commit"
      /\ saving'[w] = saving[w] /\ version'[w] = version[w]
      /\ step'[v] = "idle" /\ mine'[v] = {} /\ deleted'[v] = {}
      /\ \A x \in Writers \ {v, w} : Unmoved(x)
  BY <1>1, <1>2, <1>4 DEF TopTypes, Unmoved
<1>7. /\ StoredBlocks \subseteq StoredBlocks' /\ StoredBlocks' \in SUBSET RecordBlocks
      /\ stored' \in [RecordBlocks -> TopTransactions!Versions \union {None}]
      /\ records' \in SUBSET TopTransactions!Rows
      /\ \A r \in records' : r \in records \/ r.block = saving[v]
      /\ records' = (records \ deleted[v]) \union mine[v] /\ step[v] = "commit"
  BY <1>4, CommitIs DEF Commits
<1>8. /\ D \in SUBSET TopTransactions!Rows /\ D \subseteq records /\ D \subseteq G
      /\ D \intersect deleted[v] = {}
      /\ \A x \in Writers \ {w} : D \intersect deleted[x] = {}
      /\ G \in SUBSET TopTransactions!Rows
  BY <1>3, <1>4 DEF TopTransactions!Unlocked
<1> HIDE DEF D
<1>9. TopTypes'
  <2>1. /\ mine' \in [Writers -> SUBSET TopTransactions!Rows]
        /\ deleted' \in [Writers -> SUBSET TopTransactions!Rows]
    BY <1>1, <1>2, <1>4, <1>8 DEF TopTypes
  <2>2. /\ step' \in [Writers -> TopSteps]
        /\ saving' \in [Writers -> RecordBlocks \union {None}]
        /\ minimum' \in [Writers -> Nat]
    BY <1>1, <1>2, <1>4 DEF TopTypes, TopSteps
  <2> QED
    BY <1>1, <1>4, <1>7, <2>1, <2>2 DEF TopTypes
<1>10. WritersApart'
  <2>1. \A x \in Writers : saving'[x] = None <=> step'[x] = "idle"
    BY <1>1, <1>2, <1>4 DEF TopTypes, WritersApart
  <2>2. \A x, y \in Writers : x # y /\ saving'[x] = saving'[y] => saving'[x] = None
    BY <1>1, <1>2, <1>4 DEF TopTypes, WritersApart
  <2>3. \A x \in Writers : \/ deleted'[x] = {}
                           \/ x # v /\ deleted'[x] = deleted[x]
                           \/ x = w /\ deleted'[x] = deleted[x] \union D
    BY <1>6 DEF Unmoved
  <2>4. \A x, y \in Writers : x # y => deleted'[x] \intersect deleted'[y] = {}
    BY <1>1, <1>8, <2>3 DEF WritersApart
  <2>5. \A x \in Writers : deleted'[x] \subseteq records'
    BY <1>1, <1>2, <1>7, <1>8, <2>3 DEF WritersApart
  <2> QED
    BY <2>1, <2>2, <2>4, <2>5 DEF WritersApart
<1>11. ASSUME NEW x \in Writers, x # v PROVE saving[v] # saving[x]
  BY <1>1, <1>7, <1>11 DEF WritersApart
<1>12. OwnRows(w)' /\ Justified(w)'
  <2>1. Own(w)' = Own(w) /\ mine[w] \subseteq Own(w)
    BY <1>1, <1>6 DEF Own, OwnRows
  <2>2. OwnRows(w)'
    BY <1>1, <1>2, <1>6, <1>7, <1>11, <2>1 DEF OwnRows
  <2>3. \A r : Beaten(r, Known(w)) => Beaten(r, Known(w))'
    <3>1. \A r : Beaten(r, Known(w))' <=> Beaten(r, Known(w)')
      BY DEF Beaten, Above, Places, TopTransactions!Before, TopTransactions!RecordValue
    <3>2. saving[w] \in RecordBlocks
      BY <1>1, <1>2, KnownBlocks
    <3>3. Known(w)' \in SUBSET RecordBlocks /\ Known(w) \subseteq Known(w)'
      BY <1>6, <1>7, <3>2 DEF Known
    <3> QED
      BY <3>1, <3>3, BeatenStays
  <2> QED
    BY <1>1, <1>2, <1>3, <1>6, <1>8, <2>1, <2>2, <2>3 DEF Justified
<1>13. \A x \in Writers \ {v} : OwnRows(x)' /\ Justified(x)'
  <2> SUFFICES ASSUME NEW x \in Writers, x # v, x # w
               PROVE  OwnRows(x)' /\ Justified(x)'
    BY <1>12
  <2>1. Unmoved(x) /\ saving[v] # saving[x]
    BY <1>6, <1>11
  <2> QED
    BY <1>7, <1>9, <1>10, <2>1, DecisionsStand
<1>14. ASSUME NEW x \in Writers \ {v}, NEW K \in [Writers -> SUBSET TopTransactions!Rows],
              Share(x, K), step'[x] = "commit"
       PROVE  Cardinality(mine'[x] \union ((K[x] \ deleted[v]) \ deleted'[x])) <= MaxRecords
  <2>1. CASE x = w
    <3>1. D = (G \intersect records) \ deleted[v]
      BY DEF D
    <3>2. mine'[w] \union ((K[w] \ deleted[v]) \ deleted'[w]) \in SUBSET T
      BY <1>5, <1>6, <1>14, <2>1, <3>1 DEF Share
    <3> QED
      BY <1>3, <2>1, <3>2, TopConstants, NoMoreThan
  <2>2. CASE x # w
    <3> DEFINE U == mine[x] \union (K[x] \ deleted[x])
    <3>1. step[x] = "commit" /\ mine'[x] = mine[x] /\ deleted'[x] = deleted[x]
      BY <1>6, <1>14, <2>2 DEF Unmoved
    <3>2. Cardinality(U) <= MaxRecords
      BY <1>14, <3>1 DEF Share
    <3>3. U \in SUBSET TopTransactions!Rows
      BY <1>1 DEF TopTypes
    <3>4. IsFiniteSet(U)
      BY <3>3, AboveFinite
    <3>5. mine'[x] \union ((K[x] \ deleted[v]) \ deleted'[x]) \in SUBSET U
      BY <3>1
    <3> HIDE DEF U
    <3> QED
      BY <3>2, <3>4, <3>5, TopConstants, NoMoreThan
  <2> QED
    BY <2>1, <2>2
<1> QED
  BY <1>4, <1>6, <1>9, <1>10, <1>13, <1>14, CommitKeeps

LEMMA TopStepHolds ==
  ASSUME TopInv, [TopTransactions!Next]_topVars
  PROVE  TopInv'
<1>1. ASSUME UNCHANGED topVars PROVE TopInv'
  <2>1. UNCHANGED <<stored, records, saving, step, version, mine, deleted, minimum, saves>>
    BY <1>1 DEF topVars
  <2>2. TopTypes' /\ WritersApart'
    BY <2>1 DEF TopInv, TopTypes, WritersApart
  <2>3. \A w \in Writers : OwnRows(w)' /\ Justified(w)'
    <3> SUFFICES ASSUME NEW w \in Writers PROVE OwnRows(w)' /\ Justified(w)'
      OBVIOUS
    <3>1. Unmoved(w) /\ StoredBlocks' = StoredBlocks
      BY <2>1 DEF Unmoved, StoredBlocks
    <3> QED
      BY <2>1, <2>2, <3>1, DecisionsStand
  <2>4. TopTransactions!RecordsAreOfStoredBlocks' /\ NoneMissed'
    <3>1. TopTransactions!AllRows' = TopTransactions!AllRows
      BY <2>1 DEF TopTransactions!AllRows
    <3>2. \A r : Beaten(r, StoredBlocks)' <=> Beaten(r, StoredBlocks)
      BY <2>1 DEF StoredBlocks, Beaten, Above, Places, TopTransactions!Before,
         TopTransactions!RecordValue
    <3> QED
      BY <2>1, <3>1, <3>2 DEF TopInv, NoneMissed, TopTransactions!RecordsAreOfStoredBlocks
  <2>5. Shared'
    <3>1. \A x, K : Share(x, K)' <=> Share(x, K)
      BY <2>1 DEF Share
    <3> QED
      BY <2>1, <3>1 DEF TopInv, Shared
  <2> QED
    BY <2>2, <2>3, <2>4, <2>5 DEF TopInv
<1>2. ASSUME TopTransactions!Next PROVE TopInv'
  BY <1>2, SaveBlockRowHolds, DeleteRecordsHolds, GetMinimumHolds, InsertRecordsHolds,
     PruneRecordsHolds, PruneAfterWaitHolds, CommitHolds, RollbackHolds
     DEF TopTransactions!Next
<1> QED
  BY <1>1, <1>2
-----------------------------------------------------------------------------
(* Signing in and out.  Beyond what is shown, the invariant follows what   *)
(* is on its way: an answer that still counts names no session that was    *)
(* signed out of, and the last look of every tab at the cookie will turn   *)
(* out right, or the tab is still to be told.                              *)

\* The sessions that were ever created.
Created == 1..created
CreatedOrNone == Created \union {None}

SessionTypes ==
  /\ created \in Nat /\ faults \in Nat
  /\ sessions \subseteq Created /\ expired \subseteq Created /\ sessions \intersect expired = {}
  /\ jar \in CreatedOrNone
  /\ shown \in [Tabs -> CreatedOrNone]
  /\ probe \in [Tabs -> Browser!Probes \union {None}]
  /\ flow \in [Tabs -> Browser!Flows \union {None}]
  /\ mail \in [Tabs -> BOOLEAN]
  /\ left \in [Tabs -> SUBSET Created]

\* What is on its way names sessions that were created, and its stages are in order.
InHand ==
  \A t \in Tabs :
    /\ probe[t] # None => {probe[t].cookie, probe[t].found} \subseteq CreatedOrNone
    /\ flow[t] # None =>
         /\ {flow[t].cookie, flow[t].csrf, flow[t].found} \subseteq CreatedOrNone
         /\ flow[t].kind = "logout" => flow[t].stage \in {"sent", "served", "refused"}
         /\ flow[t].kind = "logout" => flow[t].csrf # None
         /\ flow[t].kind = "login" => flow[t].stage # "refused"
         /\ flow[t].current => flow[t].stage \in {"asking", "answered"} /\ probe[t] = None

\* A session that was signed out of is over, and no answer on its way still names it.
LeftIsOver ==
  \A t \in Tabs :
    /\ left[t] \intersect sessions = {}
    /\ shown[t] \notin left[t]
    /\ probe[t] # None /\ probe[t].stage = "answered" => probe[t].found \notin left[t]
    /\ flow[t] # None /\ flow[t].stage = "answered" => flow[t].found \notin left[t]
    /\ flow[t] # None /\ flow[t].kind = "logout" /\ flow[t].stage = "served" =>
         flow[t].csrf \notin sessions

\* What a tab may show: the session of the cookie, or one that has just expired.
Fine(s) == s = Browser!session(jar) \/ s \in expired

\* A sign-in or sign-out that ends with a look of its own at the session, and one that has
\* changed the sessions or the cookie and will tell the other tabs.
LooksAgain(f) == f # None /\ f.stage \in {"sent", "served", "refused"}
WillTell(f) == f # None /\ f.stage \in {"served", "asking", "answered"}

Unsettled(t) ==
  mail[t] \/ LooksAgain(flow[t]) \/ \E u \in Tabs \ {t} : WillTell(flow[u])

\* What a tab shows last is fine: the answer to its probe, to its sign-in, or what it shows.
WillBeFine(t) ==
  /\ probe[t] # None =>
       IF probe[t].stage = "sent" THEN probe[t].cookie = jar ELSE Fine(probe[t].found)
  /\ flow[t] # None /\ flow[t].current =>
       IF flow[t].stage = "asking" THEN flow[t].cookie = jar ELSE Fine(flow[t].found)
  /\ probe[t] = None /\ (flow[t] # None => ~flow[t].current) => Fine(shown[t])

\* Each tab comes to agree with the cookie, as long as nothing is lost.
Agreement == faults = 0 => \A t \in Tabs : Unsettled(t) \/ WillBeFine(t)

SessionInv == SessionTypes /\ InHand /\ LeftIsOver /\ Agreement

LEMMA SessionConstants ==
  /\ MaxLogins \in Nat /\ MaxFaults \in Nat
  /\ None \notin Nat /\ None \notin Browser!Probes /\ None \notin Browser!Flows
  BY SessionBounds DEF Browser!SessionsAssumption

LEMMA SessionInvImplies ==
  ASSUME SessionInv
  PROVE  Browser!TypeOK /\ Browser!NoStaleRole /\ Browser!LogoutEndsShown
           /\ Browser!SettledTabsAgree
<1>1. Browser!TypeOK
  BY DEF SessionInv, SessionTypes, InHand, Created, CreatedOrNone, Browser!TypeOK
<1>2. Browser!NoStaleRole /\ Browser!LogoutEndsShown
  BY DEF SessionInv, LeftIsOver, Browser!NoStaleRole, Browser!LogoutEndsShown
<1>3. ASSUME faults = 0, \A u \in Tabs : flow[u] = None, NEW t \in Tabs, Browser!Quiet(t)
      PROVE  shown[t] = Browser!session(jar) \/ shown[t] \in expired
  <2>1. ~Unsettled(t)
    BY <1>3 DEF Unsettled, LooksAgain, WillTell, Browser!Quiet
  <2>2. Fine(shown[t])
    BY <1>3, <2>1 DEF SessionInv, Agreement, WillBeFine, Browser!Quiet
  <2> QED
    BY <2>2 DEF Fine
<1> QED
  BY <1>1, <1>2, <1>3 DEF Browser!SettledTabsAgree

LEMMA SessionsStart ==
  ASSUME Browser!Init
  PROVE  SessionInv
<1> USE SessionConstants DEF Browser!Init, Created, CreatedOrNone
<1>1. SessionTypes
  BY DEF SessionTypes, Browser!Probes, Browser!Cookies
<1>2. InHand
  BY DEF InHand
<1>3. LeftIsOver
  BY DEF LeftIsOver
<1>4. Agreement
  BY DEF Agreement, WillBeFine, Fine, Browser!session
<1> QED
  BY <1>1, <1>2, <1>3, <1>4 DEF SessionInv

-----------------------------------------------------------------------------
\* The probe of a new question, and a sign-in whose question is no longer the newest.
LEMMA SentIs ==
  ASSUME SessionTypes
  PROVE  /\ Browser!Sent \in Browser!Probes /\ Browser!Sent # None
         /\ Browser!Sent.stage = "sent" /\ Browser!Sent.cookie = jar
         /\ Browser!Sent.found = None
  BY SessionConstants DEF SessionTypes, CreatedOrNone, Created, Browser!Sent, Browser!Probes,
     Browser!Cookies

LEMMA OutdatedIs ==
  ASSUME NEW f \in Browser!Flows \union {None}
  PROVE  /\ Browser!Outdated(f) \in Browser!Flows \union {None}
         /\ Browser!Outdated(f) = None <=> f = None
         /\ f # None =>
              /\ Browser!Outdated(f).kind = f.kind /\ Browser!Outdated(f).stage = f.stage
              /\ Browser!Outdated(f).cookie = f.cookie /\ Browser!Outdated(f).csrf = f.csrf
              /\ Browser!Outdated(f).found = f.found /\ ~Browser!Outdated(f).current
  BY SessionConstants DEF Browser!Outdated, Browser!Flows

\* Three of the steps take a new look: with the focus, when told, when the timer fires.
Look(t) ==
  /\ probe' = [probe EXCEPT ![t] = Browser!Sent]
  /\ flow' = [flow EXCEPT ![t] = Browser!Outdated(@)]
  /\ shown' \in {shown, [shown EXCEPT ![t] = None]}
  /\ mail' \in {mail, [mail EXCEPT ![t] = FALSE]}
  /\ UNCHANGED <<sessions, expired, created, jar, faults, left>>

LEMMA LooksAre ==
  ASSUME NEW t \in Tabs, Browser!Focus(t) \/ Browser!Told(t) \/ Browser!TimerFires(t)
  PROVE  Look(t)
  BY DEF Browser!Focus, Browser!Told, Browser!TimerFires, Browser!refresh,
     Browser!invalidate, Browser!server, Look

\* The changes of a stage keep the type of what is on its way.
LEMMA StageIs ==
  ASSUME NEW f \in Browser!Flows, NEW s \in {"served", "refused"}
  PROVE  /\ [f EXCEPT !.stage = s] \in Browser!Flows
         /\ [f EXCEPT !.stage = s].stage = s
  BY DEF Browser!Flows

LEMMA FoundIs ==
  ASSUME NEW f \in Browser!Flows, NEW s \in {"served", "answered"}, NEW d \in Browser!Cookies
  PROVE  /\ [f EXCEPT !.stage = s, !.found = d] \in Browser!Flows
         /\ [f EXCEPT !.stage = s, !.found = d].stage = s
         /\ [f EXCEPT !.stage = s, !.found = d].found = d
         /\ [f EXCEPT !.stage = s, !.found = d].current = f.current
  BY DEF Browser!Flows

LEMMA AskingIs ==
  ASSUME NEW f \in Browser!Flows, NEW c \in Browser!Cookies
  PROVE  /\ [f EXCEPT !.stage = "asking", !.cookie = c, !.current = TRUE] \in Browser!Flows
         /\ [f EXCEPT !.stage = "asking", !.cookie = c, !.current = TRUE].stage = "asking"
         /\ [f EXCEPT !.stage = "asking", !.cookie = c, !.current = TRUE].cookie = c
         /\ [f EXCEPT !.stage = "asking", !.cookie = c, !.current = TRUE].current
  BY DEF Browser!Flows

\* An answered probe, and a sign-in or sign-out that begins.
LEMMA AnsweredIs ==
  ASSUME NEW p \in Browser!Probes, NEW d \in Browser!Cookies
  PROVE  /\ [p EXCEPT !.stage = "answered", !.found = d] \in Browser!Probes
         /\ [p EXCEPT !.stage = "answered", !.found = d].stage = "answered"
         /\ [p EXCEPT !.stage = "answered", !.found = d].found = d
  BY DEF Browser!Probes

LEMMA FlowIs ==
  ASSUME SessionTypes, NEW t \in Tabs, NEW kind \in {"login", "logout"}
  PROVE  Browser!Flow(kind, t) \in Browser!Flows /\ Browser!Flow(kind, t).stage = "sent"
  BY DEF SessionTypes, CreatedOrNone, Created, Browser!Flow, Browser!Flows, Browser!Cookies

\* What the server says of a cookie.
LEMMA SessionIs ==
  ASSUME SessionTypes, NEW c
  PROVE  /\ Browser!session(c) \in CreatedOrNone /\ Browser!session(c) \in Browser!Cookies
         /\ Browser!session(c) # None => Browser!session(c) \in sessions
<1>1. sessions \subseteq Created /\ Created \subseteq Nat
  BY DEF SessionTypes, Created
<1> QED
  BY <1>1 DEF Browser!session, CreatedOrNone, Browser!Cookies

\* A step of a tab keeps the types.
LEMMA TabTypes ==
  ASSUME SessionInv, NEW t \in Tabs, Browser!TabStep(t)
  PROVE  SessionTypes'
<1> USE SessionConstants DEF SessionInv, SessionTypes, InHand, CreatedOrNone, Browser!refresh,
      Browser!invalidate, Browser!ignorePending, Browser!moves, Browser!tellOthers,
      Browser!server
<1>1. CASE Browser!Focus(t) \/ Browser!Told(t) \/ Browser!TimerFires(t)
  <2>1. Look(t)
    BY <1>1, LooksAre
  <2>2. Browser!Sent \in Browser!Probes
    BY SentIs
  <2>3. Browser!Outdated(flow[t]) \in Browser!Flows \union {None}
    BY OutdatedIs
  <2> QED
    BY <2>1, <2>2, <2>3 DEF Look, Created
<1>2. CASE Browser!ProbeServed(t)
  <2>1. Browser!session(probe[t].cookie) \in Browser!Cookies
    BY SessionIs
  <2>2. [probe[t] EXCEPT !.stage = "answered", !.found = Browser!session(probe[t].cookie)]
          \in Browser!Probes
    <3>1. probe[t] \in Browser!Probes
      BY <1>2 DEF Browser!ProbeServed
    <3> QED
      BY <2>1, <3>1, AnsweredIs, Zenon
  <2> QED
    BY <1>2, <2>2 DEF Browser!ProbeServed, Created
<1>3. CASE Browser!ProbeArrives(t) \/ Browser!ProbeFails(t)
  <2>1. /\ shown' = [shown EXCEPT ![t] = None] \/ shown' = [shown EXCEPT ![t] = probe[t].found]
        /\ probe[t] # None /\ probe' = [probe EXCEPT ![t] = None] /\ faults' \in Nat
        /\ UNCHANGED <<sessions, expired, created, jar, flow, mail, left>>
    BY <1>3 DEF Browser!ProbeArrives, Browser!ProbeFails
  <2>2. probe[t].found \in CreatedOrNone
    BY <2>1
  <2> QED
    BY <2>1, <2>2 DEF Created
<1>4. CASE Browser!BeginLogin(t) \/ Browser!BeginLogout(t)
  <2>1. \A kind \in {"login", "logout"} : Browser!Flow(kind, t) \in Browser!Flows
    BY FlowIs
  <2> QED
    BY <1>4, <2>1 DEF Browser!BeginLogin, Browser!BeginLogout, Created
<1>5. CASE Browser!LoginServed(t)
  <2>1. created' = created + 1 /\ created' \in Browser!Cookies /\ Created \union {created'} = Created'
    BY <1>5 DEF Browser!LoginServed, Browser!Cookies, Created
  <2>2. [flow[t] EXCEPT !.stage = "served", !.found = created'] \in Browser!Flows
    <3>1. flow[t] \in Browser!Flows
      BY <1>5 DEF Browser!LoginServed
    <3> QED
      BY <2>1, <3>1, FoundIs
  <2>3. sessions' \subseteq Created' /\ expired' \subseteq Created' /\ created' \notin expired
    BY <1>5, <2>1 DEF Browser!LoginServed, Created
  <2> QED
    BY <1>5, <2>1, <2>2, <2>3 DEF Browser!LoginServed, Created
<1>6. CASE Browser!LoginRefused(t) \/ Browser!AnswerLost(t)
  <2>1. /\ flow' = [flow EXCEPT ![t] = None] /\ sessions' \subseteq sessions /\ faults' \in Nat
        /\ UNCHANGED <<expired, created, jar, shown, probe, mail, left>>
    BY <1>6 DEF Browser!LoginRefused, Browser!AnswerLost
  <2> QED
    BY <2>1 DEF Created
<1>7. CASE Browser!LoginArrives(t)
  <2>1. flow[t] \in Browser!Flows /\ flow[t].found \in CreatedOrNone /\ flow[t].found \in Browser!Cookies
    BY <1>7 DEF Browser!LoginArrives, Browser!Flows
  <2>2. [flow[t] EXCEPT !.stage = "asking", !.cookie = flow[t].found, !.current = TRUE]
          \in Browser!Flows
    BY <2>1, AskingIs
  <2>3. /\ flow' = [flow EXCEPT ![t] =
                      [flow[t] EXCEPT !.stage = "asking", !.cookie = flow[t].found, !.current = TRUE]]
        /\ jar' = flow[t].found /\ probe' = [probe EXCEPT ![t] = None]
        /\ UNCHANGED <<sessions, expired, created, shown, mail, faults, left>>
    BY <1>7 DEF Browser!LoginArrives
  <2> QED
    BY <2>1, <2>2, <2>3 DEF Created
<1>8. CASE Browser!LoginProbeServed(t)
  <2>1. flow[t] \in Browser!Flows /\ Browser!session(flow[t].cookie) \in Browser!Cookies
    BY <1>8, SessionIs DEF Browser!LoginProbeServed
  <2>2. [flow[t] EXCEPT !.stage = "answered", !.found = Browser!session(flow[t].cookie)]
          \in Browser!Flows
    BY <2>1, FoundIs
  <2> QED
    BY <1>8, <2>2 DEF Browser!LoginProbeServed, Created
<1>9. CASE Browser!LoginEnds(t)
  BY <1>9 DEF Browser!LoginEnds, Created
<1>11. CASE Browser!LogoutRefused(t)
  BY <1>11, SentIs DEF Browser!LogoutRefused, Created
<1>12. CASE Browser!LogoutArrives(t)
  BY <1>12 DEF Browser!LogoutArrives, Created
<1>10. CASE Browser!LogoutServed(t)
  <2>1. /\ [flow[t] EXCEPT !.stage = "served"] \in Browser!Flows
        /\ [flow[t] EXCEPT !.stage = "refused"] \in Browser!Flows
    <3>1. flow[t] \in Browser!Flows
      BY <1>10 DEF Browser!LogoutServed
    <3> QED
      BY <3>1, StageIs
  <2>2. /\ \/ flow' = [flow EXCEPT ![t] = [flow[t] EXCEPT !.stage = "served"]]
           \/ flow' = [flow EXCEPT ![t] = [flow[t] EXCEPT !.stage = "refused"]]
        /\ sessions' \subseteq sessions
        /\ UNCHANGED <<expired, created, jar, shown, probe, mail, faults, left>>
    BY <1>10 DEF Browser!LogoutServed
  <2> QED
    BY <2>1, <2>2 DEF Created
<1> QED
  BY <1>1, <1>2, <1>3, <1>4, <1>5, <1>6, <1>7, <1>8, <1>9, <1>10, <1>11,
     <1>12 DEF Browser!TabStep

\* The time of a session is over.
LEMMA ExpireTypes ==
  ASSUME SessionInv, NEW s \in Browser!Ids, Browser!Expire(s)
  PROVE  SessionTypes'
  BY DEF SessionInv, SessionTypes, Created, CreatedOrNone, Browser!Expire

\* What is on its way stays in order.
LEMMA TabInHand ==
  ASSUME SessionInv, NEW t \in Tabs, Browser!TabStep(t), SessionTypes'
  PROVE  InHand'
<1> USE SessionConstants DEF SessionInv, SessionTypes, InHand, Created, CreatedOrNone,
      Browser!Probes, Browser!Flows, Browser!Cookies, Browser!session, Browser!Accepted,
      Browser!refresh, Browser!invalidate, Browser!Sent, Browser!Outdated,
      Browser!ignorePending, Browser!moves, Browser!tellOthers, Browser!Flow,
      Browser!server
<1>1. CASE Browser!Focus(t)
  BY <1>1, SMTT(60) DEF Browser!Focus
<1>2. CASE Browser!Told(t)
  BY <1>2, SMTT(60) DEF Browser!Told
<1>3. CASE Browser!TimerFires(t)
  BY <1>3, SMTT(60) DEF Browser!TimerFires
<1>4. CASE Browser!ProbeServed(t)
  BY <1>4, SMTT(60) DEF Browser!ProbeServed
<1>5. CASE Browser!ProbeArrives(t)
  BY <1>5, SMTT(60) DEF Browser!ProbeArrives
<1>6. CASE Browser!ProbeFails(t)
  BY <1>6, SMTT(60) DEF Browser!ProbeFails
<1>7. CASE Browser!BeginLogin(t)
  BY <1>7, SMTT(60) DEF Browser!BeginLogin
<1>8. CASE Browser!LoginServed(t)
  BY <1>8, SMTT(60) DEF Browser!LoginServed
<1>9. CASE Browser!LoginRefused(t)
  BY <1>9, SMTT(60) DEF Browser!LoginRefused
<1>10. CASE Browser!LoginArrives(t)
  BY <1>10, SMTT(60) DEF Browser!LoginArrives
<1>11. CASE Browser!LoginProbeServed(t)
  BY <1>11, SMTT(60) DEF Browser!LoginProbeServed
<1>12. CASE Browser!LoginEnds(t)
  BY <1>12, SMTT(60) DEF Browser!LoginEnds
<1>13. CASE Browser!BeginLogout(t)
  BY <1>13, SMTT(60) DEF Browser!BeginLogout
<1>14. CASE Browser!LogoutServed(t)
  BY <1>14, SMTT(60) DEF Browser!LogoutServed
<1>15. CASE Browser!LogoutArrives(t)
  BY <1>15, SMTT(60) DEF Browser!LogoutArrives
<1>16. CASE Browser!LogoutRefused(t)
  BY <1>16, SMTT(60) DEF Browser!LogoutRefused
<1>17. CASE Browser!AnswerLost(t)
  BY <1>17, SMTT(60) DEF Browser!AnswerLost
<1> QED
  BY <1>1, <1>2, <1>3, <1>4, <1>5, <1>6, <1>7, <1>8, <1>9,
     <1>10, <1>11, <1>12, <1>13, <1>14, <1>15, <1>16, <1>17
  DEF Browser!TabStep

\* No step brings a session back that was signed out of.
LEMMA TabLeaves ==
  ASSUME SessionInv, NEW t \in Tabs, Browser!TabStep(t), SessionTypes'
  PROVE  LeftIsOver'
<1> USE SessionConstants DEF SessionInv, SessionTypes, InHand, LeftIsOver, Created, CreatedOrNone,
      Browser!Probes, Browser!Flows, Browser!Cookies, Browser!session, Browser!Accepted,
      Browser!refresh, Browser!invalidate, Browser!Sent, Browser!Outdated,
      Browser!ignorePending, Browser!moves, Browser!tellOthers, Browser!Flow,
      Browser!server
<1>1. CASE Browser!Focus(t)
  BY <1>1, SMTT(60) DEF Browser!Focus
<1>2. CASE Browser!Told(t)
  BY <1>2, SMTT(60) DEF Browser!Told
<1>3. CASE Browser!TimerFires(t)
  BY <1>3, SMTT(60) DEF Browser!TimerFires
<1>4. CASE Browser!ProbeServed(t)
  BY <1>4, SMTT(60) DEF Browser!ProbeServed
<1>5. CASE Browser!ProbeArrives(t)
  BY <1>5, SMTT(60) DEF Browser!ProbeArrives
<1>6. CASE Browser!ProbeFails(t)
  BY <1>6, SMTT(60) DEF Browser!ProbeFails
<1>7. CASE Browser!BeginLogin(t)
  BY <1>7, SMTT(60) DEF Browser!BeginLogin
<1>8. CASE Browser!LoginServed(t)
  BY <1>8, SMTT(60) DEF Browser!LoginServed
<1>9. CASE Browser!LoginRefused(t)
  BY <1>9, SMTT(60) DEF Browser!LoginRefused
<1>10. CASE Browser!LoginArrives(t)
  BY <1>10, SMTT(60) DEF Browser!LoginArrives
<1>11. CASE Browser!LoginProbeServed(t)
  BY <1>11, SMTT(60) DEF Browser!LoginProbeServed
<1>12. CASE Browser!LoginEnds(t)
  BY <1>12, SMTT(60) DEF Browser!LoginEnds
<1>13. CASE Browser!BeginLogout(t)
  BY <1>13, SMTT(60) DEF Browser!BeginLogout
<1>14. CASE Browser!LogoutServed(t)
  BY <1>14, SMTT(60) DEF Browser!LogoutServed
<1>15. CASE Browser!LogoutArrives(t)
  BY <1>15, SMTT(60) DEF Browser!LogoutArrives
<1>16. CASE Browser!LogoutRefused(t)
  BY <1>16, SMTT(60) DEF Browser!LogoutRefused
<1>17. CASE Browser!AnswerLost(t)
  BY <1>17, SMTT(60) DEF Browser!AnswerLost
<1> QED
  BY <1>1, <1>2, <1>3, <1>4, <1>5, <1>6, <1>7, <1>8, <1>9,
     <1>10, <1>11, <1>12, <1>13, <1>14, <1>15, <1>16, <1>17
  DEF Browser!TabStep

\* A session that expires is shown by nobody for long.
LEMMA ExpireHolds ==
  ASSUME SessionInv, NEW s \in Browser!Ids, Browser!Expire(s)
  PROVE  SessionInv'
<1>1. SessionTypes'
  BY ExpireTypes
<1>2. InHand' /\ LeftIsOver'
  BY DEF SessionInv, InHand, LeftIsOver, CreatedOrNone, Created, Browser!Expire
<1>3. \A x : Fine(x) => Fine(x)'
  BY SessionConstants DEF Fine, Browser!session, Browser!Expire
<1>4. Agreement'
  BY <1>3 DEF SessionInv, Agreement, Unsettled, LooksAgain, WillTell, WillBeFine,
     Browser!Expire
<1> QED
  BY <1>1, <1>2, <1>4 DEF SessionInv

-----------------------------------------------------------------------------
\* A tab of which a step says nothing keeps its prospects, if what is fine stays fine and
\* whoever was going to tell it still will.
LEMMA Bystander ==
  ASSUME SessionInv, NEW u \in Tabs, Unsettled(u) \/ WillBeFine(u),
         probe'[u] = probe[u], flow'[u] = flow[u], shown'[u] = shown[u],
         mail[u] => mail'[u], jar' = jar,
         \A x : Fine(x) => Fine(x)',
         \A w \in Tabs \ {u} : WillTell(flow[w]) => mail'[u] \/ WillTell(flow'[w])
  PROVE  Unsettled(u)' \/ WillBeFine(u)'
<1>1. ASSUME Unsettled(u) PROVE Unsettled(u)'
  BY <1>1 DEF Unsettled, LooksAgain, WillTell
<1>2. ASSUME WillBeFine(u) PROVE WillBeFine(u)'
  <2>1. ASSUME NEW x, Fine(x) PROVE Fine(x)'
    BY <2>1
  <2> QED
    BY <1>2, <2>1 DEF WillBeFine
<1> QED
  BY <1>1, <1>2

\* A tab that will be told is unsettled.
LEMMA ToBeTold ==
  ASSUME NEW u \in Tabs, NEW t \in Tabs \ {u}, mail'[u] \/ WillTell(flow'[t])
  PROVE  Unsettled(u)'
  BY DEF Unsettled, WillTell

\* The steps that change neither the cookie nor a session: only the tab itself.
LEMMA AloneAgrees ==
  ASSUME SessionInv, Agreement, SessionTypes', NEW t \in Tabs,
         UNCHANGED <<sessions, expired, created, jar, faults>>,
         \A u \in Tabs \ {t} : /\ probe'[u] = probe[u] /\ flow'[u] = flow[u]
                               /\ shown'[u] = shown[u] /\ (mail[u] => mail'[u])
                               /\ WillTell(flow[t]) => mail'[u] \/ WillTell(flow'[t]),
         faults = 0 => Unsettled(t)' \/ WillBeFine(t)'
  PROVE  Agreement'
<1>1. \A x : Fine(x) => Fine(x)'
  BY DEF Fine, Browser!session
<1>2. ASSUME faults = 0, NEW u \in Tabs \ {t} PROVE Unsettled(u)' \/ WillBeFine(u)'
  <2>1. Unsettled(u) \/ WillBeFine(u)
    BY <1>2 DEF Agreement
  <2>2. \A w \in Tabs \ {u} : WillTell(flow[w]) => mail'[u] \/ WillTell(flow'[w])
    BY <1>2 DEF WillTell
  <2> QED
    BY <1>1, <1>2, <2>1, <2>2, Bystander
<1> QED
  BY <1>2 DEF Agreement

LEMMA TabAgrees ==
  ASSUME SessionInv, NEW t \in Tabs, Browser!TabStep(t), SessionTypes'
  PROVE  Agreement'
<1> USE SessionConstants DEF Browser!server, Browser!moves, Browser!ignorePending,
      Browser!tellOthers, Browser!refresh, Browser!invalidate
<1>1. SessionTypes /\ InHand /\ Agreement /\ faults \in Nat
  BY DEF SessionInv, SessionTypes
<1>0. /\ probe[t] # None => probe[t] \in Browser!Probes
      /\ flow[t] # None => flow[t] \in Browser!Flows /\ flow[t].found \in Browser!Cookies
  BY <1>1 DEF SessionTypes, Browser!Flows
<1>2. CASE Browser!Focus(t) \/ Browser!Told(t) \/ Browser!TimerFires(t)
  <2>1. Look(t)
    BY <1>2, LooksAre
  <2>2. WillBeFine(t)'
    BY <1>1, <2>1, SentIs, OutdatedIs DEF Look, WillBeFine, SessionTypes
  <2>3. \A u \in Tabs \ {t} : WillTell(flow[t]) => WillTell(flow'[t])
    BY <1>1, <2>1, OutdatedIs DEF Look, WillTell, SessionTypes
  <2> QED
    BY <1>1, <2>1, <2>2, <2>3, AloneAgrees DEF Look, SessionTypes
<1>3. CASE Browser!ProbeServed(t)
  <2>1. /\ probe[t] # None /\ probe[t].stage = "sent" /\ probe'[t] # None
        /\ probe'[t].stage = "answered" /\ probe'[t].found = Browser!session(probe[t].cookie)
        /\ \A u \in Tabs \ {t} : probe'[u] = probe[u]
        /\ UNCHANGED <<sessions, expired, created, jar, shown, flow, mail, faults, left>>
    <3> DEFINE p == [probe[t] EXCEPT !.stage = "answered",
                                     !.found = Browser!session(probe[t].cookie)]
    <3>1. /\ probe[t] # None /\ probe[t].stage = "sent" /\ probe' = [probe EXCEPT ![t] = p]
          /\ UNCHANGED <<sessions, expired, created, jar, shown, flow, mail, faults, left>>
      BY <1>3 DEF Browser!ProbeServed
    <3>2. /\ p \in Browser!Probes /\ p.stage = "answered"
          /\ p.found = Browser!session(probe[t].cookie)
      BY <1>0, <1>1, <3>1, AnsweredIs, SessionIs, Zenon
    <3> QED
      BY <1>1, <3>1, <3>2 DEF SessionTypes
  <2>2. ASSUME faults = 0 PROVE Unsettled(t)' \/ WillBeFine(t)'
    <3>1. ASSUME Unsettled(t) PROVE Unsettled(t)'
      BY <2>1, <3>1 DEF Unsettled, LooksAgain, WillTell
    <3>2. ASSUME WillBeFine(t) PROVE WillBeFine(t)'
      BY <1>1, <2>1, <3>2 DEF WillBeFine, Fine, InHand, Browser!session
    <3> QED
      BY <1>1, <2>2, <3>1, <3>2 DEF Agreement
  <2> QED
    BY <1>1, <2>1, <2>2, AloneAgrees
<1>4. CASE Browser!ProbeArrives(t)
  <2>1. /\ probe[t] # None /\ probe[t].stage = "answered" /\ probe'[t] = None
        /\ shown'[t] = probe[t].found
        /\ \A u \in Tabs \ {t} : probe'[u] = probe[u] /\ shown'[u] = shown[u]
        /\ UNCHANGED <<sessions, expired, created, jar, flow, mail, faults, left>>
    BY <1>1, <1>4 DEF Browser!ProbeArrives, SessionTypes
  <2>2. ASSUME faults = 0 PROVE Unsettled(t)' \/ WillBeFine(t)'
    <3>1. ASSUME Unsettled(t) PROVE Unsettled(t)'
      BY <2>1, <3>1 DEF Unsettled, LooksAgain, WillTell
    <3>2. ASSUME WillBeFine(t) PROVE WillBeFine(t)'
      BY <1>1, <2>1, <3>2 DEF WillBeFine, Fine, InHand, Browser!session
    <3> QED
      BY <1>1, <2>2, <3>1, <3>2 DEF Agreement
  <2> QED
    BY <1>1, <2>1, <2>2, AloneAgrees
<1>5. CASE Browser!ProbeFails(t) \/ Browser!LoginRefused(t) \/ Browser!AnswerLost(t)
  <2>1. faults' # 0
    BY <1>1, <1>5 DEF Browser!ProbeFails, Browser!LoginRefused, Browser!AnswerLost
  <2> QED
    BY <2>1 DEF Agreement
<1>6. CASE Browser!BeginLogin(t) \/ Browser!BeginLogout(t)
  <2>1. /\ flow[t] = None /\ LooksAgain(flow'[t])
        /\ \A u \in Tabs \ {t} : probe'[u] = probe[u] /\ flow'[u] = flow[u]
        /\ UNCHANGED <<sessions, expired, created, jar, shown, mail, faults, left>>
    BY <1>1, <1>6, FlowIs DEF Browser!BeginLogin, Browser!BeginLogout, SessionTypes, LooksAgain
  <2>2. Unsettled(t)'
    BY <2>1 DEF Unsettled, LooksAgain
  <2> QED
    BY <1>1, <2>1, <2>2, AloneAgrees DEF WillTell
<1>7. CASE Browser!LoginServed(t)
  <2>1. created' \in Browser!Cookies
    BY <1>7 DEF SessionTypes, Browser!Cookies
  <2>3. flow'[t] # None /\ flow'[t].stage = "served"
    <3> DEFINE g == [flow[t] EXCEPT !.stage = "served", !.found = created']
    <3>1. flow[t] # None /\ flow' = [flow EXCEPT ![t] = g]
      BY <1>7 DEF Browser!LoginServed
    <3>2. g \in Browser!Flows /\ g.stage = "served"
      BY <1>0, <2>1, <3>1, FoundIs, Zenon
    <3> QED
      BY <1>1, <3>1, <3>2 DEF SessionTypes
  <2>2. \A u \in Tabs : Unsettled(u)'
    BY <2>3 DEF Unsettled, LooksAgain, WillTell
  <2> QED
    BY <2>2 DEF Agreement
<1>8. CASE Browser!LoginArrives(t)
  <2>1. /\ flow'[t] # None /\ flow'[t].stage = "asking" /\ flow'[t].current
        /\ flow'[t].cookie = jar' /\ probe'[t] = None
    <3> DEFINE g == [flow[t] EXCEPT !.stage = "asking", !.cookie = flow[t].found,
                                    !.current = TRUE]
    <3>1. /\ flow[t] # None /\ flow' = [flow EXCEPT ![t] = g] /\ jar' = flow[t].found
          /\ probe' = [probe EXCEPT ![t] = None]
      BY <1>8 DEF Browser!LoginArrives
    <3>2. g \in Browser!Flows /\ g.stage = "asking" /\ g.cookie = flow[t].found /\ g.current
      BY <1>0, <3>1, AskingIs, Zenon
    <3> QED
      BY <1>1, <3>1, <3>2 DEF SessionTypes
  <2>2. \A u \in Tabs \ {t} : Unsettled(u)'
    BY <2>1 DEF Unsettled, WillTell
  <2>3. WillBeFine(t)'
    BY <2>1 DEF WillBeFine
  <2> QED
    BY <2>2, <2>3 DEF Agreement
<1>9. CASE Browser!LoginProbeServed(t)
  <2>1. /\ flow[t] # None /\ flow[t].stage = "asking" /\ flow'[t] # None
        /\ flow'[t].stage = "answered" /\ flow'[t].found = Browser!session(flow[t].cookie)
        /\ flow'[t].current = flow[t].current
        /\ \A u \in Tabs \ {t} : flow'[u] = flow[u]
        /\ UNCHANGED <<sessions, expired, created, jar, shown, probe, mail, faults, left>>
    <3> DEFINE g == [flow[t] EXCEPT !.stage = "answered",
                                    !.found = Browser!session(flow[t].cookie)]
    <3>1. /\ flow[t] # None /\ flow[t].stage = "asking" /\ flow' = [flow EXCEPT ![t] = g]
          /\ UNCHANGED <<sessions, expired, created, jar, shown, probe, mail, faults, left>>
      BY <1>9 DEF Browser!LoginProbeServed
    <3>2. flow[t] \in Browser!Flows /\ Browser!session(flow[t].cookie) \in Browser!Cookies
      BY <1>0, <1>1, <3>1, SessionIs
    <3>3. /\ g \in Browser!Flows /\ g.stage = "answered" /\ g.current = flow[t].current
          /\ g.found = Browser!session(flow[t].cookie)
      <4> DEFINE d == Browser!session(flow[t].cookie)
                 f == flow[t]
      <4>1. f \in Browser!Flows /\ d \in Browser!Cookies
        BY <3>2
      <4> HIDE DEF d, f
      <4>2. /\ [f EXCEPT !.stage = "answered", !.found = d] \in Browser!Flows
            /\ [f EXCEPT !.stage = "answered", !.found = d].stage = "answered"
            /\ [f EXCEPT !.stage = "answered", !.found = d].found = d
            /\ [f EXCEPT !.stage = "answered", !.found = d].current = f.current
        BY <4>1, FoundIs
      <4> QED
        BY <4>2 DEF d, f
    <3> QED
      BY <1>1, <3>1, <3>2, <3>3 DEF SessionTypes
  <2>2. ASSUME faults = 0 PROVE Unsettled(t)' \/ WillBeFine(t)'
    <3>1. ASSUME Unsettled(t) PROVE Unsettled(t)'
      BY <2>1, <3>1 DEF Unsettled, LooksAgain, WillTell
    <3>2. ASSUME WillBeFine(t) PROVE WillBeFine(t)'
      BY <1>1, <2>1, <3>2 DEF WillBeFine, Fine, Browser!session
    <3> QED
      BY <1>1, <2>2, <3>1, <3>2 DEF Agreement
  <2> QED
    BY <1>1, <2>1, <2>2, AloneAgrees DEF WillTell
<1>10. CASE Browser!LoginEnds(t)
  <2>1. /\ flow[t] # None /\ flow[t].stage = "answered" /\ flow'[t] = None
        /\ shown'[t] = IF flow[t].current THEN flow[t].found ELSE shown[t]
        /\ \A u \in Tabs \ {t} : flow'[u] = flow[u] /\ shown'[u] = shown[u] /\ mail'[u]
        /\ mail'[t] = mail[t]
        /\ UNCHANGED <<sessions, expired, created, jar, probe, faults, left>>
    BY <1>1, <1>10 DEF Browser!LoginEnds, SessionTypes
  <2>2. ASSUME faults = 0 PROVE Unsettled(t)' \/ WillBeFine(t)'
    <3>1. ASSUME Unsettled(t) PROVE Unsettled(t)'
      BY <2>1, <3>1 DEF Unsettled, LooksAgain, WillTell
    <3>2. ASSUME WillBeFine(t) PROVE WillBeFine(t)'
      BY <1>1, <2>1, <3>2 DEF WillBeFine, Fine, InHand, Browser!session
    <3> QED
      BY <1>1, <2>2, <3>1, <3>2 DEF Agreement
  <2> QED
    BY <1>1, <2>1, <2>2, AloneAgrees
<1>11. CASE Browser!LogoutServed(t)
  <2>1. \/ flow'[t] # None /\ flow'[t].stage = "served"
        \/ /\ flow'[t] # None /\ flow'[t].stage = "refused" /\ flow[t].stage = "sent"
           /\ \A u \in Tabs \ {t} : flow'[u] = flow[u]
           /\ UNCHANGED <<sessions, expired, created, jar, shown, probe, mail, faults, left>>
    BY <1>1, <1>11 DEF Browser!LogoutServed, SessionTypes, Browser!Flows
  <2>2. CASE flow'[t] # None /\ flow'[t].stage = "served"
    <3>1. \A u \in Tabs : Unsettled(u)'
      BY <2>2 DEF Unsettled, LooksAgain, WillTell
    <3> QED
      BY <3>1 DEF Agreement
  <2>3. CASE /\ flow'[t] # None /\ flow'[t].stage = "refused" /\ flow[t].stage = "sent"
             /\ \A u \in Tabs \ {t} : flow'[u] = flow[u]
             /\ UNCHANGED <<sessions, expired, created, jar, shown, probe, mail, faults, left>>
    <3>1. Unsettled(t)'
      BY <2>3 DEF Unsettled, LooksAgain
    <3> QED
      BY <1>1, <2>3, <3>1, AloneAgrees DEF WillTell
  <2> QED
    BY <2>1, <2>2, <2>3
<1>12. CASE Browser!LogoutArrives(t)
  <2>1. /\ flow'[t] = None /\ probe'[t] = None /\ shown'[t] = None /\ jar' = None
        /\ \A u \in Tabs \ {t} : mail'[u]
    BY <1>1, <1>12 DEF Browser!LogoutArrives, SessionTypes
  <2>2. \A u \in Tabs \ {t} : Unsettled(u)'
    BY <2>1 DEF Unsettled
  <2>3. WillBeFine(t)'
    BY <2>1 DEF WillBeFine, Fine, Browser!session
  <2> QED
    BY <2>2, <2>3 DEF Agreement
<1>13. CASE Browser!LogoutRefused(t)
  <2>1. /\ flow[t] # None /\ flow[t].stage = "refused" /\ flow'[t] = None
        /\ probe'[t] = Browser!Sent
        /\ \A u \in Tabs \ {t} :
             probe'[u] = probe[u] /\ flow'[u] = flow[u] /\ shown'[u] = shown[u]
        /\ UNCHANGED <<sessions, expired, created, jar, mail, faults, left>>
    BY <1>1, <1>13 DEF Browser!LogoutRefused, SessionTypes
  <2>2. WillBeFine(t)'
    BY <1>1, <2>1, SentIs DEF WillBeFine
  <2> QED
    BY <1>1, <2>1, <2>2, AloneAgrees DEF WillTell
<1> QED
  BY <1>2, <1>3, <1>4, <1>5, <1>6, <1>7, <1>8, <1>9, <1>10, <1>11, <1>12, <1>13
  DEF Browser!TabStep

LEMMA SessionStepHolds ==
  ASSUME SessionInv, [Browser!Next]_sessionVars
  PROVE  SessionInv'
<1>1. CASE UNCHANGED sessionVars
  BY <1>1 DEF sessionVars, SessionInv, SessionTypes, InHand, LeftIsOver, Agreement, Unsettled,
     LooksAgain, WillTell, WillBeFine, Fine, Browser!session, Created, CreatedOrNone
<1>2. ASSUME NEW t \in Tabs, Browser!TabStep(t) PROVE SessionInv'
  BY <1>2, TabTypes, TabInHand, TabLeaves, TabAgrees DEF SessionInv
<1> QED
  BY <1>1, <1>2, ExpireHolds DEF Browser!Next


-----------------------------------------------------------------------------
(* The guzzler board: what Guzzlers_proofs shows of it.                    *)

Board == INSTANCE Guzzlers_proofs WITH
  MaxTime <- BoardTime, MaxFaults <- MaxBoardFaults, now <- boardNow,
  faults <- boardFaults

LEMMA BoardLibrary ==
  /\ \A S : Guzzling!IsFiniteSet(S) <=> Board!IsFiniteSet(S)
  /\ \A S : Guzzling!Cardinality(S) = Board!Cardinality(S)
  /\ \A S : Guzzling!SetToSeq(S) = Board!SetToSeq(S)
<1>1. \A S : Guzzling!IsFiniteSet(S) <=> Board!IsFiniteSet(S)
  BY DEF Guzzling!IsFiniteSet, Board!IsFiniteSet
<1>2. \A S : Guzzling!Cardinality(S) = Board!Cardinality(S)
  BY DEF Guzzling!Cardinality, Board!Cardinality
<1>3. \A S : Guzzling!SetToSeq(S) = Board!SetToSeq(S)
  BY <1>2 DEF Guzzling!SetToSeq, Board!SetToSeq, Guzzling!IsInjective, Board!IsInjective
<1> QED
  BY <1>1, <1>2, <1>3

LEMMA BoardAssumption == Board!GuzzlersAssumption
  BY GuzzlerBounds, BoardLibrary DEF Guzzling!GuzzlersAssumption, Board!GuzzlersAssumption

LEMMA BoardInit == Guzzling!Init = Board!Init
  BY DEF Guzzling!Init, Board!Init, Guzzling!NoBuckets, Board!NoBuckets, Guzzling!Empty,
     Board!Empty, Guzzling!Minutes, Board!Minutes, Guzzling!Times, Board!Times,
     Guzzling!minuteOf, Board!minuteOf

LEMMA BoardNext == [Guzzling!Next]_(Guzzling!vars) = [Board!Next]_(Board!vars)
  BY BoardLibrary DEF
     Guzzling!Next, Board!Next, Guzzling!vars, Board!vars, Guzzling!Tick, Board!Tick,
     Guzzling!Sweep, Board!Sweep, Guzzling!RemoveSenders, Board!RemoveSenders,
     Guzzling!RedisExecutes, Board!RedisExecutes, Guzzling!RecordBlock, Board!RecordBlock,
     Guzzling!ConnectionBreaks, Board!ConnectionBreaks, Guzzling!Restart, Board!Restart,
     Guzzling!Loaded, Board!Loaded, Guzzling!Removed, Board!Removed, Guzzling!Updated,
     Board!Updated, Guzzling!Folded, Board!Folded, Guzzling!Puts, Board!Puts,
     Guzzling!Removal, Board!Removal, Guzzling!Evict, Board!Evict, Guzzling!Expired,
     Board!Expired, Guzzling!Absent, Board!Absent, Guzzling!NoBuckets, Board!NoBuckets,
     Guzzling!Empty, Board!Empty, Guzzling!Minutes, Board!Minutes, Guzzling!Times,
     Board!Times, Guzzling!minuteOf, Board!minuteOf, Guzzling!Retention, Board!Retention,
     Guzzling!Last, Board!Last

LEMMA BoardProperties ==
  /\ Guzzling!TypeOK = Board!TypeOK
  /\ Guzzling!BoardHonest = Board!BoardHonest
  /\ Guzzling!NoGhosts = Board!NoGhosts
  BY BoardLibrary DEF
     Guzzling!TypeOK, Board!TypeOK, Guzzling!BoardHonest, Board!BoardHonest,
     Guzzling!NoGhosts, Board!NoGhosts, Guzzling!Commands, Board!Commands,
     Guzzling!Counted, Board!Counted, Guzzling!OnBoard, Board!OnBoard, Guzzling!Younger,
     Board!Younger, Guzzling!FirstWindow, Board!FirstWindow, Guzzling!Absent, Board!Absent,
     Guzzling!Empty, Board!Empty, Guzzling!Minutes, Board!Minutes, Guzzling!Times,
     Board!Times, Guzzling!minuteOf, Board!minuteOf

LEMMA BoardStepIsStep ==
  ASSUME [Guzzling!Next]_boardVars PROVE [Board!Next]_(Board!vars)
<1>1. [Guzzling!Next]_(Guzzling!vars)
  BY DEF Guzzling!vars, boardVars
<1> QED
  BY <1>1, BoardNext

-----------------------------------------------------------------------------
(* The sync status.  Every block was stored when the cursor had come to it *)
(* and, unless it was stored again or is one of the backfill's, not before *)
(* the cursor came to it.  So a run of stored blocks tells how far the     *)
(* cursor moved, and the measured window how far the head did.             *)

Rows(rows) == \E D \in SUBSET Sync!Blocks : rows \in [D -> Nat]

\* The cursor before unit of time t, by a history c of it.
Before(c, t) == IF t = 0 \/ c[t - 1] = None THEN FirstBlock - 1 ELSE c[t - 1]

\* Each row was stored, by time t, when the cursor had reached it, ...
CursorReached(rows, c, t) ==
  \A b \in DOMAIN rows : rows[b] \in 0..t /\ c[rows[b]] # None /\ c[rows[b]] >= b

\* ... and the forward ones, but for x, no later than in the unit of time in which it did.
CursorPassed(rows, c, x) ==
  \A b \in DOMAIN rows : b >= FirstBlock /\ b # x => Before(c, rows[b]) < b

Gapless(S) == \A b, d \in S, n \in Int : b <= n /\ n <= d => n \in S

\* r: how many blocks were stored again.
RowsTrue(rows, c, t, r) ==
  /\ Rows(rows) /\ Gapless(DOMAIN rows) /\ CursorReached(rows, c, t)
  /\ r = 0 => CursorPassed(rows, c, FirstBlock - 1)
  /\ r <= 1 => \E x \in Int : CursorPassed(rows, c, x)

\* The cursor only moves up, from the block where the forward scan starts.
Climbs(c, t) ==
  \A s, u \in 0..t : s <= u /\ c[s] # None =>
    c[u] # None /\ FirstBlock <= c[s] /\ c[s] <= c[u]

\* What the samples are read from.
StoredRows == [b \in Sync!Stored |-> scanned[b]]

HeadSeen(o, t) == o.at \in 0..t /\ o.block = Sync!head(o.at)

SyncTypes ==
  /\ syncNow \in Sync!Times /\ restored \in Nat
  /\ scanned \in [Sync!Blocks -> Sync!Times \cup {None}]
  /\ last \in Sync!Blocks \cup {None}
  /\ cursorAt \in [Sync!Times -> Sync!Blocks \cup {None}]
  /\ observed # None => HeadSeen(observed, syncNow)

CursorInv == cursorAt[syncNow] = last /\ Climbs(cursorAt, syncNow)

StoredInv ==
  /\ last = None => Sync!Stored = {}
  /\ last # None => FirstBlock \in Sync!Stored /\ last \in Sync!Stored
  /\ \A b \in Sync!Stored : b <= last
  /\ RowsTrue(StoredRows, cursorAt, syncNow, restored)
  /\ restored = 0 /\ FirstBlock - 1 \in Sync!Stored
       => scanned[FirstBlock - 1] >= scanned[FirstBlock]

ProgressTrue(p, t) ==
  /\ p.last # None => p.last \in Sync!Blocks /\ p.scannedAt \in Nat
  /\ p.observed # None => HeadSeen(p.observed, t)

SamplesTrue(rows, c, t, r, times) ==
  /\ RowsTrue(rows, c, t, r)
  /\ r = 0 => \A b \in DOMAIN rows : rows[b] = times[b]

RequestInv ==
  /\ request = [at |-> request.at, progress |-> request.progress, samples |-> request.samples]
  /\ request.at # None => request.at \in 0..syncNow
  /\ request.progress # None => ProgressTrue(request.progress, syncNow)
  /\ request.samples # None => SamplesTrue(request.samples, cursorAt, syncNow, restored, scanned)
  /\ request.progress # None \/ request.samples # None => request.at # None

ReportInv ==
  \/ report = Sync!Nothing
  \/ /\ report.state # "none"
     /\ report.start <= report.tip /\ report.since <= report.until
     /\ Sync!BackfillNotMeasured /\ Sync!CatchingUpTrue /\ Sync!FallingBehindTrue
     /\ Sync!SyncedTrue

SyncInv == SyncTypes /\ CursorInv /\ StoredInv /\ RequestInv /\ ReportInv

LEMMA LeastOfNats ==
  ASSUME NEW S \in SUBSET Nat, S # {}
  PROVE  \E m \in S : \A l \in S : m <= l
  BY Board!LeastOfNats

LEMMA SyncConstants ==
  /\ FirstBlock \in Nat /\ SyncTime \in Nat /\ SyncedLag \in Nat /\ StallSpan \in Nat
  /\ MaxRestored \in Nat /\ BlockTime \in Nat \ {0} /\ SampleLimit \in Nat \ {0}
  /\ None \notin Int
  BY SyncBounds DEF Sync!SyncAssumption

\* The head grows by a block in each block time.
LEMMA HeadGrows ==
  ASSUME NEW s \in Nat, NEW u \in Nat, NEW k \in Nat
  PROVE  /\ u - s < k * BlockTime => Sync!head(u) - Sync!head(s) <= k
         /\ u - s > k * BlockTime => Sync!head(u) - Sync!head(s) >= k
         /\ Sync!head(s) \in Nat /\ Sync!head(s) >= FirstBlock
<1> DEFINE p == s \div BlockTime
           q == u \div BlockTime
<1>1. BlockTime \in Nat \ {0} /\ FirstBlock \in Nat
  BY SyncConstants
<1>2. /\ p \in Nat /\ BlockTime * p <= s /\ s < BlockTime * p + BlockTime
      /\ q \in Nat /\ BlockTime * q <= u /\ u < BlockTime * q + BlockTime
  BY <1>1, SMT
<1>3. Sync!head(s) = FirstBlock + p /\ Sync!head(u) = FirstBlock + q
  BY DEF Sync!head
<1> HIDE DEF p, q
<1>4. ASSUME NEW a \in Nat, NEW b \in Nat, a < b PROVE BlockTime * a + BlockTime <= BlockTime * b
  BY <1>1, <1>4, SMT
<1>5. BlockTime * (p + k) = BlockTime * p + k * BlockTime
  BY <1>1, <1>2, SMT
<1>6. /\ k * BlockTime \in Nat /\ BlockTime * p \in Nat /\ BlockTime * q \in Nat
      /\ BlockTime * (p + k) \in Nat /\ p + k \in Nat
  BY <1>1, <1>2, SMT
<1>7. ASSUME u - s < k * BlockTime PROVE q <= p + k
  <2>1. CASE p + k < q
    <3>1. BlockTime * (p + k) + BlockTime <= BlockTime * q
      BY <1>2, <1>4, <1>6, <2>1
    <3> QED
      BY <1>1, <1>2, <1>5, <1>6, <1>7, <3>1, SMT
  <2> QED
    BY <1>2, <1>6, <2>1, SMT
<1>8. ASSUME u - s > k * BlockTime PROVE q >= p + k
  <2>1. CASE q < p + k
    <3>1. BlockTime * q + BlockTime <= BlockTime * (p + k)
      BY <1>2, <1>4, <1>6, <2>1
    <3> QED
      BY <1>1, <1>2, <1>5, <1>6, <1>8, <3>1, SMT
  <2> QED
    BY <1>2, <1>6, <2>1, SMT
<1> QED
  BY <1>1, <1>2, <1>3, <1>7, <1>8, SMT

\* An older observation of the head, carried on by the block time, is behind by a block.
LEMMA HeadEstimated ==
  ASSUME NEW s \in Nat, NEW u \in Nat
  PROVE  /\ s <= u => Sync!head(u) <= Sync!head(s) + (u - s) \div BlockTime + 1
         /\ u <= s => Sync!head(u) <= Sync!head(s)
         /\ s <= u => (u - s) \div BlockTime \in Nat
<1> DEFINE p == s \div BlockTime
           q == u \div BlockTime
<1>1. BlockTime \in Nat \ {0} /\ FirstBlock \in Nat
  BY SyncConstants
<1>2. /\ p \in Nat /\ BlockTime * p <= s /\ s < BlockTime * p + BlockTime
      /\ q \in Nat /\ BlockTime * q <= u /\ u < BlockTime * q + BlockTime
  BY <1>1, SMT
<1>3. Sync!head(s) = FirstBlock + p /\ Sync!head(u) = FirstBlock + q
  BY DEF Sync!head
<1> HIDE DEF p, q
<1>4. ASSUME NEW a \in Nat, NEW b \in Nat, a < b PROVE BlockTime * a + BlockTime <= BlockTime * b
  BY <1>1, <1>4, SMT
<1>5. ASSUME s <= u PROVE (u - s) \div BlockTime \in Nat /\ q <= p + (u - s) \div BlockTime + 1
  <2> DEFINE d == (u - s) \div BlockTime
  <2>1. d \in Nat /\ u - s < BlockTime * d + BlockTime
    BY <1>1, <1>5, SMT
  <2> HIDE DEF d
  <2>2. /\ BlockTime * (p + d + 1) = BlockTime * p + BlockTime * d + BlockTime
        /\ BlockTime * p \in Nat /\ BlockTime * d \in Nat /\ BlockTime * q \in Nat
        /\ p + d + 1 \in Nat
    BY <1>1, <1>2, <2>1, SMT
  <2>3. ASSUME p + d + 1 < q PROVE FALSE
    <3>1. BlockTime * (p + d + 1) + BlockTime <= BlockTime * q
      BY <1>2, <1>4, <2>2, <2>3
    <3> QED
      BY <1>1, <1>2, <2>1, <2>2, <3>1, SMT
  <2>4. q <= p + d + 1
    BY <1>2, <2>2, <2>3, SMT
  <2> QED
    BY <2>1, <2>4 DEF d
<1>6. ASSUME u <= s PROVE q <= p
  <2>1. CASE p < q
    <3>1. BlockTime * p + BlockTime <= BlockTime * q
      BY <1>2, <1>4, <2>1
    <3>2. BlockTime * p \in Nat /\ BlockTime * q \in Nat
      BY <1>1, <1>2, SMT
    <3> QED
      BY <1>1, <1>2, <1>6, <3>1, <3>2, SMT
  <2> QED
    BY <1>2, <2>1, SMT
<1> QED
  BY <1>1, <1>2, <1>3, <1>5, <1>6, SMT

\* The greatest of a set of blocks, the least, and those of two numbers.
LEMMA LeastBlock ==
  ASSUME NEW S \in SUBSET Nat, S # {}
  PROVE  Sync!Min(S) \in S /\ \A b \in S : Sync!Min(S) <= b
<1>1. \E m \in S : \A b \in S : m <= b
  BY LeastOfNats
<1> QED
  BY <1>1 DEF Sync!Min

LEMMA GreatestBlock ==
  ASSUME NEW n \in Nat, NEW S \in SUBSET 0..n, S # {}
  PROVE  Sync!Max(S) \in S /\ \A b \in S : Sync!Max(S) >= b
<1> DEFINE R == {n - b : b \in S}
<1>1. R \in SUBSET Nat /\ R # {}
  <2>1. PICK b \in S : TRUE
    OBVIOUS
  <2>2. n - b \in R
    BY <2>1
  <2>3. \A d \in S : n - d \in Nat
    BY SMT
  <2> QED
    BY <2>2, <2>3
<1>2. PICK m \in R : \A l \in R : m <= l
  BY <1>1, LeastOfNats
<1>3. PICK b \in S : m = n - b
  BY <1>2
<1>4. ASSUME NEW d \in S PROVE b >= d
  <2>1. m <= n - d
    BY <1>2
  <2> QED
    BY <1>3, <2>1
<1>5. \E d \in S : \A e \in S : d >= e
  BY <1>4
<1> QED
  BY <1>5 DEF Sync!Max

LEMMA GreaterOfTwo ==
  ASSUME NEW a \in Int, NEW b \in Int
  PROVE  Sync!Max({a, b}) \in Int /\ Sync!Max({a, b}) = IF a >= b THEN a ELSE b
<1> DEFINE g == IF a >= b THEN a ELSE b
<1>1. g \in {a, b} /\ \A d \in {a, b} : g >= d
  OBVIOUS
<1>2. \A x \in {a, b} : (\A d \in {a, b} : x >= d) => x = g
  OBVIOUS
<1> QED
  BY <1>1, <1>2 DEF Sync!Max

LEMMA CursorBefore ==
  ASSUME NEW t \in Nat
  PROVE  Sync!cursorBefore(t) = Before(cursorAt, t)
<1>1. CASE t = 0
  BY <1>1 DEF Sync!cursorBefore, Before
<1>2. CASE t # 0
  <2>1. Sync!Max({0, t - 1}) = t - 1
    BY <1>2, GreaterOfTwo
  <2> QED
    BY <1>2, <2>1 DEF Sync!cursorBefore, Before
<1> QED
  BY <1>1, <1>2

\* A history of the cursor: units of time to blocks.
LEMMA BeforeClimbs ==
  ASSUME NEW t \in Nat, NEW c, \A s \in 0..t : c[s] \in Nat \cup {None}, Climbs(c, t),
         NEW s \in 0..t, NEW u \in 0..t, s <= u
  PROVE  /\ Before(c, s) \in Int /\ Before(c, s) <= Before(c, u)
         /\ Before(c, u) \in Int
         /\ c[u] # None => Before(c, u) <= c[u]
         /\ c[u] = None => Before(c, u) = FirstBlock - 1
<1>1. FirstBlock \in Nat /\ None \notin Int
  BY SyncConstants
<1>2. \A v \in 0..t : v # 0 => v - 1 \in 0..t /\ v - 1 <= v
  OBVIOUS
<1>3. \A v, w \in 0..t : v <= w /\ c[v] # None =>
        c[w] # None /\ FirstBlock <= c[v] /\ c[v] <= c[w] /\ c[v] \in Nat /\ c[w] \in Nat
  BY DEF Climbs
<1>4. \A v \in 0..t : Before(c, v) \in Int
  BY <1>1, <1>2 DEF Before
<1>5. Before(c, s) <= Before(c, u)
  <2>1. CASE s = 0 \/ c[s - 1] = None
    <3>1. Before(c, s) = FirstBlock - 1
      BY <2>1 DEF Before
    <3>2. CASE u = 0 \/ c[u - 1] = None
      BY <1>1, <3>1, <3>2 DEF Before
    <3>3. CASE ~(u = 0 \/ c[u - 1] = None)
      BY <1>1, <1>2, <1>3, <3>1, <3>3 DEF Before
    <3> QED
      BY <3>2, <3>3
  <2>2. CASE ~(s = 0 \/ c[s - 1] = None)
    <3>1. u # 0 /\ s - 1 \in 0..t /\ u - 1 \in 0..t /\ s - 1 <= u - 1
      BY <2>2
    <3>2. c[u - 1] # None /\ c[s - 1] <= c[u - 1]
      BY <1>3, <2>2, <3>1
    <3> QED
      BY <2>2, <3>1, <3>2 DEF Before
  <2> QED
    BY <2>1, <2>2
<1>6. ASSUME c[u] # None PROVE Before(c, u) <= c[u]
  <2>1. FirstBlock <= c[u] /\ c[u] \in Nat
    BY <1>3, <1>6
  <2>2. CASE u = 0 \/ c[u - 1] = None
    BY <1>1, <2>1, <2>2 DEF Before
  <2>3. CASE ~(u = 0 \/ c[u - 1] = None)
    BY <1>2, <1>3, <2>3 DEF Before
  <2> QED
    BY <2>2, <2>3
<1>7. ASSUME c[u] = None PROVE Before(c, u) = FirstBlock - 1
  BY <1>2, <1>3, <1>7 DEF Before
<1> QED
  BY <1>4, <1>5, <1>6, <1>7

\* What was true of rows stays true while the cursor climbs and time passes.
LEMMA RowsStay ==
  ASSUME NEW rows, NEW c, NEW d, NEW t \in Nat, NEW u \in Nat, NEW r \in Nat, NEW q \in Nat,
         t <= u, r <= q, RowsTrue(rows, c, t, r),
         \A s \in 0..t : c[s] \in Nat \cup {None} /\ d[s] \in Nat \cup {None},
         \A s \in 0..t : s < t => d[s] = c[s],
         c[t] # None => d[t] # None /\ c[t] <= d[t]
  PROVE  RowsTrue(rows, d, u, q)
<1>1. None \notin Int
  BY SyncConstants
<1>2. PICK D \in SUBSET Sync!Blocks : rows \in [D -> Nat]
  BY DEF RowsTrue, Rows
<1>3. Sync!Blocks \subseteq Nat
  BY DEF Sync!Blocks
<1>4. ASSUME NEW b \in DOMAIN rows
      PROVE  /\ rows[b] \in 0..t /\ rows[b] \in 0..u
             /\ d[rows[b]] # None /\ d[rows[b]] >= b
             /\ Before(d, rows[b]) = Before(c, rows[b])
  <2>1. b \in Nat /\ rows[b] \in 0..t /\ c[rows[b]] # None /\ c[rows[b]] >= b
    BY <1>2, <1>3 DEF RowsTrue, CursorReached
  <2> DEFINE s == rows[b]
  <2>2. d[s] # None /\ d[s] >= b
    <3>1. CASE s < t
      BY <2>1, <3>1
    <3>2. CASE s = t
      BY <1>1, <2>1, <3>2
    <3> QED
      BY <2>1, <3>1, <3>2
  <2>3. s = 0 \/ d[s - 1] = c[s - 1]
    BY <2>1
  <2> QED
    BY <2>1, <2>2, <2>3 DEF Before
<1>5. CursorReached(rows, d, u)
  BY <1>4 DEF CursorReached
<1>6. \A x : CursorPassed(rows, c, x) => CursorPassed(rows, d, x)
  BY <1>4 DEF CursorPassed
<1> QED
  BY <1>5, <1>6 DEF RowsTrue

LEMMA CursorTypes ==
  ASSUME NEW t \in Sync!Times, NEW c \in [Sync!Times -> Sync!Blocks \cup {None}]
  PROVE  /\ t \in Nat /\ SyncTime \in Nat /\ t <= SyncTime /\ Sync!Blocks \subseteq Nat
         /\ \A s \in 0..SyncTime : c[s] \in Nat \cup {None}
         /\ \A s \in 0..t : c[s] \in Nat \cup {None}
<1>1. SyncTime \in Nat
  BY SyncConstants
<1>2. Sync!Blocks \subseteq Nat
  BY DEF Sync!Blocks
<1>3. t \in 0..SyncTime /\ c \in [0..SyncTime -> Sync!Blocks \cup {None}]
  BY DEF Sync!Times
<1>4. \A s \in 0..t : s \in 0..SyncTime
  BY <1>1, <1>3
<1>5. \A s \in 0..SyncTime : c[s] \in Nat \cup {None}
  BY <1>2, <1>3
<1> QED
  BY <1>1, <1>2, <1>3, <1>4, <1>5

LEMMA CursorTyped ==
  ASSUME SyncTypes
  PROVE  /\ syncNow \in Nat /\ SyncTime \in Nat /\ syncNow <= SyncTime
         /\ \A s \in 0..SyncTime : cursorAt[s] \in Nat \cup {None}
         /\ \A s \in 0..syncNow : cursorAt[s] \in Nat \cup {None}
         /\ last \in Nat \cup {None} /\ Sync!Blocks \subseteq Nat
<1>1. /\ syncNow \in Sync!Times /\ last \in Sync!Blocks \cup {None}
      /\ cursorAt \in [Sync!Times -> Sync!Blocks \cup {None}]
  BY DEF SyncTypes
<1> QED
  BY <1>1, CursorTypes

LEMMA CursorTypedNext ==
  ASSUME SyncTypes'
  PROVE  /\ syncNow' \in Nat /\ syncNow' <= SyncTime
         /\ \A s \in 0..SyncTime : cursorAt'[s] \in Nat \cup {None}
         /\ \A s \in 0..syncNow' : cursorAt'[s] \in Nat \cup {None}
<1>1. /\ syncNow' \in Sync!Times
      /\ cursorAt' \in [Sync!Times -> Sync!Blocks \cup {None}]
  BY DEF SyncTypes
<1> QED
  BY <1>1, CursorTypes

LEMMA SyncStarts == Sync!Init => SyncInv
<1> SUFFICES ASSUME Sync!Init PROVE SyncInv
  OBVIOUS
<1> USE DEF Sync!Init
<1>1. SyncTime \in Nat /\ None \notin Int /\ FirstBlock \in Nat
  BY SyncConstants
<1>2. /\ syncNow = 0 /\ restored = 0 /\ last = None /\ observed = None
      /\ scanned = [b \in Sync!Blocks |-> None] /\ cursorAt = [t \in Sync!Times |-> None]
      /\ request = Sync!Idle /\ report = Sync!Nothing
  OBVIOUS
<1>3. 0 \in Sync!Times
  BY <1>1 DEF Sync!Times
<1>4. SyncTypes
  BY <1>2, <1>3 DEF SyncTypes
<1>5. CursorInv
  BY <1>2, <1>3, 0 \in 0..0, \A s \in 0..0 : s = 0 DEF CursorInv, Climbs
<1>6. Sync!Stored = {}
  BY <1>2 DEF Sync!Stored
<1>7. DOMAIN StoredRows = {} /\ StoredRows \in [{} -> Nat]
  BY <1>6 DEF StoredRows
<1>8. RowsTrue(StoredRows, cursorAt, syncNow, restored)
  <2>1. Rows(StoredRows)
    BY <1>7 DEF Rows
  <2>2. CursorReached(StoredRows, cursorAt, syncNow)
    BY <1>7 DEF CursorReached
  <2>3. \A x : CursorPassed(StoredRows, cursorAt, x)
    BY <1>7 DEF CursorPassed
  <2>4. Gapless(DOMAIN StoredRows)
    BY <1>7 DEF Gapless
  <2> QED
    BY <1>1, <2>1, <2>2, <2>3, <2>4 DEF RowsTrue
<1>9. StoredInv
  BY <1>2, <1>6, <1>8 DEF StoredInv
<1>10. RequestInv
  BY <1>2 DEF RequestInv, Sync!Idle
<1>11. ReportInv
  BY <1>2 DEF ReportInv
<1> QED
  BY <1>4, <1>5, <1>9, <1>10, <1>11 DEF SyncInv

\* Time passes, or the cursor climbs: what a request has read stays true.
LEMMA RequestStays ==
  ASSUME SyncTypes, SyncTypes', RequestInv, syncNow <= syncNow', restored <= restored',
         request' = request,
         \A s \in 0..syncNow : s < syncNow => cursorAt'[s] = cursorAt[s],
         cursorAt[syncNow] # None =>
           cursorAt'[syncNow] # None /\ cursorAt[syncNow] <= cursorAt'[syncNow],
         restored' = 0 =>
           \A b \in Sync!Stored : scanned'[b] = scanned[b]
  PROVE  RequestInv'
<1>1. /\ syncNow \in Nat /\ syncNow' \in Nat /\ 0..syncNow \subseteq 0..syncNow'
      /\ restored \in Nat /\ restored' \in Nat /\ None \notin Int
  BY CursorTyped, CursorTypedNext, SyncConstants DEF SyncTypes
<1>2. \A s \in 0..syncNow : cursorAt[s] \in Nat \cup {None} /\ cursorAt'[s] \in Nat \cup {None}
  BY <1>1, CursorTyped, CursorTypedNext
<1>3. ASSUME request.progress # None PROVE ProgressTrue(request.progress, syncNow')
  BY <1>1, <1>3 DEF RequestInv, ProgressTrue, HeadSeen
<1>4. ASSUME request.samples # None
      PROVE  SamplesTrue(request.samples, cursorAt', syncNow', restored', scanned')
  <2> DEFINE rows == request.samples
  <2>1. /\ RowsTrue(rows, cursorAt, syncNow, restored)
        /\ restored = 0 => \A b \in DOMAIN rows : rows[b] = scanned[b]
    BY <1>4 DEF RequestInv, SamplesTrue
  <2>2. RowsTrue(rows, cursorAt', syncNow', restored')
    <3> HIDE DEF rows
    <3> QED
      BY <1>1, <1>2, <2>1, RowsStay
  <2>3. ASSUME restored' = 0, NEW b \in DOMAIN rows PROVE rows[b] = scanned'[b]
    <3>1. restored = 0
      BY <1>1, <2>3
    <3>2. PICK D \in SUBSET Sync!Blocks : rows \in [D -> Nat]
      BY <2>1 DEF RowsTrue, Rows
    <3>3. b \in Sync!Blocks /\ rows[b] \in Nat /\ rows[b] = scanned[b]
      BY <2>1, <2>3, <3>1, <3>2
    <3>4. b \in Sync!Stored
      BY <1>1, <3>3 DEF Sync!Stored
    <3> QED
      BY <2>3, <3>3, <3>4
  <2> QED
    BY <2>2, <2>3 DEF SamplesTrue
<1> QED
  BY <1>1, <1>3, <1>4 DEF RequestInv

LEMMA SyncTickHolds ==
  ASSUME SyncInv, Sync!Tick PROVE SyncTypes' /\ CursorInv' /\ StoredInv' /\ RequestInv'
<1> USE DEF Sync!Tick
<1>1. /\ syncNow < SyncTime /\ syncNow' = syncNow + 1
      /\ cursorAt' = [cursorAt EXCEPT ![syncNow'] = last]
      /\ scanned' = scanned /\ last' = last /\ observed' = observed /\ request' = request
      /\ restored' = restored
  OBVIOUS
<1>2. SyncTypes /\ CursorInv /\ StoredInv /\ RequestInv
  BY DEF SyncInv
<1>3. /\ syncNow \in Nat /\ SyncTime \in Nat /\ syncNow' \in Nat /\ None \notin Int
      /\ syncNow' \in Sync!Times /\ 0..syncNow \subseteq 0..syncNow'
      /\ \A s \in 0..syncNow' : s = syncNow' \/ s \in 0..syncNow
      /\ restored \in Nat
  <2>1. /\ syncNow \in Nat /\ SyncTime \in Nat /\ None \notin Int /\ restored \in Nat
    BY <1>2, CursorTyped, SyncConstants DEF SyncTypes
  <2> QED
    BY <1>1, <2>1 DEF Sync!Times
<1>4. /\ cursorAt'[syncNow'] = last
      /\ \A s \in 0..syncNow : cursorAt'[s] = cursorAt[s]
      /\ cursorAt' \in [Sync!Times -> Sync!Blocks \cup {None}]
  BY <1>1, <1>2, <1>3 DEF SyncTypes, Sync!Times
<1>5. SyncTypes'
  BY <1>1, <1>2, <1>3, <1>4 DEF SyncTypes, HeadSeen
<1>6. /\ cursorAt[syncNow] = last
      /\ \A s, u \in 0..syncNow : s <= u /\ cursorAt[s] # None =>
           cursorAt[u] # None /\ FirstBlock <= cursorAt[s] /\ cursorAt[s] <= cursorAt[u]
  BY <1>2 DEF CursorInv, Climbs
<1>7. CursorInv'
  <2>1. ASSUME NEW s \in 0..syncNow', NEW u \in 0..syncNow', s <= u, cursorAt'[s] # None
        PROVE  /\ cursorAt'[u] # None /\ FirstBlock <= cursorAt'[s]
               /\ cursorAt'[s] <= cursorAt'[u]
    <3> DEFINE v == IF s \in 0..syncNow THEN s ELSE syncNow
               w == IF u \in 0..syncNow THEN u ELSE syncNow
    <3>1. /\ v \in 0..syncNow /\ w \in 0..syncNow /\ v <= w
          /\ cursorAt'[s] = cursorAt[v] /\ cursorAt'[u] = cursorAt[w]
      BY <1>1, <1>3, <1>4, <1>6, <2>1
    <3> HIDE DEF v, w
    <3> QED
      BY <1>6, <2>1, <3>1
  <2>2. cursorAt'[syncNow'] = last'
    BY <1>1, <1>4
  <2> QED
    BY <2>1, <2>2 DEF CursorInv, Climbs
<1>8. StoredInv'
  <2>1. Sync!Stored' = Sync!Stored /\ StoredRows' = StoredRows
    BY <1>1 DEF Sync!Stored, StoredRows
  <2>2. RowsTrue(StoredRows, cursorAt', syncNow', restored')
    <3>1. \A s \in 0..syncNow : cursorAt[s] \in Nat \cup {None} /\ cursorAt'[s] \in Nat \cup {None}
      BY <1>2, <1>3, <1>4, CursorTyped
    <3>2. cursorAt[syncNow] # None =>
          cursorAt'[syncNow] # None /\ cursorAt[syncNow] <= cursorAt'[syncNow]
      BY <1>3, <1>4, <3>1
    <3> DEFINE rows == StoredRows
    <3>3. RowsTrue(rows, cursorAt, syncNow, restored)
      BY <1>2 DEF StoredInv
    <3>4. syncNow <= syncNow' /\ restored <= restored' /\ restored' \in Nat
      BY <1>1, <1>3
    <3>5. \A s \in 0..syncNow : s < syncNow => cursorAt'[s] = cursorAt[s]
      BY <1>4
    <3> HIDE DEF rows, Sync!Tick
    <3>6. RowsTrue(rows, cursorAt', syncNow', restored')
      BY <1>3, <3>1, <3>2, <3>3, <3>4, <3>5, RowsStay
    <3> QED
      BY <3>6 DEF rows
  <2> QED
    BY <1>1, <1>2, <2>1, <2>2 DEF StoredInv
<1>9. RequestInv'
  <2>1. cursorAt[syncNow] # None =>
          cursorAt'[syncNow] # None /\ cursorAt[syncNow] <= cursorAt'[syncNow]
    BY <1>2, <1>3, <1>4, CursorTyped
  <2> QED
    BY <1>1, <1>2, <1>3, <1>4, <1>5, <2>1, RequestStays
<1> QED
  BY <1>5, <1>7, <1>8, <1>9

LEMMA SyncObserveHolds ==
  ASSUME SyncInv, Sync!Observe PROVE SyncTypes' /\ CursorInv' /\ StoredInv' /\ RequestInv'
<1>1. /\ observed' = [block |-> Sync!head(syncNow), at |-> syncNow]
      /\ UNCHANGED <<syncNow, scanned, last, request, report, cursorAt, restored>>
  BY DEF Sync!Observe
<1>2. SyncTypes /\ CursorInv /\ StoredInv /\ RequestInv
  BY DEF SyncInv
<1>3. syncNow \in Nat
  BY <1>2, CursorTyped
<1>4. HeadSeen(observed', syncNow)
  BY <1>1, <1>3 DEF HeadSeen
<1>5. SyncTypes'
  BY <1>1, <1>2, <1>4 DEF SyncTypes
<1>6. Sync!Stored' = Sync!Stored /\ StoredRows' = StoredRows
  BY <1>1 DEF Sync!Stored, StoredRows
<1>7. CursorInv' /\ StoredInv'
  BY <1>1, <1>2, <1>6 DEF CursorInv, StoredInv
<1>8. RequestInv'
  BY <1>1, <1>2 DEF RequestInv, SamplesTrue
<1> QED
  BY <1>5, <1>7, <1>8

LEMMA SyncAskHolds ==
  ASSUME SyncInv, Sync!Ask PROVE SyncTypes' /\ CursorInv' /\ StoredInv' /\ RequestInv'
<1>1. /\ request = Sync!Idle /\ request' = [Sync!Idle EXCEPT !.at = syncNow]
      /\ UNCHANGED <<syncNow, scanned, last, observed, cursorAt, restored>>
  BY DEF Sync!Ask, Sync!scanner
<1>2. SyncTypes /\ CursorInv /\ StoredInv /\ RequestInv
  BY DEF SyncInv
<1>3. syncNow \in 0..syncNow
  BY <1>2, CursorTyped
<1>4. Sync!Stored' = Sync!Stored /\ StoredRows' = StoredRows
  BY <1>1 DEF Sync!Stored, StoredRows
<1>5. SyncTypes' /\ CursorInv' /\ StoredInv'
  BY <1>1, <1>2, <1>4 DEF SyncTypes, CursorInv, StoredInv
<1>6. /\ request'.at = syncNow /\ request'.progress = None /\ request'.samples = None
      /\ request' = [at |-> request'.at, progress |-> request'.progress,
                     samples |-> request'.samples]
  BY <1>1 DEF Sync!Idle
<1>7. RequestInv'
  BY <1>1, <1>3, <1>6 DEF RequestInv
<1> QED
  BY <1>5, <1>7

LEMMA SyncReadProgressHolds ==
  ASSUME SyncInv, Sync!ReadProgress
  PROVE  SyncTypes' /\ CursorInv' /\ StoredInv' /\ RequestInv'
<1> DEFINE p == [last |-> last, observed |-> observed,
                 scannedAt |-> IF last = None THEN None ELSE scanned[last]]
<1>1. /\ request.at # None /\ request' = [request EXCEPT !.progress = p]
      /\ UNCHANGED <<syncNow, scanned, last, observed, cursorAt, restored>>
  BY DEF Sync!ReadProgress, Sync!scanner
<1>2. SyncTypes /\ CursorInv /\ StoredInv /\ RequestInv
  BY DEF SyncInv
<1>3. Sync!Stored' = Sync!Stored /\ StoredRows' = StoredRows
  BY <1>1 DEF Sync!Stored, StoredRows
<1>4. SyncTypes' /\ CursorInv' /\ StoredInv'
  BY <1>1, <1>2, <1>3 DEF SyncTypes, CursorInv, StoredInv
<1>5. ASSUME last # None PROVE last \in Sync!Blocks /\ scanned[last] \in Nat
  <2>1. last \in Sync!Stored /\ last \in Sync!Blocks
    BY <1>2, <1>5 DEF StoredInv, SyncTypes
  <2>2. scanned[last] \in Sync!Times
    BY <1>2, <2>1 DEF SyncTypes, Sync!Stored
  <2> QED
    BY <2>1, <2>2, SyncConstants DEF Sync!Times
<1>6. ProgressTrue(p, syncNow)
  <2>1. p.last = last /\ p.observed = observed
        /\ p.scannedAt = IF last = None THEN None ELSE scanned[last]
    OBVIOUS
  <2>2. observed # None => HeadSeen(observed, syncNow)
    BY <1>2 DEF SyncTypes
  <2> HIDE DEF p
  <2> QED
    BY <1>5, <2>1, <2>2 DEF ProgressTrue
<1> HIDE DEF p
<1>7. /\ request'.at = request.at /\ request'.progress = p /\ request'.samples = request.samples
      /\ request' = [at |-> request'.at, progress |-> request'.progress,
                     samples |-> request'.samples]
  BY <1>1, <1>2 DEF RequestInv
<1>8. RequestInv'
  BY <1>1, <1>2, <1>6, <1>7 DEF RequestInv, SamplesTrue
<1> QED
  BY <1>4, <1>8

\* The newest of a gapless set of rows have no gap either.
LEMMA NewestGapless ==
  ASSUME NEW S \in SUBSET Nat, Gapless(S), IsFiniteSet(S)
  PROVE  Gapless(Sync!newest(S)) /\ Sync!newest(S) \subseteq S
<1> DEFINE above(b) == {c \in S : c > b}
<1>1. \A T : Sync!Cardinality(T) = Cardinality(T)
  BY DEF Sync!Cardinality, Cardinality
<1>2. Sync!newest(S) = {b \in S : Cardinality(above(b)) < SampleLimit}
  BY <1>1 DEF Sync!newest
<1>3. ASSUME NEW b \in Sync!newest(S), NEW d \in Sync!newest(S), NEW n \in Int, b <= n, n <= d
      PROVE  n \in Sync!newest(S)
  <2>1. n \in S
    BY <1>2, <1>3 DEF Gapless
  <2>2. above(n) \subseteq above(b) /\ above(b) \subseteq S
    <3>1. b \in Int /\ \A c \in S : c \in Int
      <4>1. b \in S
        BY <1>2
      <4>2. \A c \in S : c \in Int
        OBVIOUS
      <4> QED
        BY <4>1, <4>2
    <3>2. \A c \in S : c > n => c > b
      BY <1>3, <3>1
    <3> QED
      BY <3>2
  <2>3. IsFiniteSet(above(b))
    BY <2>2, FS_Subset
  <2>4. Cardinality(above(n)) <= Cardinality(above(b)) /\ Cardinality(above(n)) \in Nat
        /\ Cardinality(above(b)) \in Nat
    <3> HIDE DEF above
    <3> QED
      BY <2>2, <2>3, FS_Subset, FS_CardinalityType
  <2>5. Cardinality(above(b)) < SampleLimit
    BY <1>2, <1>3
  <2>6. Cardinality(above(n)) < SampleLimit
    <3> HIDE DEF above
    <3> QED
      BY <2>4, <2>5, SyncConstants
  <2> QED
    BY <1>2, <2>1, <2>6
<1> QED
  BY <1>2, <1>3 DEF Gapless

\* What is true of the rows is true of some of them, if they leave no gap.
LEMMA SomeRows ==
  ASSUME NEW rows, NEW c, NEW t, NEW r, RowsTrue(rows, c, t, r),
         NEW S \in SUBSET DOMAIN rows, Gapless(S)
  PROVE  RowsTrue([b \in S |-> rows[b]], c, t, r)
<1> DEFINE some == [b \in S |-> rows[b]]
<1>1. PICK D \in SUBSET Sync!Blocks : rows \in [D -> Nat]
  BY DEF RowsTrue, Rows
<1>2. DOMAIN some = S /\ S \in SUBSET Sync!Blocks /\ some \in [S -> Nat]
  BY <1>1
<1>3. \A b \in S : some[b] = rows[b] /\ b \in DOMAIN rows
  OBVIOUS
<1> HIDE DEF some
<1>4. Rows(some) /\ Gapless(DOMAIN some)
  BY <1>2 DEF Rows
<1>5. CursorReached(some, c, t)
  BY <1>2, <1>3 DEF RowsTrue, CursorReached
<1>6. \A x : CursorPassed(rows, c, x) => CursorPassed(some, c, x)
  BY <1>2, <1>3 DEF CursorPassed
<1>7. RowsTrue(some, c, t, r)
  BY <1>4, <1>5, <1>6 DEF RowsTrue
<1> QED
  BY <1>7 DEF some

LEMMA SyncReadSamplesHolds ==
  ASSUME SyncInv, Sync!ReadSamples
  PROVE  SyncTypes' /\ CursorInv' /\ StoredInv' /\ RequestInv'
<1> DEFINE S == Sync!newest(Sync!Stored)
           rows == [b \in S |-> scanned[b]]
<1>1. /\ request.at # None /\ request' = [request EXCEPT !.samples = rows]
      /\ UNCHANGED <<syncNow, scanned, last, observed, cursorAt, restored>>
  BY DEF Sync!ReadSamples, Sync!scanner
<1>2. SyncTypes /\ CursorInv /\ StoredInv /\ RequestInv
  BY DEF SyncInv
<1>3. Sync!Stored' = Sync!Stored /\ StoredRows' = StoredRows
  BY <1>1 DEF Sync!Stored, StoredRows
<1>4. SyncTypes' /\ CursorInv' /\ StoredInv'
  BY <1>1, <1>2, <1>3 DEF SyncTypes, CursorInv, StoredInv
<1>5. Gapless(S) /\ S \subseteq Sync!Stored
  <2>1. Sync!Stored \in SUBSET Sync!Blocks /\ Sync!Blocks \subseteq Nat
    BY DEF Sync!Stored, Sync!Blocks
  <2>2. IsFiniteSet(Sync!Blocks)
    <3>1. Sync!head(SyncTime) \in Int
      BY SyncConstants, HeadGrows
    <3>2. 0 \in Int
      OBVIOUS
    <3> QED
      BY <3>1, <3>2, FS_Interval DEF Sync!Blocks
  <2>3. IsFiniteSet(Sync!Stored)
    BY <2>1, <2>2, FS_Subset
  <2>4. Gapless(Sync!Stored)
    BY <1>2 DEF StoredInv, RowsTrue, StoredRows
  <2> QED
    BY <2>1, <2>3, <2>4, NewestGapless
<1>6. /\ rows = [b \in S |-> StoredRows[b]] /\ S \in SUBSET DOMAIN StoredRows
      /\ \A b \in DOMAIN rows : rows[b] = scanned[b]
  BY <1>5 DEF StoredRows
<1>7. RowsTrue(StoredRows, cursorAt, syncNow, restored)
  BY <1>2 DEF StoredInv
<1> HIDE DEF S
<1>8. RowsTrue(rows, cursorAt, syncNow, restored)
  <2> DEFINE from == StoredRows
  <2>1. /\ RowsTrue(from, cursorAt, syncNow, restored) /\ S \in SUBSET DOMAIN from /\ Gapless(S)
        /\ rows = [b \in S |-> from[b]]
    BY <1>5, <1>6, <1>7
  <2> HIDE DEF from, rows
  <2> QED
    BY <2>1, SomeRows
<1> HIDE DEF rows
<1>9. /\ request'.at = request.at /\ request'.progress = request.progress /\ request'.samples = rows
      /\ request' = [at |-> request'.at, progress |-> request'.progress,
                     samples |-> request'.samples]
  BY <1>1, <1>2 DEF RequestInv
<1>10. SamplesTrue(request'.samples, cursorAt', syncNow', restored', scanned')
  BY <1>1, <1>6, <1>8, <1>9 DEF SamplesTrue
<1>11. RequestInv'
  BY <1>1, <1>2, <1>9, <1>10 DEF RequestInv
<1> QED
  BY <1>4, <1>11

LEMMA StoredAreBlocks ==
  /\ Sync!Stored \subseteq Sync!Blocks /\ Sync!Blocks \subseteq Nat
  /\ DOMAIN StoredRows = Sync!Stored
  /\ \A b \in Sync!Stored : StoredRows[b] = scanned[b]
<1>1. Sync!Stored \subseteq Sync!Blocks
  BY DEF Sync!Stored
<1>2. Sync!Blocks \subseteq Nat
  BY DEF Sync!Blocks
<1>3. /\ DOMAIN StoredRows = Sync!Stored
      /\ \A b \in Sync!Stored : StoredRows[b] = scanned[b]
  BY DEF StoredRows
<1> QED
  BY <1>1, <1>2, <1>3

LEMMA StoredRowsNext ==
  /\ DOMAIN StoredRows' = Sync!Stored'
  /\ \A b \in Sync!Stored' : StoredRows'[b] = scanned'[b]
  BY DEF StoredRows

\* A row is added, or written again.
LEMMA RowWritten ==
  ASSUME NEW rows, NEW c, NEW t \in Nat, NEW r \in Nat, NEW q \in Nat, r <= q,
         RowsTrue(rows, c, t, r), NEW b \in Sync!Blocks, NEW more,
         DOMAIN more = DOMAIN rows \cup {b}, more[b] = t,
         \A d \in DOMAIN rows : d # b => more[d] = rows[d],
         more = [d \in DOMAIN more |-> more[d]],
         Gapless(DOMAIN more), c[t] # None, c[t] >= b,
         \/ b < FirstBlock \/ Before(c, t) < b
         \/ r < q
  PROVE  RowsTrue(more, c, t, q)
<1>1. PICK D \in SUBSET Sync!Blocks : rows \in [D -> Nat]
  BY DEF RowsTrue, Rows
<1>2. Sync!Blocks \subseteq Nat /\ FirstBlock \in Nat
  BY SyncConstants DEF Sync!Blocks
<1>3. Rows(more)
  <2>1. DOMAIN more \in SUBSET Sync!Blocks
    BY <1>1
  <2>2. more \in [DOMAIN more -> Nat]
    BY <1>1
  <2> QED
    BY <2>1, <2>2 DEF Rows
<1>4. CursorReached(more, c, t)
  <2> SUFFICES ASSUME NEW d \in DOMAIN more
               PROVE  more[d] \in 0..t /\ c[more[d]] # None /\ c[more[d]] >= d
    BY DEF CursorReached
  <2>1. CASE d = b
    BY <2>1
  <2>2. CASE d # b
    BY <2>2 DEF RowsTrue, CursorReached
  <2> QED
    BY <2>1, <2>2
<1>5. ASSUME b < FirstBlock \/ Before(c, t) < b, NEW x, CursorPassed(rows, c, x)
      PROVE  CursorPassed(more, c, x)
  <2> SUFFICES ASSUME NEW d \in DOMAIN more, d >= FirstBlock, d # x
               PROVE  Before(c, more[d]) < d
    BY DEF CursorPassed
  <2>1. CASE d = b
    BY <1>2, <1>5, <2>1
  <2>2. CASE d # b
    BY <1>5, <2>2 DEF CursorPassed
  <2> QED
    BY <2>1, <2>2
<1>6. ASSUME CursorPassed(rows, c, FirstBlock - 1) PROVE CursorPassed(more, c, b)
  <2> SUFFICES ASSUME NEW d \in DOMAIN more, d >= FirstBlock, d # b
               PROVE  Before(c, more[d]) < d
    BY DEF CursorPassed
  <2>1. d # FirstBlock - 1
    BY <1>2
  <2> QED
    BY <1>6, <2>1 DEF CursorPassed
<1>7. q = 0 => CursorPassed(more, c, FirstBlock - 1)
  <2> SUFFICES ASSUME q = 0 PROVE CursorPassed(more, c, FirstBlock - 1)
    OBVIOUS
  <2>1. r = 0 /\ ~(r < q)
    BY SMT
  <2> QED
    BY <1>5, <2>1 DEF RowsTrue
<1>8. q <= 1 => \E x \in Int : CursorPassed(more, c, x)
  <2> SUFFICES ASSUME q <= 1 PROVE \E x \in Int : CursorPassed(more, c, x)
    OBVIOUS
  <2>1. CASE b < FirstBlock \/ Before(c, t) < b
    <3>1. r <= 1
      BY SMT
    <3>2. PICK x \in Int : CursorPassed(rows, c, x)
      BY <3>1 DEF RowsTrue
    <3> QED
      BY <1>5, <2>1, <3>2
  <2>2. CASE r < q
    <3>1. r = 0
      BY <2>2, SMT
    <3>2. CursorPassed(more, c, b)
      BY <1>6, <3>1 DEF RowsTrue
    <3> QED
      BY <1>2, <3>2
  <2> QED
    BY <2>1, <2>2
<1> QED
  BY <1>3, <1>4, <1>7, <1>8 DEF RowsTrue

LEMMA SyncRestoreHolds ==
  ASSUME SyncInv, Sync!Restore PROVE SyncTypes' /\ CursorInv' /\ StoredInv' /\ RequestInv'
<1>1. PICK b \in Sync!Stored : b < last /\ scanned' = [scanned EXCEPT ![b] = syncNow]
  BY DEF Sync!Restore
<1>2. /\ restored' = restored + 1
      /\ UNCHANGED <<syncNow, last, observed, request, report, cursorAt>>
  BY DEF Sync!Restore
<1>3. SyncTypes /\ CursorInv /\ StoredInv /\ RequestInv
  BY DEF SyncInv
<1>4. /\ syncNow \in Nat /\ restored \in Nat /\ restored' \in Nat /\ restored < restored'
      /\ restored' # 0 /\ None \notin Int /\ syncNow \in Sync!Times
      /\ b \in Sync!Blocks /\ b \in Nat /\ last \in Nat \cup {None}
  BY <1>1, <1>2, <1>3, CursorTyped, SyncConstants, StoredAreBlocks DEF SyncTypes
<1>5. /\ scanned'[b] = syncNow
      /\ \A d \in Sync!Blocks : d # b => scanned'[d] = scanned[d]
      /\ scanned' \in [Sync!Blocks -> Sync!Times \cup {None}]
  BY <1>1, <1>3, <1>4 DEF SyncTypes
<1>6. SyncTypes'
  BY <1>2, <1>3, <1>4, <1>5 DEF SyncTypes
<1>7. CursorInv'
  BY <1>2, <1>3 DEF CursorInv
<1>8. Sync!Stored' = Sync!Stored
  BY <1>1, <1>4, <1>5 DEF Sync!Stored
<1>9. last # None /\ last \in Nat /\ cursorAt[syncNow] = last
  BY <1>1, <1>3, <1>4 DEF StoredInv, CursorInv
<1>10. RowsTrue(StoredRows', cursorAt, syncNow, restored')
  <2> DEFINE rows == StoredRows
             more == StoredRows'
  <2>1. /\ RowsTrue(rows, cursorAt, syncNow, restored) /\ Gapless(DOMAIN rows)
        /\ DOMAIN rows = Sync!Stored /\ DOMAIN more = Sync!Stored
        /\ more = [d \in DOMAIN more |-> more[d]]
    BY <1>3, <1>8, StoredAreBlocks, StoredRowsNext DEF StoredInv, RowsTrue, StoredRows
  <2>2. more[b] = syncNow /\ \A d \in DOMAIN rows : d # b => more[d] = rows[d]
    BY <1>1, <1>5, <1>8, <2>1, StoredAreBlocks, StoredRowsNext
  <2>3. DOMAIN more = DOMAIN rows \cup {b}
    BY <1>1, <2>1
  <2>4. Gapless(DOMAIN more) /\ restored <= restored'
    BY <1>4, <2>1
  <2>5. cursorAt[syncNow] # None /\ cursorAt[syncNow] >= b
    BY <1>1, <1>4, <1>9
  <2> HIDE DEF rows, more
  <2> QED
    BY <1>4, <2>1, <2>2, <2>3, <2>4, <2>5, RowWritten DEF more
<1>11. StoredInv'
  BY <1>2, <1>3, <1>4, <1>8, <1>10 DEF StoredInv
<1>12. RequestInv'
  <2>1. cursorAt' = cursorAt /\ syncNow' = syncNow /\ request' = request
    BY <1>2
  <2>2. \A s \in 0..syncNow : cursorAt[s] \in Nat \cup {None}
    BY <1>3, CursorTyped
  <2>3. cursorAt[syncNow] <= cursorAt[syncNow]
    BY <1>9
  <2> QED
    BY <1>3, <1>4, <1>6, <1>9, <2>1, <2>3, RequestStays
<1> QED
  BY <1>6, <1>7, <1>11, <1>12

\* One block more above a gapless set, or below one.
LEMMA GaplessAbove ==
  ASSUME NEW S \in SUBSET Nat, Gapless(S), NEW n \in S, \A d \in S : d <= n
  PROVE  Gapless(S \cup {n + 1})
<1> SUFFICES ASSUME NEW b \in S \cup {n + 1}, NEW d \in S \cup {n + 1}, NEW m \in Int,
                    b <= m, m <= d
             PROVE  m \in S \cup {n + 1}
  BY DEF Gapless
<1>0. n \in Nat
  OBVIOUS
<1>1. b \in Nat /\ d \in Nat /\ d <= n + 1 /\ b <= n + 1
  BY <1>0, SMT
<1>2. CASE m = n + 1
  BY <1>2
<1>3. CASE m # n + 1
  <2>1. m <= n /\ b # n + 1
    BY <1>0, <1>1, <1>3, SMT
  <2>2. b \in S
    BY <2>1
  <2> QED
    BY <2>1, <2>2 DEF Gapless
<1> QED
  BY <1>2, <1>3

LEMMA GaplessBelow ==
  ASSUME NEW S \in SUBSET Nat, Gapless(S), NEW n \in S, \A d \in S : n <= d
  PROVE  Gapless(S \cup {n - 1})
<1> SUFFICES ASSUME NEW b \in S \cup {n - 1}, NEW d \in S \cup {n - 1}, NEW m \in Int,
                    b <= m, m <= d
             PROVE  m \in S \cup {n - 1}
  BY DEF Gapless
<1>0. n \in Nat
  OBVIOUS
<1>1. b \in Int /\ d \in Int /\ d >= n - 1 /\ b >= n - 1
  BY <1>0, SMT
<1>2. CASE m = n - 1
  BY <1>2
<1>3. CASE m # n - 1
  <2>1. m >= n /\ d # n - 1
    BY <1>0, <1>1, <1>3, SMT
  <2>2. d \in S
    BY <2>1
  <2> QED
    BY <2>1, <2>2 DEF Gapless
<1> QED
  BY <1>2, <1>3

LEMMA GaplessOne == ASSUME NEW n \in Int PROVE Gapless({n})
  BY DEF Gapless

\* The head a scanner has seen is one the chain has by the end.
LEMMA SeenInBlocks ==
  ASSUME SyncTypes, NEW o, HeadSeen(o, syncNow), NEW b \in Nat, b <= o.block
  PROVE  b \in Sync!Blocks
<1>1. o.at \in Nat /\ o.at <= SyncTime /\ SyncTime \in Nat
  BY CursorTyped DEF HeadSeen
<1>2. /\ Sync!head(o.at) <= Sync!head(SyncTime)
      /\ Sync!head(o.at) \in Nat /\ Sync!head(SyncTime) \in Nat
  BY <1>1, HeadEstimated, HeadGrows
<1> QED
  BY <1>2 DEF HeadSeen, Sync!Blocks

LEMMA StoredOneMore ==
  ASSUME NEW b \in Sync!Blocks, scanned'[b] \in Int,
         \A d \in Sync!Blocks : d # b => scanned'[d] = scanned[d]
  PROVE  Sync!Stored' = Sync!Stored \cup {b}
<1>1. \A d \in Sync!Blocks : scanned'[d] # None <=> d = b \/ scanned[d] # None
  BY SyncConstants
<1>2. Sync!Stored' = {d \in Sync!Blocks : scanned'[d] # None}
  BY DEF Sync!Stored
<1>3. Sync!Stored = {d \in Sync!Blocks : scanned[d] # None}
  BY DEF Sync!Stored
<1> QED
  BY <1>1, <1>2, <1>3

LEMMA SyncStoreForwardHolds ==
  ASSUME SyncInv, Sync!StoreForward
  PROVE  SyncTypes' /\ CursorInv' /\ StoredInv' /\ RequestInv'
<1> DEFINE b == IF last = None THEN FirstBlock ELSE last + 1
<1>1. /\ observed # None /\ b <= observed.block
      /\ scanned' = [scanned EXCEPT ![b] = syncNow] /\ last' = b
      /\ cursorAt' = [cursorAt EXCEPT ![syncNow] = last']
      /\ UNCHANGED <<syncNow, observed, request, report, restored>>
  BY DEF Sync!StoreForward
<1>2. SyncTypes /\ CursorInv /\ StoredInv /\ RequestInv
  BY DEF SyncInv
<1>3. /\ syncNow \in Nat /\ SyncTime \in Nat /\ restored \in Nat /\ None \notin Int
      /\ syncNow \in Sync!Times /\ FirstBlock \in Nat /\ last \in Nat \cup {None}
      /\ \A s \in 0..syncNow : cursorAt[s] \in Nat \cup {None}
  BY <1>2, CursorTyped, SyncConstants DEF SyncTypes
<1>4. b \in Sync!Blocks /\ b \in Nat
  <2>1. b \in Nat
    BY <1>3
  <2>2. HeadSeen(observed, syncNow)
    BY <1>1, <1>2 DEF SyncTypes
  <2> HIDE DEF b
  <2> QED
    BY <1>1, <1>2, <2>1, <2>2, SeenInBlocks
<1>5. /\ cursorAt[syncNow] = last
      /\ \A s, u \in 0..syncNow : s <= u /\ cursorAt[s] # None =>
           cursorAt[u] # None /\ FirstBlock <= cursorAt[s] /\ cursorAt[s] <= cursorAt[u]
      /\ Climbs(cursorAt, syncNow) /\ syncNow \in 0..syncNow
  BY <1>2, <1>3 DEF CursorInv, Climbs
<1>6. /\ FirstBlock <= b /\ last # None => last <= b
      /\ last # None => last < b /\ FirstBlock < b
  <2>1. last # None => FirstBlock <= last
    BY <1>5
  <2> QED
    BY <1>3, <2>1
<1>7. b \notin Sync!Stored
  <2>1. CASE last = None
    BY <1>2, <2>1 DEF StoredInv
  <2>2. CASE last # None
    <3>1. \A d \in Sync!Stored : d <= last
      BY <1>2 DEF StoredInv
    <3>2. ~(b <= last)
      BY <1>3, <1>6, <2>2
    <3> QED
      BY <3>1, <3>2
  <2> QED
    BY <2>1, <2>2
<1>8. last = None => Sync!Stored = {} /\ b = FirstBlock
  BY <1>2 DEF StoredInv
<1>9. last # None => /\ FirstBlock \in Sync!Stored /\ last \in Sync!Stored /\ b = last + 1
                     /\ \A d \in Sync!Stored : d <= last
  BY <1>2 DEF StoredInv
<1> HIDE DEF b
<1>10. /\ scanned'[b] = syncNow /\ \A d \in Sync!Blocks : d # b => scanned'[d] = scanned[d]
       /\ scanned' \in [Sync!Blocks -> Sync!Times \cup {None}]
  BY <1>1, <1>2, <1>3, <1>4 DEF SyncTypes
<1>11. /\ cursorAt'[syncNow] = b
       /\ \A s \in 0..syncNow : s # syncNow => cursorAt'[s] = cursorAt[s]
       /\ cursorAt' \in [Sync!Times -> Sync!Blocks \cup {None}]
  <2>1. \A s \in 0..syncNow : s \in Sync!Times
    BY <1>3 DEF Sync!Times
  <2> QED
    BY <1>1, <1>2, <1>3, <1>4, <2>1 DEF SyncTypes
<1>12. SyncTypes'
  BY <1>1, <1>2, <1>4, <1>10, <1>11 DEF SyncTypes
<1>13. CursorInv'
  <2>1. ASSUME NEW s \in 0..syncNow, NEW u \in 0..syncNow, s <= u, cursorAt'[s] # None
        PROVE  /\ cursorAt'[u] # None /\ FirstBlock <= cursorAt'[s]
               /\ cursorAt'[s] <= cursorAt'[u]
    <3>1. CASE s = syncNow
      <4>1. u = syncNow
        BY <1>3, <2>1, <3>1
      <4> QED
        BY <1>3, <1>4, <1>6, <1>11, <3>1, <4>1
    <3>2. CASE s # syncNow /\ u = syncNow
      <4>1. cursorAt'[s] = cursorAt[s] /\ FirstBlock <= cursorAt[s] /\ cursorAt[s] <= last
            /\ last # None
        BY <1>5, <1>11, <2>1, <3>2
      <4>2. cursorAt[s] \in Nat /\ last \in Nat
        BY <1>3, <2>1, <4>1
      <4> QED
        BY <1>3, <1>4, <1>6, <1>11, <3>2, <4>1, <4>2
    <3>3. CASE s # syncNow /\ u # syncNow
      BY <1>5, <1>11, <2>1, <3>3
    <3> QED
      BY <3>1, <3>2, <3>3
  <2> QED
    BY <1>1, <1>11, <2>1 DEF CursorInv, Climbs
<1>14. Sync!Stored' = Sync!Stored \cup {b}
  BY <1>3, <1>4, <1>10, StoredOneMore
<1>15. cursorAt[syncNow] # None =>
          cursorAt'[syncNow] # None /\ cursorAt[syncNow] <= cursorAt'[syncNow]
  BY <1>3, <1>4, <1>5, <1>6, <1>11
<1>16. \A s \in 0..syncNow : cursorAt'[s] \in Nat \cup {None}
  BY <1>3, <1>4, <1>11
<1>17. Gapless(Sync!Stored \cup {b})
  <2>1. Sync!Stored \in SUBSET Nat /\ Gapless(Sync!Stored)
    BY <1>2, StoredAreBlocks DEF StoredInv, RowsTrue
  <2>2. CASE last = None
    BY <1>4, <1>8, <2>2, GaplessOne, Sync!Stored \cup {b} = {b}
  <2>3. CASE last # None
    BY <1>9, <2>1, <2>3, GaplessAbove
  <2> QED
    BY <2>2, <2>3
<1>18. RowsTrue(StoredRows', cursorAt', syncNow, restored)
  <2> DEFINE rows == StoredRows
             more == StoredRows'
  <2>1. /\ RowsTrue(rows, cursorAt, syncNow, restored)
        /\ DOMAIN rows = Sync!Stored /\ DOMAIN more = Sync!Stored \cup {b}
        /\ more = [d \in DOMAIN more |-> more[d]]
    BY <1>2, <1>14, StoredAreBlocks, StoredRowsNext DEF StoredInv, StoredRows
  <2>2. more[b] = syncNow /\ \A d \in DOMAIN rows : d # b => more[d] = rows[d]
    BY <1>7, <1>10, <1>14, <2>1, StoredAreBlocks, StoredRowsNext
  <2>3. Before(cursorAt', syncNow) < b
    <3>1. CASE syncNow = 0 \/ cursorAt'[syncNow - 1] = None
      BY <1>3, <1>4, <1>6, <3>1 DEF Before
    <3>2. CASE syncNow # 0 /\ cursorAt'[syncNow - 1] # None
      <4>1. syncNow - 1 \in 0..syncNow /\ syncNow - 1 # syncNow /\ syncNow - 1 <= syncNow
        BY <1>3, <3>2
      <4>2. cursorAt'[syncNow - 1] = cursorAt[syncNow - 1]
        BY <1>11, <4>1
      <4>3. cursorAt[syncNow - 1] <= last /\ last # None /\ cursorAt[syncNow - 1] \in Nat
        BY <1>3, <1>5, <3>2, <4>1, <4>2
      <4>4. last \in Nat /\ last < b
        BY <1>3, <1>6, <4>3
      <4> QED
        BY <1>4, <3>2, <4>2, <4>3, <4>4 DEF Before
    <3> QED
      BY <3>1, <3>2
  <2> HIDE DEF rows, more
  <2>4. RowsTrue(rows, cursorAt', syncNow, restored)
    <3>1. \A s \in 0..syncNow : s < syncNow => cursorAt'[s] = cursorAt[s]
      BY <1>3, <1>11
    <3> QED
      BY <1>3, <1>15, <1>16, <2>1, <3>1, RowsStay
  <2>5. /\ DOMAIN more = DOMAIN rows \cup {b} /\ Gapless(DOMAIN more)
        /\ cursorAt'[syncNow] # None /\ cursorAt'[syncNow] >= b
    BY <1>3, <1>4, <1>11, <1>17, <2>1
  <2>6. RowsTrue(more, cursorAt', syncNow, restored)
    BY <1>3, <1>4, <2>1, <2>2, <2>3, <2>4, <2>5, RowWritten
  <2> QED
    BY <2>6 DEF more
<1>19. StoredInv'
  <2>1. /\ last' # None /\ last' = b /\ b \in Sync!Stored'
        /\ syncNow' = syncNow /\ restored' = restored
    BY <1>1, <1>3, <1>4, <1>14
  <2>2. FirstBlock \in Sync!Stored'
    BY <1>8, <1>9, <1>14
  <2>3. \A d \in Sync!Stored' : d <= b
    BY <1>3, <1>4, <1>6, <1>8, <1>9, <1>14, StoredAreBlocks
  <2>4. ASSUME restored' = 0, FirstBlock - 1 \in Sync!Stored'
        PROVE  scanned'[FirstBlock - 1] >= scanned'[FirstBlock]
    <3>1. FirstBlock - 1 # b
      BY <1>3, <1>4, <1>6
    <3>2. FirstBlock - 1 \in Sync!Stored /\ last # None
      BY <1>8, <1>14, <2>4, <3>1
    <3>3. FirstBlock # b /\ FirstBlock \in Sync!Stored
      BY <1>3, <1>4, <1>6, <1>9, <3>2
    <3>4. /\ scanned'[FirstBlock - 1] = scanned[FirstBlock - 1]
          /\ scanned'[FirstBlock] = scanned[FirstBlock]
      BY <1>10, <3>1, <3>2, <3>3, StoredAreBlocks
    <3> QED
      BY <1>2, <2>1, <2>4, <3>2, <3>4 DEF StoredInv
  <2> QED
    BY <1>18, <2>1, <2>2, <2>3, <2>4 DEF StoredInv
<1>20. RequestInv'
  <2>1. \A s \in 0..syncNow : s < syncNow => cursorAt'[s] = cursorAt[s]
    BY <1>3, <1>11
  <2>2. \A d \in Sync!Stored : scanned'[d] = scanned[d]
    BY <1>7, <1>10, StoredAreBlocks
  <2>3. /\ syncNow <= syncNow' /\ restored <= restored' /\ request' = request
    BY <1>1, <1>3
  <2> QED
    BY <1>2, <1>12, <1>15, <2>1, <2>2, <2>3, RequestStays
<1> QED
  BY <1>12, <1>13, <1>19, <1>20

LEMMA SyncStoreBackwardHolds ==
  ASSUME SyncInv, Sync!StoreBackward
  PROVE  SyncTypes' /\ CursorInv' /\ StoredInv' /\ RequestInv'
<1> DEFINE least == Sync!Min(Sync!Stored)
           b == least - 1
<1>1. /\ last # None /\ least > 0
      /\ scanned' = [scanned EXCEPT ![b] = syncNow]
      /\ UNCHANGED <<syncNow, last, observed, request, report, cursorAt, restored>>
  BY DEF Sync!StoreBackward
<1>2. SyncTypes /\ CursorInv /\ StoredInv /\ RequestInv
  BY DEF SyncInv
<1>3. /\ syncNow \in Nat /\ restored \in Nat /\ None \notin Int
      /\ syncNow \in Sync!Times /\ FirstBlock \in Nat /\ last \in Nat
      /\ \A s \in 0..syncNow : cursorAt[s] \in Nat \cup {None}
  BY <1>1, <1>2, CursorTyped, SyncConstants DEF SyncTypes
<1>4. /\ FirstBlock \in Sync!Stored /\ last \in Sync!Stored
      /\ \A d \in Sync!Stored : d <= last
      /\ RowsTrue(StoredRows, cursorAt, syncNow, restored)
      /\ restored = 0 /\ FirstBlock - 1 \in Sync!Stored
           => scanned[FirstBlock - 1] >= scanned[FirstBlock]
  BY <1>1, <1>2 DEF StoredInv
<1>5. least \in Sync!Stored /\ \A d \in Sync!Stored : least <= d
  <2>1. Sync!Stored \in SUBSET Nat /\ Sync!Stored # {}
    BY <1>4, StoredAreBlocks
  <2> QED
    BY <2>1, LeastBlock
<1> HIDE DEF least
<1>6. /\ least \in Nat /\ b \in Nat /\ b < FirstBlock /\ b < last /\ least \in Sync!Blocks
      /\ least = b + 1 /\ least <= FirstBlock
  <2>1. least \in Nat /\ least \in Sync!Blocks
    BY <1>5, StoredAreBlocks
  <2>2. least <= FirstBlock /\ least <= last
    BY <1>4, <1>5
  <2> QED
    BY <1>1, <1>3, <2>1, <2>2
<1>7. b \in Sync!Blocks
  <2>1. Sync!head(SyncTime) \in Nat
    BY SyncConstants, HeadGrows
  <2> QED
    BY <1>6, <2>1 DEF Sync!Blocks
<1>8. b \notin Sync!Stored
  BY <1>5, <1>6
<1> HIDE DEF b
<1>9. /\ scanned'[b] = syncNow /\ \A d \in Sync!Blocks : d # b => scanned'[d] = scanned[d]
      /\ scanned' \in [Sync!Blocks -> Sync!Times \cup {None}]
  BY <1>1, <1>2, <1>3, <1>7 DEF SyncTypes
<1>10. SyncTypes' /\ CursorInv'
  BY <1>1, <1>2, <1>9 DEF SyncTypes, CursorInv
<1>11. Sync!Stored' = Sync!Stored \cup {b}
  BY <1>3, <1>7, <1>9, StoredOneMore
<1>12. Gapless(Sync!Stored \cup {b})
  <2>1. Sync!Stored \in SUBSET Nat /\ Gapless(Sync!Stored)
    BY <1>4, StoredAreBlocks DEF RowsTrue
  <2>2. Gapless(Sync!Stored \cup {least - 1})
    BY <1>5, <2>1, GaplessBelow
  <2> QED
    BY <2>2 DEF b
<1>13. cursorAt[syncNow] # None /\ cursorAt[syncNow] = last /\ cursorAt[syncNow] >= b
  BY <1>1, <1>2, <1>3, <1>6 DEF CursorInv
<1>14. RowsTrue(StoredRows', cursorAt, syncNow, restored)
  <2> DEFINE rows == StoredRows
             more == StoredRows'
  <2>1. /\ RowsTrue(rows, cursorAt, syncNow, restored)
        /\ DOMAIN rows = Sync!Stored /\ DOMAIN more = Sync!Stored \cup {b}
        /\ more = [d \in DOMAIN more |-> more[d]]
    BY <1>4, <1>11, StoredAreBlocks, StoredRowsNext DEF StoredRows
  <2>2. more[b] = syncNow /\ \A d \in DOMAIN rows : d # b => more[d] = rows[d]
    BY <1>8, <1>9, <1>11, <2>1, StoredAreBlocks, StoredRowsNext
  <2> HIDE DEF rows, more
  <2>3. DOMAIN more = DOMAIN rows \cup {b} /\ Gapless(DOMAIN more)
    BY <1>12, <2>1
  <2>4. RowsTrue(more, cursorAt, syncNow, restored)
    BY <1>3, <1>6, <1>7, <1>13, <2>1, <2>2, <2>3, RowWritten
  <2> QED
    BY <2>4 DEF more
<1>15. StoredInv'
  <2>1. last' = last /\ last' # None /\ syncNow' = syncNow /\ restored' = restored
        /\ cursorAt' = cursorAt
    BY <1>1
  <2>2. FirstBlock \in Sync!Stored' /\ last \in Sync!Stored'
    BY <1>4, <1>11
  <2>3. \A d \in Sync!Stored' : d <= last
    BY <1>3, <1>4, <1>6, <1>11
  <2>4. ASSUME restored' = 0, FirstBlock - 1 \in Sync!Stored'
        PROVE  scanned'[FirstBlock - 1] >= scanned'[FirstBlock]
    <3>1. FirstBlock # b /\ scanned'[FirstBlock] = scanned[FirstBlock]
      BY <1>3, <1>4, <1>6, <1>9, StoredAreBlocks
    <3>2. CASE FirstBlock - 1 = b
      <4>1. FirstBlock \in DOMAIN StoredRows /\ StoredRows[FirstBlock] = scanned[FirstBlock]
        BY <1>4, StoredAreBlocks
      <4>2. scanned[FirstBlock] \in 0..syncNow
        BY <1>4, <4>1 DEF RowsTrue, CursorReached
      <4> QED
        BY <1>3, <1>9, <3>1, <3>2, <4>2
    <3>3. CASE FirstBlock - 1 # b
      <4>1. FirstBlock - 1 \in Sync!Stored
        BY <1>11, <2>4, <3>3
      <4>2. scanned'[FirstBlock - 1] = scanned[FirstBlock - 1]
        BY <1>9, <3>3, <4>1, StoredAreBlocks
      <4> QED
        BY <1>4, <2>1, <2>4, <3>1, <4>1, <4>2
    <3> QED
      BY <3>2, <3>3
  <2> QED
    BY <1>14, <2>1, <2>2, <2>3, <2>4 DEF StoredInv
<1>16. RequestInv'
  <2>1. cursorAt' = cursorAt /\ syncNow' = syncNow /\ request' = request /\ restored' = restored
    BY <1>1
  <2>2. \A d \in Sync!Stored : scanned'[d] = scanned[d]
    BY <1>8, <1>9, StoredAreBlocks
  <2>3. syncNow <= syncNow' /\ restored <= restored' /\ cursorAt[syncNow] <= cursorAt[syncNow]
    BY <1>3, <1>13, <2>1
  <2> QED
    BY <1>2, <1>10, <2>1, <2>2, <2>3, RequestStays
<1> QED
  BY <1>10, <1>15, <1>16

-----------------------------------------------------------------------------
(* The answer. *)

\* What is measured: a run of samples from start up to tip.
LEMMA MeasuredIs ==
  ASSUME NEW rows, NEW c, NEW t \in Nat, NEW r, RowsTrue(rows, c, t, r),
         NEW lastBlock \in Nat \cup {None}, NEW at \in Nat
  PROVE  LET m == Sync!measured(rows, lastBlock, at)
         IN  \/ m = Sync!Nothing
             \/ /\ m.tip \in DOMAIN rows /\ m.start \in DOMAIN rows /\ m.start <= m.tip
                /\ m.tip \in Nat /\ m.start \in Nat
                /\ m.since = rows[m.start] /\ m.since \in 0..t
                /\ m.until \in Nat /\ m.until >= rows[m.tip] /\ m.until >= at
                /\ Sync!inRun(rows, m.start, m.tip)
                /\ m = [state |-> "none", tip |-> m.tip, start |-> m.start,
                        since |-> m.since, until |-> m.until, lag |-> 0]
                /\ m.until = rows[m.tip] \/ m.until = at
<1> DEFINE counted == {b \in DOMAIN rows : lastBlock # None => b <= lastBlock}
           tip == Sync!Max(counted)
           run == {b \in counted : Sync!inRun(rows, b, tip)}
           start == Sync!Min(run)
           until == Sync!Max({rows[tip], at})
           m == [Sync!Nothing EXCEPT !.tip = tip, !.start = start, !.since = rows[start],
                                     !.until = until]
<1>1. Sync!measured(rows, lastBlock, at) = IF counted = {} THEN Sync!Nothing ELSE m
  BY DEF Sync!measured
<1>2. PICK D \in SUBSET Sync!Blocks : rows \in [D -> Nat]
  BY DEF RowsTrue, Rows
<1>3. Sync!Blocks = 0..Sync!head(SyncTime) /\ Sync!head(SyncTime) \in Nat
  BY SyncConstants, HeadGrows DEF Sync!Blocks
<1>4. CASE counted # {}
  <2>1. counted \in SUBSET (0..Sync!head(SyncTime)) /\ counted \subseteq DOMAIN rows
    BY <1>2, <1>3
  <2> HIDE DEF counted
  <2>2. tip \in counted /\ \A b \in counted : tip >= b
    <3>1. PICK n \in Nat : counted \in SUBSET (0..n)
      BY <1>3, <2>1
    <3> QED
      BY <1>4, <3>1, GreatestBlock
  <2> HIDE DEF tip
  <2>3. tip \in DOMAIN rows /\ tip \in Nat /\ rows[tip] \in Nat
    <3>1. tip \in DOMAIN rows /\ tip \in 0..Sync!head(SyncTime)
      BY <2>1, <2>2
    <3>2. rows[tip] \in Nat
      BY <1>2, <3>1
    <3> QED
      BY <1>3, <3>1, <3>2
  <2>4. counted \subseteq Nat
    BY <1>3, <2>1
  <2>5. Sync!inRun(rows, tip, tip)
    <3> SUFFICES ASSUME NEW d \in {x \in DOMAIN rows : tip <= x /\ x <= tip},
                        NEW e \in {x \in DOMAIN rows : tip <= x /\ x <= tip}, d < e
                 PROVE  FALSE
      BY DEF Sync!inRun
    <3>1. d \in Nat /\ e \in Nat
      BY <1>2, <1>3
    <3> QED
      BY <2>3, <3>1
  <2>6. run \in SUBSET Nat /\ run # {} /\ run \subseteq counted
    BY <2>2, <2>4, <2>5
  <2>7. start \in run
    <3> HIDE DEF run
    <3> QED
      BY <2>6, LeastBlock
  <2>8. /\ start \in DOMAIN rows /\ start \in Nat /\ start <= tip /\ rows[start] \in Nat
        /\ Sync!inRun(rows, start, tip)
    BY <1>2, <2>1, <2>2, <2>6, <2>7
  <2> HIDE DEF start
  <2>9. until = (IF rows[tip] >= at THEN rows[tip] ELSE at)
    BY <2>3, GreaterOfTwo
  <2>10. until \in Nat /\ until >= rows[tip] /\ until >= at /\ (until = rows[tip] \/ until = at)
    BY <2>3, <2>9
  <2> HIDE DEF until
  <2>11. rows[start] \in 0..t
    BY <2>8 DEF RowsTrue, CursorReached
  <2>12. m = [state |-> "none", tip |-> tip, start |-> start, since |-> rows[start],
              until |-> until, lag |-> 0]
    <3> DEFINE n1 == [Sync!Nothing EXCEPT !.tip = tip]
               n2 == [n1 EXCEPT !.start = start]
               n3 == [n2 EXCEPT !.since = rows[start]]
               since == rows[start]
    <3>1. n1 = [state |-> "none", tip |-> tip, start |-> 0, since |-> 0, until |-> 0, lag |-> 0]
      BY DEF Sync!Nothing
    <3>2. n2 = [state |-> "none", tip |-> tip, start |-> start, since |-> 0, until |-> 0,
                lag |-> 0]
      <4> HIDE DEF n1
      <4> QED
        BY <3>1
    <3>3. n3 = [state |-> "none", tip |-> tip, start |-> start, since |-> since, until |-> 0,
                lag |-> 0]
      <4> HIDE DEF n2
      <4> QED
        BY <3>2
    <3>4. [n3 EXCEPT !.until = until]
            = [state |-> "none", tip |-> tip, start |-> start, since |-> since,
               until |-> until, lag |-> 0]
      <4> HIDE DEF n3, since
      <4> QED
        BY <3>3
    <3> QED
      BY <3>4
  <2> HIDE DEF m
  <2>13. Sync!measured(rows, lastBlock, at) = m
    BY <1>1, <1>4
  <2>14. /\ m.tip = tip /\ m.start = start /\ m.since = rows[start] /\ m.until = until
         /\ m = [state |-> "none", tip |-> m.tip, start |-> m.start,
                 since |-> m.since, until |-> m.until, lag |-> 0]
    BY <2>12
  <2> QED
    BY <2>3, <2>8, <2>10, <2>11, <2>13, <2>14
<1>5. CASE counted = {}
  BY <1>1, <1>5
<1> QED
  BY <1>4, <1>5

\* Of the state that is reported: a measured window that tells it, or an estimate.
LEMMA StateIs ==
  ASSUME NEW p, NEW m, NEW at, ProgressTrue(p, syncNow), SyncTypes, at \in 0..syncNow,
         m.tip \in Int, m.start \in Int, m.since \in Int, m.until \in Int
  PROVE  LET s == Sync!stateOf(p, m, at)
             span == Sync!dateOf(m.tip) - Sync!dateOf(m.start)
         IN  /\ s # "none"
             /\ s = "catching-up" => Sync!known(m) /\ m.until - m.since < span
             /\ s = "falling-behind" => Sync!known(m) /\ m.until - m.since > span
             /\ s = "synced" /\ Sync!known(m) =>
                  /\ p.last # None /\ p.observed # None
                  /\ Sync!head(at) - p.last <= SyncedLag + 1
<1> DEFINE s == Sync!stateOf(p, m, at)
           lag == Sync!Max({0, Sync!estimate(p.observed, m, at) - p.last})
           window == m.until - m.since
           span == Sync!dateOf(m.tip) - Sync!dateOf(m.start)
<1>1. CASE p.last = None \/ p.observed = None
  BY <1>1 DEF Sync!stateOf
<1>2. CASE ~(p.last = None \/ p.observed = None)
  <2>1. /\ p.last \in Nat /\ p.scannedAt \in Nat /\ HeadSeen(p.observed, syncNow)
        /\ at \in Nat /\ p.observed.at \in Nat /\ syncNow \in Nat
    BY <1>2, CursorTyped DEF ProgressTrue, HeadSeen
  <2>2. Sync!head(at) \in Nat /\ Sync!head(p.observed.at) \in Nat
    BY <2>1, SyncConstants, HeadGrows
  <2> DEFINE ago == Sync!Max({0, at - p.observed.at})
             seenHead == p.observed.block
  <2>3. /\ ago = IF p.observed.at >= at THEN 0 ELSE at - p.observed.at
        /\ ago \in Nat
    BY <2>1, GreaterOfTwo
  <2>4. seenHead \in Nat /\ seenHead = Sync!head(p.observed.at)
    BY <2>1, <2>2 DEF HeadSeen
  <2>5. ago \div BlockTime \in Nat /\ Sync!head(at) <= seenHead + ago \div BlockTime + 1
    <3>1. CASE p.observed.at >= at
      <4>1. ago = 0 /\ 0 \div BlockTime = 0
        BY <2>3, <3>1, SyncConstants
      <4>2. Sync!head(at) <= Sync!head(p.observed.at)
        BY <2>1, <3>1, HeadEstimated
      <4> HIDE DEF ago, seenHead
      <4> QED
        BY <2>2, <2>4, <4>1, <4>2
    <3>2. CASE ~(p.observed.at >= at)
      <4>1. p.observed.at <= at /\ ago = at - p.observed.at
        BY <2>1, <2>3, <3>2
      <4>2. /\ (at - p.observed.at) \div BlockTime \in Nat
            /\ Sync!head(at) <= Sync!head(p.observed.at) + (at - p.observed.at) \div BlockTime + 1
        BY <2>1, <4>1, HeadEstimated
      <4> HIDE DEF ago, seenHead
      <4> QED
        BY <2>4, <4>1, <4>2
    <3> QED
      BY <3>1, <3>2
  <2>6. Sync!estimate(p.observed, m, at)
          = seenHead + (IF Sync!known(m) THEN ago \div BlockTime ELSE 0)
    BY DEF Sync!estimate
  <2> HIDE DEF ago, seenHead
  <2>7. /\ Sync!estimate(p.observed, m, at) \in Nat
        /\ Sync!known(m) => Sync!head(at) <= Sync!estimate(p.observed, m, at) + 1
    BY <2>2, <2>4, <2>5, <2>6
  <2>8. lag \in Int /\ lag >= Sync!estimate(p.observed, m, at) - p.last
    BY <2>1, <2>7, GreaterOfTwo
  <2> DEFINE rate == CASE ~Sync!known(m) -> "unknown"
                       [] Sync!known(m) /\ window < span -> "catching-up"
                       [] Sync!known(m) /\ window > span -> "falling-behind"
                       [] Sync!known(m) /\ window = span -> "holding"
  <2>9. s = CASE lag <= SyncedLag -> "synced"
              [] lag > SyncedLag /\ at - p.scannedAt > StallSpan -> "stalled"
              [] lag > SyncedLag /\ at - p.scannedAt <= StallSpan -> rate
    BY <1>2 DEF Sync!stateOf
  <2>10. span \in Int
    BY SyncConstants, SMT DEF Sync!dateOf
  <2>11. window \in Int
    OBVIOUS
  <2> HIDE DEF s, lag, span, window, rate
  <2>12. /\ s # "none"
         /\ s = "catching-up" => Sync!known(m) /\ window < span
         /\ s = "falling-behind" => Sync!known(m) /\ window > span
         /\ s = "synced" => lag <= SyncedLag
    <3>1. CASE lag <= SyncedLag
      BY <2>8, <2>9, <3>1, SyncConstants
    <3>2. CASE lag > SyncedLag /\ at - p.scannedAt > StallSpan
      BY <2>1, <2>8, <2>9, <3>2, SyncConstants
    <3>3. CASE lag > SyncedLag /\ at - p.scannedAt <= StallSpan
      <4>1. s = rate
        BY <2>1, <2>8, <2>9, <3>3, SyncConstants
      <4>2. CASE ~Sync!known(m)
        BY <4>1, <4>2 DEF rate
      <4>3. CASE Sync!known(m) /\ window < span
        BY <2>10, <2>11, <4>1, <4>3 DEF rate
      <4>4. CASE Sync!known(m) /\ window > span
        BY <2>10, <2>11, <4>1, <4>4 DEF rate
      <4>5. CASE Sync!known(m) /\ window = span
        BY <2>10, <2>11, <4>1, <4>5 DEF rate
      <4> QED
        BY <2>10, <2>11, <4>2, <4>3, <4>4, <4>5
    <3> QED
      BY <2>1, <2>8, <3>1, <3>2, <3>3, SyncConstants
  <2>13. s = "synced" /\ Sync!known(m) => Sync!head(at) - p.last <= SyncedLag + 1
    BY <2>1, <2>2, <2>7, <2>8, <2>12, SyncConstants
  <2> QED
    BY <1>2, <2>12, <2>13 DEF s, window, span
<1> QED
  BY <1>1, <1>2

\* A run from before the forward scan holds the block below it, which was stored after it.
LEMMA RunOverStart ==
  ASSUME NEW rows, NEW c, NEW t, NEW r, RowsTrue(rows, c, t, r),
         NEW s \in DOMAIN rows, NEW e \in DOMAIN rows, s < e, Sync!inRun(rows, s, e)
  PROVE  /\ s + 1 \in DOMAIN rows /\ rows[s] <= rows[s + 1]
         /\ s < FirstBlock /\ FirstBlock <= e =>
              /\ FirstBlock - 1 \in DOMAIN rows /\ FirstBlock \in DOMAIN rows
              /\ rows[FirstBlock - 1] <= rows[FirstBlock]
<1>1. PICK D \in SUBSET Sync!Blocks : rows \in [D -> Nat]
  BY DEF RowsTrue, Rows
<1>2. Sync!Blocks \subseteq Nat /\ FirstBlock \in Nat
  BY SyncConstants DEF Sync!Blocks
<1>3. DOMAIN rows \subseteq Nat /\ s \in Nat /\ e \in Nat
  BY <1>1, <1>2
<1>4. ASSUME NEW n \in Int, s <= n, n < e
      PROVE  n \in DOMAIN rows /\ n + 1 \in DOMAIN rows /\ rows[n] <= rows[n + 1]
  <2>1. n + 1 \in Int /\ n <= e /\ s <= n + 1 /\ n + 1 <= e
    BY <1>3, <1>4
  <2>2. n \in DOMAIN rows /\ n + 1 \in DOMAIN rows
    BY <1>4, <2>1 DEF RowsTrue, Gapless
  <2>3. ~ \E d \in DOMAIN rows : n < d /\ d < n + 1
    BY <1>3, <1>4
  <2>4. /\ n \in {x \in DOMAIN rows : s <= x /\ x <= e}
        /\ n + 1 \in {x \in DOMAIN rows : s <= x /\ x <= e} /\ n < n + 1
    BY <1>4, <2>1, <2>2
  <2> QED
    BY <2>2, <2>3, <2>4 DEF Sync!inRun
<1>5. s + 1 \in DOMAIN rows /\ rows[s] <= rows[s + 1]
  BY <1>3, <1>4
<1>6. ASSUME s < FirstBlock, FirstBlock <= e
      PROVE  /\ FirstBlock - 1 \in DOMAIN rows /\ FirstBlock \in DOMAIN rows
             /\ rows[FirstBlock - 1] <= rows[FirstBlock]
  <2>1. FirstBlock - 1 \in Int /\ s <= FirstBlock - 1 /\ FirstBlock - 1 < e
        /\ (FirstBlock - 1) + 1 = FirstBlock
    BY <1>2, <1>3, <1>6
  <2> QED
    BY <1>4, <2>1
<1> QED
  BY <1>5, <1>6

\* A shorter window than the run's span of blocks: the head moved no further than the
\* scanner.  A longer one: no less.
LEMMA WindowTells ==
  ASSUME NEW s \in Nat, NEW e \in Nat, s <= e, NEW since \in Nat, NEW until \in Nat
  PROVE  /\ until - since < Sync!dateOf(e) - Sync!dateOf(s) =>
              Sync!head(until) - Sync!head(since) <= e - s
         /\ until - since > Sync!dateOf(e) - Sync!dateOf(s) =>
              Sync!head(until) - Sync!head(since) >= e - s
         /\ Sync!head(until) \in Nat /\ Sync!head(since) \in Nat
<1>1. FirstBlock \in Nat /\ BlockTime \in Nat \ {0} /\ e - s \in Nat
  BY SyncConstants
<1>2. Sync!dateOf(e) - Sync!dateOf(s) = (e - s) * BlockTime
  BY <1>1, SMT DEF Sync!dateOf
<1>3. \A k \in Nat :
        /\ until - since < k * BlockTime => Sync!head(until) - Sync!head(since) <= k
        /\ until - since > k * BlockTime => Sync!head(until) - Sync!head(since) >= k
        /\ Sync!head(since) \in Nat
  BY HeadGrows
<1>4. Sync!head(until) \in Nat
  BY HeadGrows
<1> QED
  BY <1>1, <1>2, <1>3, <1>4

\* What the cursor was when the window began.
LEMMA CursorAtStart ==
  ASSUME NEW rows, NEW c, NEW t \in Nat, NEW r \in Nat, RowsTrue(rows, c, t, r),
         \A s \in 0..t : c[s] \in Nat \cup {None}, Climbs(c, t),
         NEW b \in DOMAIN rows
  PROVE  /\ c[rows[b]] # None /\ c[rows[b]] \in Nat /\ c[rows[b]] >= b
         /\ r <= 1 /\ b >= FirstBlock /\ b + 1 \in DOMAIN rows /\ rows[b] <= rows[b + 1]
              => Before(c, rows[b]) \in Int /\ Before(c, rows[b]) <= b
<1>1. PICK D \in SUBSET Sync!Blocks : rows \in [D -> Nat]
  BY DEF RowsTrue, Rows
<1>2. Sync!Blocks \subseteq Nat /\ FirstBlock \in Nat
  BY SyncConstants DEF Sync!Blocks
<1>3. \A d \in DOMAIN rows : rows[d] \in 0..t /\ d \in Nat
  BY <1>1, <1>2 DEF RowsTrue, CursorReached
<1>4. c[rows[b]] # None /\ c[rows[b]] \in Nat /\ c[rows[b]] >= b
  BY <1>3 DEF RowsTrue, CursorReached
<1>5. ASSUME r <= 1, b >= FirstBlock, b + 1 \in DOMAIN rows, rows[b] <= rows[b + 1]
      PROVE  Before(c, rows[b]) \in Int /\ Before(c, rows[b]) <= b
  <2>1. PICK x \in Int : CursorPassed(rows, c, x)
    BY <1>5 DEF RowsTrue
  <2>2. Before(c, rows[b]) \in Int /\ Before(c, rows[b + 1]) \in Int
        /\ Before(c, rows[b]) <= Before(c, rows[b + 1])
    BY <1>3, <1>5, BeforeClimbs
  <2>3. CASE b # x
    BY <1>3, <1>5, <2>1, <2>2, <2>3 DEF CursorPassed
  <2>4. CASE b = x
    <3>1. b + 1 # x /\ b + 1 >= FirstBlock
      BY <1>2, <1>3, <1>5, <2>4
    <3>2. Before(c, rows[b + 1]) < b + 1
      BY <1>5, <2>1, <3>1 DEF CursorPassed
    <3> QED
      BY <1>3, <2>2, <3>2
  <2> QED
    BY <2>3, <2>4
<1> QED
  BY <1>4, <1>5

\* Along a run the rows were stored in order.
LEMMA RunRises ==
  ASSUME NEW rows, NEW c, NEW t, NEW r, RowsTrue(rows, c, t, r),
         NEW s \in DOMAIN rows, NEW e \in DOMAIN rows, s <= e, Sync!inRun(rows, s, e)
  PROVE  rows[s] <= rows[e]
<1> DEFINE lower == {b \in DOMAIN rows : s <= b /\ b <= e /\ rows[b] < rows[s]}
<1>1. PICK D \in SUBSET Sync!Blocks : rows \in [D -> Nat]
  BY DEF RowsTrue, Rows
<1>2. DOMAIN rows \subseteq Nat
  BY <1>1 DEF Sync!Blocks
<1>3. \A d \in DOMAIN rows : d \in Nat /\ rows[d] \in Nat
  BY <1>1, <1>2
<1>4. lower = {}
  <2> SUFFICES ASSUME lower # {} PROVE FALSE
    OBVIOUS
  <2>1. lower \in SUBSET Nat
    BY <1>2
  <2>2. PICK b \in lower : \A d \in lower : b <= d
    <3> HIDE DEF lower
    <3> QED
      BY <2>1, LeastOfNats
  <2>3. b \in DOMAIN rows /\ s <= b /\ b <= e /\ rows[b] < rows[s]
    BY <2>2
  <2>4. b # s
    BY <1>3, <2>3
  <2>5. b - 1 \in Int /\ s <= b - 1 /\ b - 1 <= e /\ b - 1 < b
    BY <1>3, <2>3, <2>4
  <2>6. b - 1 \in DOMAIN rows
    BY <2>5 DEF RowsTrue, Gapless
  <2>7. ~(rows[b - 1] < rows[s])
    <3>1. b - 1 \notin lower
      BY <1>3, <2>2, <2>3, <2>5
    <3> QED
      BY <2>5, <2>6, <3>1
  <2>8. rows[b - 1] <= rows[b]
    <3>1. ~ \E d \in DOMAIN rows : b - 1 < d /\ d < b
      BY <1>3, <2>3
    <3>2. /\ b - 1 \in {x \in DOMAIN rows : s <= x /\ x <= e}
          /\ b \in {x \in DOMAIN rows : s <= x /\ x <= e}
      BY <2>3, <2>5, <2>6
    <3> QED
      BY <2>5, <3>1, <3>2 DEF Sync!inRun
  <2> QED
    BY <1>3, <2>3, <2>6, <2>7, <2>8
<1> QED
  BY <1>3, <1>4

LEMMA CursorBeforeNext ==
  ASSUME report'.since \in Nat
  PROVE  Sync!cursorBefore(report.since)' = Before(cursorAt', report'.since)
<1>1. CASE report'.since = 0
  BY <1>1 DEF Sync!cursorBefore, Before
<1>2. CASE report'.since # 0
  <2>1. Sync!Max({0, report'.since - 1}) = report'.since - 1
    BY <1>2, GreaterOfTwo
  <2> QED
    BY <1>2, <2>1 DEF Sync!cursorBefore, Before
<1> QED
  BY <1>1, <1>2

LEMMA SyncAnswerHolds ==
  ASSUME SyncInv, Sync!Answer
  PROVE  SyncTypes' /\ CursorInv' /\ StoredInv' /\ RequestInv' /\ ReportInv'
<1> DEFINE rows == request.samples
           p == request.progress
           at == request.at
           m == Sync!measured(rows, p.last, at)
           s == Sync!stateOf(p, m, at)
           lag == IF p.last = None THEN 0 ELSE Sync!head(at) - p.last
<1>1. /\ p # None /\ rows # None /\ request' = Sync!Idle
      /\ report' = [m EXCEPT !.state = s, !.lag = lag]
      /\ UNCHANGED <<syncNow, scanned, last, observed, cursorAt, restored>>
  BY DEF Sync!Answer, Sync!scanner
<1>2. SyncTypes /\ CursorInv /\ StoredInv /\ RequestInv
  BY DEF SyncInv
<1>3. Sync!Stored' = Sync!Stored /\ StoredRows' = StoredRows
  BY <1>1 DEF Sync!Stored, StoredRows
<1>4. SyncTypes' /\ CursorInv' /\ StoredInv'
  BY <1>1, <1>2, <1>3 DEF SyncTypes, CursorInv, StoredInv
<1>5. RequestInv'
  BY <1>1 DEF RequestInv, Sync!Idle
<1>6. /\ at \in 0..syncNow /\ at \in Nat /\ syncNow \in Nat /\ restored \in Nat
      /\ ProgressTrue(p, syncNow) /\ SamplesTrue(rows, cursorAt, syncNow, restored, scanned)
      /\ RowsTrue(rows, cursorAt, syncNow, restored)
  <2>1. syncNow \in Nat /\ restored \in Nat
    BY <1>2, CursorTyped DEF SyncTypes
  <2> QED
    BY <1>1, <1>2, <2>1 DEF RequestInv, SamplesTrue
<1>7. p.last \in Nat \cup {None}
  BY <1>6 DEF ProgressTrue, Sync!Blocks
<1>8. \/ m = Sync!Nothing
      \/ /\ m.tip \in DOMAIN rows /\ m.start \in DOMAIN rows /\ m.start <= m.tip
         /\ m.tip \in Nat /\ m.start \in Nat
         /\ m.since = rows[m.start] /\ m.since \in 0..syncNow
         /\ m.until \in Nat /\ m.until >= rows[m.tip] /\ m.until >= at
         /\ Sync!inRun(rows, m.start, m.tip)
         /\ m = [state |-> "none", tip |-> m.tip, start |-> m.start,
                 since |-> m.since, until |-> m.until, lag |-> 0]
  <2> HIDE DEF rows, p, at
  <2> QED
    BY <1>6, <1>7, MeasuredIs
<1> HIDE DEF m
<1>9. /\ m = [state |-> "none", tip |-> m.tip, start |-> m.start,
              since |-> m.since, until |-> m.until, lag |-> 0]
      /\ m.tip \in Nat /\ m.start \in Nat /\ m.since \in Nat /\ m.until \in Nat
  BY <1>6, <1>8 DEF Sync!Nothing
<1> HIDE DEF s, lag
<1>10. /\ report'.state = s /\ report'.tip = m.tip /\ report'.start = m.start
       /\ report'.since = m.since /\ report'.until = m.until /\ report'.lag = lag
  BY <1>1, <1>9
<1>11. /\ s # "none"
       /\ s = "catching-up" => /\ Sync!known(m)
                               /\ m.until - m.since < Sync!dateOf(m.tip) - Sync!dateOf(m.start)
       /\ s = "falling-behind" => /\ Sync!known(m)
                                  /\ m.until - m.since > Sync!dateOf(m.tip) - Sync!dateOf(m.start)
       /\ s = "synced" /\ Sync!known(m) => lag <= SyncedLag + 1
  <2>1. m.tip \in Int /\ m.start \in Int /\ m.since \in Int /\ m.until \in Int
    BY <1>9
  <2> HIDE DEF p, at
  <2> QED
    BY <1>2, <1>6, <2>1, StateIs DEF s, lag
<1>12. Sync!known(report)' <=> Sync!known(m)
  BY <1>10 DEF Sync!known
<1> HIDE DEF p, at, rows
<1>13. CASE m = Sync!Nothing
  <2>1. m.tip = 0 /\ m.start = 0 /\ m.since = 0 /\ m.until = 0
    BY <1>13 DEF Sync!Nothing
  <2>2. ~Sync!known(m)
    BY <2>1 DEF Sync!known
  <2>3. report'.start = 0 /\ report'.tip = 0 /\ report'.since = 0 /\ report'.until = 0
        /\ report'.state # "catching-up" /\ report'.state # "falling-behind"
        /\ report'.state # "none"
    BY <1>10, <1>11, <2>1, <2>2
  <2>4. Sync!BackfillNotMeasured'
    BY <2>3, SyncConstants DEF Sync!BackfillNotMeasured
  <2>5. Sync!CatchingUpTrue' /\ Sync!FallingBehindTrue'
    BY <2>3 DEF Sync!CatchingUpTrue, Sync!FallingBehindTrue
  <2>6. Sync!SyncedTrue'
    BY <1>12, <2>2 DEF Sync!SyncedTrue
  <2>7. ReportInv'
    BY <2>3, <2>4, <2>5, <2>6 DEF ReportInv
  <2> QED
    BY <1>4, <1>5, <2>7
<1>14. CASE m # Sync!Nothing
  <2>1. /\ m.tip \in DOMAIN rows /\ m.start \in DOMAIN rows /\ m.start <= m.tip
        /\ m.since = rows[m.start] /\ m.since \in 0..syncNow
        /\ m.until >= rows[m.tip] /\ Sync!inRun(rows, m.start, m.tip)
    BY <1>8, <1>14
  <2>2. m.since <= m.until
    <3>1. rows[m.start] <= rows[m.tip]
      BY <1>6, <2>1, RunRises
    <3>2. rows[m.tip] \in Nat
      <4>1. PICK D \in SUBSET Sync!Blocks : rows \in [D -> Nat]
        BY <1>6 DEF RowsTrue, Rows
      <4> QED
        BY <2>1, <4>1
    <3> QED
      BY <1>9, <2>1, <3>1, <3>2
  <2>3. m.start < m.tip =>
          /\ m.start + 1 \in DOMAIN rows /\ rows[m.start] <= rows[m.start + 1]
          /\ m.start < FirstBlock /\ FirstBlock <= m.tip =>
               /\ FirstBlock - 1 \in DOMAIN rows /\ FirstBlock \in DOMAIN rows
               /\ rows[FirstBlock - 1] <= rows[FirstBlock]
    BY <1>6, <2>1, RunOverStart
  <2>4. Sync!known(m) => m.start < m.tip
    BY <1>9 DEF Sync!known
  <2>5. Sync!BackfillNotMeasured'
    <3>1. ASSUME restored = 0, m.start < FirstBlock, FirstBlock <= m.tip
          PROVE  scanned[FirstBlock - 1] = scanned[FirstBlock]
      <4>1. /\ FirstBlock - 1 \in DOMAIN rows /\ FirstBlock \in DOMAIN rows
            /\ rows[FirstBlock - 1] <= rows[FirstBlock]
        BY <1>9, <2>3, <3>1, SyncConstants
      <4>2. rows[FirstBlock - 1] = scanned[FirstBlock - 1] /\ rows[FirstBlock] = scanned[FirstBlock]
        BY <1>6, <3>1, <4>1 DEF SamplesTrue
      <4>3. PICK D \in SUBSET Sync!Blocks : rows \in [D -> Nat]
        BY <1>6 DEF RowsTrue, Rows
      <4>4. scanned[FirstBlock - 1] \in Nat /\ scanned[FirstBlock] \in Nat
            /\ FirstBlock - 1 \in Sync!Blocks
        BY <4>1, <4>2, <4>3
      <4>5. FirstBlock - 1 \in Sync!Stored
        BY <4>4, SyncConstants DEF Sync!Stored
      <4>6. scanned[FirstBlock - 1] >= scanned[FirstBlock]
        BY <1>2, <3>1, <4>5 DEF StoredInv
      <4> QED
        BY <4>1, <4>2, <4>4, <4>6
    <3> QED
      BY <1>1, <1>10, <3>1 DEF Sync!BackfillNotMeasured
  <2>6. /\ cursorAt[m.since] # None /\ cursorAt[m.since] \in Nat /\ cursorAt[m.since] >= m.start
        /\ restored <= 1 /\ m.start >= FirstBlock /\ m.start < m.tip
             => Before(cursorAt, m.since) \in Int /\ Before(cursorAt, m.since) <= m.start
    <3>1. Climbs(cursorAt, syncNow) /\ \A u \in 0..syncNow : cursorAt[u] \in Nat \cup {None}
      BY <1>2, CursorTyped DEF CursorInv
    <3> QED
      BY <1>6, <2>1, <2>3, <3>1, CursorAtStart
  <2>7. /\ m.until - m.since < Sync!dateOf(m.tip) - Sync!dateOf(m.start) =>
             Sync!head(m.until) - Sync!head(m.since) <= m.tip - m.start
        /\ m.until - m.since > Sync!dateOf(m.tip) - Sync!dateOf(m.start) =>
             Sync!head(m.until) - Sync!head(m.since) >= m.tip - m.start
        /\ Sync!head(m.until) \in Nat /\ Sync!head(m.since) \in Nat
    BY <1>9, <2>1, WindowTells
  <2>8. Sync!CatchingUpTrue'
    <3>1. ASSUME s = "catching-up", restored <= 1, m.start >= FirstBlock
          PROVE  Sync!head(m.until) - m.tip <= Sync!head(m.since) - Before(cursorAt, m.since)
      BY <1>9, <1>11, <2>4, <2>6, <2>7, <3>1
    <3>2. Sync!cursorBefore(report.since)' = Before(cursorAt, m.since)
      BY <1>1, <1>9, <1>10, CursorBeforeNext
    <3> QED
      BY <1>1, <1>10, <3>1, <3>2 DEF Sync!CatchingUpTrue
  <2>9. Sync!FallingBehindTrue'
    <3>1. ASSUME s = "falling-behind"
          PROVE  Sync!head(m.until) - m.tip >= Sync!head(m.since) - cursorAt[m.since]
      BY <1>9, <1>11, <2>6, <2>7, <3>1
    <3> QED
      BY <1>1, <1>10, <3>1 DEF Sync!FallingBehindTrue
  <2>10. Sync!SyncedTrue'
    BY <1>10, <1>11, <1>12 DEF Sync!SyncedTrue
  <2>11. ReportInv'
    BY <1>10, <1>11, <2>1, <2>2, <2>5, <2>8, <2>9, <2>10 DEF ReportInv
  <2> QED
    BY <1>4, <1>5, <2>11
<1> QED
  BY <1>13, <1>14

LEMMA SyncStepHolds == SyncInv /\ [Sync!Next]_syncVars => SyncInv'
<1> SUFFICES ASSUME SyncInv, [Sync!Next]_syncVars PROVE SyncInv'
  OBVIOUS
<1>1. CASE UNCHANGED syncVars
  <2>1. /\ syncNow' = syncNow /\ scanned' = scanned /\ last' = last /\ observed' = observed
        /\ request' = request /\ restored' = restored /\ report' = report
        /\ cursorAt' = cursorAt
    BY <1>1 DEF syncVars
  <2>2. Sync!Stored' = Sync!Stored /\ StoredRows' = StoredRows
    BY <2>1 DEF Sync!Stored, StoredRows
  <2>3. SyncTypes' /\ CursorInv' /\ StoredInv' /\ RequestInv'
    BY <2>1, <2>2 DEF SyncInv, SyncTypes, CursorInv, StoredInv, RequestInv
  <2>4. ReportInv'
    <3>1. /\ Sync!BackfillNotMeasured' <=> Sync!BackfillNotMeasured
          /\ Sync!CatchingUpTrue' <=> Sync!CatchingUpTrue
          /\ Sync!FallingBehindTrue' <=> Sync!FallingBehindTrue
          /\ Sync!SyncedTrue' <=> Sync!SyncedTrue
      BY <2>1 DEF Sync!BackfillNotMeasured, Sync!CatchingUpTrue, Sync!FallingBehindTrue,
                  Sync!SyncedTrue, Sync!cursorBefore, Sync!known
    <3> QED
      BY <2>1, <3>1 DEF SyncInv, ReportInv
  <2> QED
    BY <2>3, <2>4 DEF SyncInv
<1>2. CASE Sync!Next
  <2>1. report.state = "none"
    BY <1>2 DEF Sync!Next
  <2>2. report = Sync!Nothing
    BY <2>1 DEF SyncInv, ReportInv
  <2>3. report' = report => ReportInv'
    BY <2>2 DEF ReportInv
  <2>4. CASE Sync!Tick
    BY <2>3, <2>4, SyncTickHolds DEF SyncInv, Sync!Tick
  <2>5. CASE Sync!Observe
    BY <2>3, <2>5, SyncObserveHolds DEF SyncInv, Sync!Observe
  <2>6. CASE Sync!StoreForward
    BY <2>3, <2>6, SyncStoreForwardHolds DEF SyncInv, Sync!StoreForward
  <2>7. CASE Sync!StoreBackward
    BY <2>3, <2>7, SyncStoreBackwardHolds DEF SyncInv, Sync!StoreBackward
  <2>8. CASE Sync!Restore
    BY <2>3, <2>8, SyncRestoreHolds DEF SyncInv, Sync!Restore
  <2>9. CASE Sync!Ask
    BY <2>3, <2>9, SyncAskHolds DEF SyncInv, Sync!Ask
  <2>10. CASE Sync!ReadProgress
    BY <2>3, <2>10, SyncReadProgressHolds DEF SyncInv, Sync!ReadProgress
  <2>11. CASE Sync!ReadSamples
    BY <2>3, <2>11, SyncReadSamplesHolds DEF SyncInv, Sync!ReadSamples
  <2>12. CASE Sync!Answer
    BY <2>12, SyncAnswerHolds DEF SyncInv
  <2> QED
    BY <1>2, <2>4, <2>5, <2>6, <2>7, <2>8, <2>9, <2>10, <2>11, <2>12 DEF Sync!Next
<1> QED
  BY <1>1, <1>2

LEMMA SyncInvImplies ==
  ASSUME SyncInv
  PROVE  /\ Sync!TypeOK /\ Sync!BackfillNotMeasured /\ Sync!CatchingUpTrue
         /\ Sync!FallingBehindTrue /\ Sync!SyncedTrue
<1>1. /\ syncNow \in Sync!Times /\ scanned \in [Sync!Blocks -> Sync!Times \cup {None}]
      /\ last \in Sync!Blocks \cup {None}
      /\ last # None => last \in Sync!Stored
  BY DEF SyncInv, SyncTypes, StoredInv
<1>2. CASE report = Sync!Nothing
  <2>1. /\ report.state = "none" /\ report.tip = 0 /\ report.start = 0 /\ report.since = 0
        /\ report.until = 0
    BY <1>2 DEF Sync!Nothing
  <2>2. Sync!TypeOK
    BY <1>1, <2>1 DEF Sync!TypeOK
  <2>3. Sync!BackfillNotMeasured
    BY <2>1, SyncConstants DEF Sync!BackfillNotMeasured
  <2>4. Sync!CatchingUpTrue /\ Sync!FallingBehindTrue /\ Sync!SyncedTrue
    BY <2>1 DEF Sync!CatchingUpTrue, Sync!FallingBehindTrue, Sync!SyncedTrue
  <2> QED
    BY <2>2, <2>3, <2>4
<1>3. CASE report # Sync!Nothing
  <2>1. /\ report.start <= report.tip /\ report.since <= report.until
        /\ Sync!BackfillNotMeasured /\ Sync!CatchingUpTrue /\ Sync!FallingBehindTrue
        /\ Sync!SyncedTrue
    BY <1>3 DEF SyncInv, ReportInv
  <2>2. Sync!TypeOK
    BY <1>1, <2>1 DEF Sync!TypeOK
  <2> QED
    BY <2>1, <2>2
<1> QED
  BY <1>2, <1>3
-----------------------------------------------------------------------------
(* The entity index: what EntityReads_proofs shows of it.                  *)

Folded == INSTANCE EntityReads_proofs WITH shown <- versionShown

LEMMA FoldedLibrary ==
  /\ \A S : Reads!IsFiniteSet(S) <=> Folded!IsFiniteSet(S)
  /\ \A S : Reads!Cardinality(S) = Folded!Cardinality(S)
  /\ \A S : Reads!Max(S) = Folded!Max(S)
  /\ \A S : Reads!Min(S) = Folded!Min(S)
  /\ \A s : Reads!Last(s) = Folded!Last(s)
<1>1. \A S : Reads!IsFiniteSet(S) <=> Folded!IsFiniteSet(S)
  BY DEF Reads!IsFiniteSet, Folded!IsFiniteSet
<1>2. \A S : Reads!Cardinality(S) = Folded!Cardinality(S)
  BY DEF Reads!Cardinality, Folded!Cardinality
<1>3. (\A S : Reads!Max(S) = Folded!Max(S)) /\ \A S : Reads!Min(S) = Folded!Min(S)
  BY Zenon DEF Reads!Max, Folded!Max, Reads!Min, Folded!Min
<1>4. \A s : Reads!Last(s) = Folded!Last(s)
  BY DEF Reads!Last, Folded!Last
<1> QED
  BY <1>1, <1>2, <1>3, <1>4

LEMMA FoldedTypes ==
  /\ Reads!Version = Folded!Version /\ Reads!State = Folded!State
  /\ Reads!Event = Folded!Event /\ Reads!Operation = Folded!Operation
  /\ Reads!Places = Folded!Places /\ Reads!Call = Folded!Call
  /\ Reads!Cursor = Folded!Cursor /\ Reads!Walk = Folded!Walk
  BY DEF Reads!Version, Folded!Version, Reads!State, Folded!State, Reads!Event, Folded!Event,
     Reads!Operation, Folded!Operation, Reads!Cell, Folded!Cell, Reads!Kinds, Folded!Kinds,
     Reads!Attributes, Folded!Attributes, Reads!Places, Folded!Places, Reads!Expiries,
     Folded!Expiries, Reads!Call, Folded!Call, Reads!Cursor, Folded!Cursor, Reads!Walk, Folded!Walk

LEMMA FoldedAssumption == Folded!ReadsAssumption
  BY ReadsBounds, FoldedLibrary, FoldedTypes DEF Reads!ReadsAssumption, Folded!ReadsAssumption

LEMMA FoldedInit == Reads!Init = Folded!Init
  BY DEF Reads!Init, Folded!Init, Reads!Entity, Folded!Entity

LEMMA FoldedOperators ==
  /\ \A p, q : Reads!Earlier(p, q) = Folded!Earlier(p, q)
  /\ \A b, e, l : Reads!resolveRequestedExpiry(b, e, l) = Folded!resolveRequestedExpiry(b, e, l)
  /\ \A tx, i : Reads!attachEvents(tx, i) = Folded!attachEvents(tx, i)
  /\ \A r : Reads!resolveExpiry(r) = Folded!resolveExpiry(r)
  /\ \A a, c : Reads!applyAttributes(a, c) = Folded!applyAttributes(a, c)
<1>1. \A p, q : Reads!Earlier(p, q) = Folded!Earlier(p, q)
  BY DEF Reads!Earlier, Folded!Earlier
<1>2. \A b, e, l :
        Reads!resolveRequestedExpiry(b, e, l) = Folded!resolveRequestedExpiry(b, e, l)
  BY FoldedLibrary DEF Reads!resolveRequestedExpiry, Folded!resolveRequestedExpiry
<1>3. \A tx, i : Reads!attachEvents(tx, i) = Folded!attachEvents(tx, i)
  BY Zenon DEF Reads!attachEvents, Folded!attachEvents, Reads!Cardinality, Folded!Cardinality
<1>4. \A r : Reads!resolveExpiry(r) = Folded!resolveExpiry(r)
  BY <1>2 DEF Reads!resolveExpiry, Folded!resolveExpiry
<1>5. \A a, c : Reads!applyAttributes(a, c) = Folded!applyAttributes(a, c)
  BY Zenon DEF Reads!applyAttributes, Folded!applyAttributes, Reads!FoldLeft, Folded!FoldLeft,
     Reads!MapThenFoldSet, Folded!MapThenFoldSet, Reads!Max, Folded!Max
<1> QED
  BY <1>1, <1>2, <1>3, <1>4, <1>5

LEMMA FoldedRefold ==
  \A t, k, n, v : Reads!refold(t, k, n, v) = Folded!refold(t, k, n, v)
<1>1. \A t, b, i : Reads!Row(t, b, i) = Folded!Row(t, b, i)
  BY FoldedOperators DEF Reads!Row, Folded!Row
<1>2. \A t, k, n : Reads!loadEntityOps(t, k, n) = Folded!loadEntityOps(t, k, n)
  BY <1>1 DEF Reads!loadEntityOps, Folded!loadEntityOps, Reads!Applied, Folded!Applied
<1>3. \A R, b : Reads!foldEntityVersions(R, b) = Folded!foldEntityVersions(R, b)
  BY Zenon DEF Reads!foldEntityVersions, Folded!foldEntityVersions, Reads!Latest, Folded!Latest,
     Reads!Earlier, Folded!Earlier, Reads!Replay, Folded!Replay, Reads!FirstVersion,
     Folded!FirstVersion, Reads!NextVersion, Folded!NextVersion, Reads!Push, Folded!Push,
     Reads!applyAttributes, Folded!applyAttributes, Reads!resolveExpiry,
     Folded!resolveExpiry, Reads!resolveRequestedExpiry, Folded!resolveRequestedExpiry,
     Reads!NoAttributes, Folded!NoAttributes, Reads!Last, Folded!Last, Reads!FoldLeft,
     Folded!FoldLeft, Reads!MapThenFoldSet, Folded!MapThenFoldSet, Reads!Max, Folded!Max,
     Reads!Min, Folded!Min
<1>4. \A v : Reads!GenesisBase(v) = Folded!GenesisBase(v)
  BY DEF Reads!GenesisBase, Folded!GenesisBase
<1> QED
  BY <1>2, <1>3, <1>4 DEF Reads!refold, Folded!refold

LEMMA FoldedMine == Reads!MineBlock = Folded!MineBlock
  BY Zenon DEF Reads!MineBlock, Folded!MineBlock, Reads!index, Folded!index, Reads!paging,
     Folded!paging, Reads!Execute, Folded!Execute, Reads!Engine, Folded!Engine,
     Reads!resolveRequestedExpiry, Folded!resolveRequestedExpiry, Reads!FoldLeft,
     Folded!FoldLeft, Reads!MapThenFoldSet, Folded!MapThenFoldSet, Reads!Max, Folded!Max,
     Reads!Min, Folded!Min, Reads!Events, Folded!Events

LEMMA FoldedFold == Reads!Fold = Folded!Fold
  BY FoldedRefold DEF Reads!Fold, Folded!Fold, Reads!chain, Folded!chain, Reads!paging, Folded!paging

LEMMA FoldedReads ==
  /\ Reads!FirstPage = Folded!FirstPage
  /\ Reads!NextPage = Folded!NextPage
  /\ Reads!Answer = Folded!Answer
  /\ Reads!ReadProgress = Folded!ReadProgress
  /\ Reads!ReadLatest = Folded!ReadLatest
  BY Zenon DEF Reads!FirstPage, Folded!FirstPage, Reads!NextPage, Folded!NextPage, Reads!Answer,
     Folded!Answer, Reads!ReadProgress, Folded!ReadProgress, Reads!ReadLatest,
     Folded!ReadLatest, Reads!Resolve, Folded!Resolve, Reads!Resumes, Folded!Resumes,
     Reads!chain, Folded!chain, Reads!index, Folded!index, Reads!paging, Folded!paging,
     Reads!Matching, Folded!Matching, Reads!liveFilter, Folded!liveFilter, Reads!Selected,
     Folded!Selected, Reads!Earlier, Folded!Earlier, Reads!Entity, Folded!Entity, Reads!Last,
     Folded!Last, Reads!InOrder, Folded!InOrder, Reads!Cardinality, Folded!Cardinality

LEMMA FoldedNext == [Reads!Next]_(Reads!vars) = [Folded!Next]_(Folded!vars)
  BY FoldedMine, FoldedFold, FoldedReads DEF Reads!Next, Folded!Next, Reads!vars, Folded!vars

LEMMA FoldedProperties ==
  /\ Reads!TypeOK = Folded!TypeOK
  /\ Reads!FoldIsNode = Folded!FoldIsNode
  /\ Reads!EventsFound = Folded!EventsFound
  /\ Reads!NothingLeaks = Folded!NothingLeaks
  /\ Reads!PinnedComplete = Folded!PinnedComplete
  /\ Reads!StateNotBehind = Folded!StateNotBehind
<1>1. Reads!TypeOK = Folded!TypeOK
  BY DEF Reads!TypeOK, Folded!TypeOK
<1>2. Reads!FoldIsNode = Folded!FoldIsNode
  BY Zenon DEF Reads!FoldIsNode, Folded!FoldIsNode, Reads!LiveAt, Folded!LiveAt, Reads!Entity,
     Folded!Entity, Reads!liveFilter, Folded!liveFilter
<1>3. Reads!EventsFound = Folded!EventsFound
  BY FoldedOperators DEF Reads!EventsFound, Folded!EventsFound
<1>4. Reads!NothingLeaks = Folded!NothingLeaks
  BY Zenon DEF Reads!NothingLeaks, Folded!NothingLeaks, Reads!LiveAt, Folded!LiveAt,
     Reads!Earlier, Folded!Earlier
<1>5. Reads!PinnedComplete = Folded!PinnedComplete
  BY Zenon DEF Reads!PinnedComplete, Folded!PinnedComplete, Reads!Finished, Folded!Finished,
     Reads!Missing, Folded!Missing, Reads!Listed, Folded!Listed, Reads!LiveAt, Folded!LiveAt
<1>6. Reads!StateNotBehind = Folded!StateNotBehind
  BY Zenon DEF Reads!StateNotBehind, Folded!StateNotBehind, Reads!Earlier, Folded!Earlier
<1> QED
  BY <1>1, <1>2, <1>3, <1>4, <1>5, <1>6

LEMMA FoldedStepIsStep ==
  ASSUME [Reads!Next]_readVars PROVE [Folded!Next]_(Folded!vars)
<1>1. [Reads!Next]_(Reads!vars)
  BY DEF Reads!vars, readVars
<1> QED
  BY <1>1, FoldedNext

-----------------------------------------------------------------------------
(* The system: a step of it is a step of one component and a stutter of    *)
(* the others.                                                             *)

LEMMA StepOfEach ==
  ASSUME [AllNext]_allVars
  PROVE  /\ [Endpoint!Next]_endpointVars
         /\ [Relay!Next]_relayVars
         /\ [Lists!Next]_listVars
         /\ [Reads!Next]_readVars
         /\ [TopTransactions!Next]_topVars
         /\ [Guzzling!Next]_boardVars
         /\ [Sync!Next]_syncVars
         /\ [Browser!Next]_sessionVars
<1> HIDE DEF endpointVars, relayVars, listVars, readVars, topVars, boardVars, syncVars,
      sessionVars
<1> QED
  BY Zenon DEF AllNext, EndpointStep, RelayStep, ListsStep, ReadStep, TopStep, GuzzlerStep,
     SyncStep, SessionStep, allVars

\* A tab never shows a session again that it has signed out of, has ended the session it
\* showed, and agrees with the others once nothing is under way: for any tabs, sign-ins
\* and lost answers.
THEOREM SessionsAreShownTrue == AllSpec => []SessionsShown
<1>1. AllInit => SessionInv
  BY SessionsStart DEF AllInit
<1>2. SessionInv /\ [AllNext]_allVars => SessionInv'
  BY SessionStepHolds, StepOfEach
<1>3. SessionInv => SessionsShown
  BY SessionInvImplies DEF SessionsShown
<1> QED
  BY <1>1, <1>2, <1>3, PTL DEF AllSpec

\* Relayed calls keep to the cap, no flood holds a window open, and the node is found: for
\* any callers, any cap and any length of the window.
THEOREM RelayIsCapped == AllSpec => []RelayCapped
<1>1. AllInit => RelayInv
  BY RelayStarts DEF AllInit
<1>2. RelayInv /\ [AllNext]_allVars => RelayInv'
  BY RelayStepHolds, StepOfEach
<1>3. RelayInv => RelayCapped
  BY RelayInvImplies DEF RelayCapped
<1> QED
  BY <1>1, <1>2, <1>3, PTL DEF AllSpec

\* No list, plain or compressed, is served with less than what had been notified when it
\* was asked for, nor older than the two TTLs and two loads together, and a lifetime of the
\* plain one reads the database once: for any TTL, any number of readers and any failures.
THEOREM ListsAreServedFresh == AllSpec => []ListsServedFresh
<1>1. AllInit => ListInv
  BY ListStarts DEF AllInit
<1>2. ListInv /\ [AllNext]_allVars => ListInv'
  BY ListStepHolds, StepOfEach
<1>3. ListInv => ListsServedFresh
  BY ListInvImplies DEF ListsServedFresh
<1> QED
  BY <1>1, <1>2, <1>3, PTL DEF AllSpec

\* The table of top transactions holds rows of stored blocks, all that belong in it, and no
\* more than its bound for each writer: for any writers, blocks and values, any waits and
\* rollbacks.
THEOREM TopRecordsAreExact == AllSpec => []TopRecordsExact
<1>1. AllInit => TopInv
  BY TopStarts DEF AllInit
<1>2. TopInv /\ [AllNext]_allVars => TopInv'
  BY TopStepHolds, StepOfEach
<1>3. TopInv => TopRecordsExact
  BY TopInvImplies DEF TopRecordsExact
<1> QED
  BY <1>1, <1>2, <1>3, PTL DEF AllSpec

\* A call of the JSON-RPC endpoint is answered with the logs, the nonce, the balance, the
\* block and the fees that were stored when it was made, or later ones, and the head that a
\* caller was told is found: for any chain, any requests and any blocks stored between the
\* statements of the call.
THEOREM EndpointIsSound == AllSpec => []EndpointSound
<1>1. AllInit => EndpointInv
  BY EndpointStarts DEF AllInit
<1>2. EndpointInv /\ [AllNext]_allVars => EndpointInv'
  BY EndpointStepHolds, StepOfEach
<1>3. EndpointInv => EndpointSound
  BY EndpointInvImplies DEF EndpointSound
<1> QED
  BY <1>1, <1>2, <1>3, PTL DEF AllSpec

\* The board of a window counts what was recorded within the window and nothing that is
\* older by a bucket, however buckets went to Redis and came back, and a sender that memory
\* has forgotten does not come back with a restart: for any senders, windows, width of the
\* buckets, blocks, restarts and broken connections.
THEOREM GuzzlersAreHonest == AllSpec => []GuzzlersHonest
<1>1. AllInit => Board!IInv
  BY BoardAssumption, BoardInit, Board!InitHolds DEF AllInit
<1>2. Board!IInv /\ [AllNext]_allVars => Board!IInv'
  BY BoardAssumption, BoardStepIsStep, StepOfEach, Board!NextHolds
<1>3. Board!IInv => GuzzlersHonest
  BY BoardAssumption, BoardProperties, Board!IInvImplies DEF GuzzlersHonest
<1> QED
  BY <1>1, <1>2, <1>3, PTL DEF AllSpec

\* What /sync says is true of the scanner: "catching up" means that the scanner came no
\* further behind the chain in the window that was measured, "falling behind" that it came no
\* closer, "synced" that it is within the lag, up to the block that came since the head was
\* observed: for any block time, any number of samples and of blocks, whatever the forward
\* scan and the backfill store between the statements of the request.
THEOREM SyncStatusIsTrue == AllSpec => []SyncStateTrue
<1>1. AllInit => SyncInv
  BY SyncStarts DEF AllInit
<1>2. SyncInv /\ [AllNext]_allVars => SyncInv'
  BY SyncStepHolds, StepOfEach
<1>3. SyncInv => SyncStateTrue
  BY SyncInvImplies DEF SyncStateTrue
<1> QED
  BY <1>1, <1>2, <1>3, PTL DEF AllSpec

\* The fold is the node's state at every projected block, and each operation finds its
\* event: for any entities, attributes, transactions and genesis, logs stored or not, and
\* however the chain is cut into folds.
THEOREM FoldIsTrue == AllSpec => []FoldTrue
<1>1. AllInit => Folded!IInv
  BY FoldedAssumption, FoldedInit, Folded!InitHolds DEF AllInit
<1>2. Folded!IInv /\ [AllNext]_allVars => Folded!IInv'
  BY FoldedAssumption, FoldedStepIsStep, StepOfEach, Folded!NextHolds
<1>3. Folded!IInv => FoldTrue
  BY FoldedAssumption, FoldedProperties, Folded!IInvImplies DEF FoldTrue
<1> QED
  BY <1>1, <1>2, <1>3, PTL DEF AllSpec

\* The pages of a query tell what was live at the block they name, each entity once and in
\* order, those of a block below the head leave nothing out, and the state of an entity is
\* not behind the head it is shown with: for any queries, page size and chain, and any folds
\* between the statements and the pages of a request.
THEOREM ReadsAreConsistent == AllSpec => []ReadsConsistent
<1> DEFINE Inv == Folded!IInv /\ Folded!ReaderInv
<1>1. AllInit => Inv
  BY FoldedAssumption, FoldedInit, Folded!InitHolds, Folded!ReaderInit DEF AllInit
<1>2. Inv /\ [AllNext]_allVars => Inv'
  BY FoldedAssumption, FoldedStepIsStep, StepOfEach, Folded!NextHolds, Folded!ReaderNext
<1>3. Inv => ReadsConsistent
  BY FoldedAssumption, FoldedProperties, Folded!ReaderImplies DEF ReadsConsistent
<1> QED
  BY <1>1, <1>2, <1>3, PTL DEF AllSpec
=============================================================================
