------------------------- MODULE EntityReads_proofs -------------------------
(***************************************************************************)
(* The versions of the entity index are the node's states, and what the    *)
(* readers are told is true of them, proved for any entities, attributes,  *)
(* blocks, genesis and queries, for logs stored or not, and however the    *)
(* chain is cut into folds.                                                *)
(***************************************************************************)
EXTENDS EntityReads, FiniteSetTheorems, FunctionTheorems, SequenceTheorems,
        WellFoundedInduction, TLAPS

-----------------------------------------------------------------------------
(* Induction, and what a fold computes. *)

\* A set of numbers that has 0 and the successor of each member has them all.
LEMMA Induction ==
  ASSUME NEW T \in SUBSET Nat, 0 \in T, \A n \in T : n + 1 \in T
  PROVE  \A n \in Nat : n \in T
<1> SUFFICES ASSUME Nat \ T # {} PROVE FALSE
  OBVIOUS
<1>1. PICK m \in Nat \ T : \A n \in Nat \ T : <<n, m>> \notin OpToRel(<, Nat)
  <2>1. Nat \ T \subseteq Nat /\ Nat \ T # {}
    OBVIOUS
  <2> QED
    BY <2>1, WFMin, NatLessThanWellFounded, Zenon
<1>2. \A k, l \in Nat : k < l => <<k, l>> \in OpToRel(<, Nat)
  BY Zenon DEF OpToRel
<1>3. m # 0 /\ m \in Nat
  OBVIOUS
<1>4. m - 1 \in Nat /\ m - 1 < m /\ (m - 1) + 1 = m
  BY <1>3, SMT
<1>5. m - 1 \in T
  BY <1>1, <1>2, <1>3, <1>4
<1>6. (m - 1) + 1 \in T
  BY <1>5
<1> QED
  BY <1>1, <1>4, <1>6

\* Members of S are taken out one by one, the last to count first.
Folds(iter, S, X, base, choice, step) ==
  /\ iter \in [SUBSET S -> X]
  /\ \A s \in SUBSET S :
       iter[s] = IF s = {} THEN base ELSE step[choice[s]][iter[s \ {choice[s]}]]

FoldsLeft(iter, n, X, base, step) ==
  /\ iter \in [SUBSET (1..n) -> X]
  /\ \A s \in SUBSET (1..n) :
       iter[s] = IF s = {} THEN base ELSE step[Max(s)][iter[s \ {Max(s)}]]

\* Taking the chosen members of a finite set out, one after the other, ends.
LEMMA FoldExists ==
  ASSUME NEW S, IsFiniteSet(S), NEW X, NEW base \in X,
         NEW choice, \A s \in SUBSET S : s # {} => choice[s] \in s,
         NEW step, \A r \in S, x \in X : step[r][x] \in X
  PROVE  \E iter : Folds(iter, S, X, base, choice, step)
<1> DEFINE Up(n) == {s \in SUBSET S : Cardinality(s) <= n}
           Next1(s, f) == IF s = {} THEN base ELSE step[choice[s]][f[s \ {choice[s]}]]
           Good(n) == \E f \in [Up(n) -> X] : \A s \in Up(n) : f[s] = Next1(s, f)
           T == {n \in Nat : Good(n)}
<1>1. \A s \in SUBSET S : /\ IsFiniteSet(s) /\ Cardinality(s) \in Nat
                          /\ Cardinality(s) = 0 <=> s = {}
                          /\ Cardinality(s) <= Cardinality(S)
  BY FS_Subset, FS_CardinalityType, FS_EmptySet
<1>2. \A s \in SUBSET S : s # {} => Cardinality(s \ {choice[s]}) = Cardinality(s) - 1
  BY <1>1, FS_RemoveElement
<1>3. Good(0)
  <2>1. \A s \in Up(0) : s = {}
    BY <1>1, SMT
  <2>2. [s \in Up(0) |-> base] \in [Up(0) -> X]
    OBVIOUS
  <2>3. \A s \in Up(0) : [t \in Up(0) |-> base][s] = Next1(s, [t \in Up(0) |-> base])
    BY <2>1
  <2> QED
    BY <2>2, <2>3
<1>4. ASSUME NEW n \in Nat, Good(n) PROVE Good(n + 1)
  <2>1. PICK f \in [Up(n) -> X] : \A s \in Up(n) : f[s] = Next1(s, f)
    BY <1>4
  <2> DEFINE g == [s \in Up(n + 1) |-> Next1(s, f)]
  <2>2. ASSUME NEW s \in Up(n + 1), s # {} PROVE s \ {choice[s]} \in Up(n)
    <3>1. Cardinality(s) \in Nat /\ Cardinality(s \ {choice[s]}) = Cardinality(s) - 1
      BY <1>1, <1>2, <2>2
    <3> QED
      BY <3>1, SMT
  <2>3. ASSUME NEW s \in Up(n + 1) PROVE Next1(s, f) \in X
    <3>1. CASE s = {}
      BY <3>1
    <3>2. CASE s # {}
      <4>1. f[s \ {choice[s]}] \in X /\ choice[s] \in S
        BY <2>1, <2>2, <3>2
      <4> QED
        BY <3>2, <4>1
    <3> QED
      BY <3>1, <3>2
  <2>4. g \in [Up(n + 1) -> X]
    BY <2>3
  <2>5. \A s \in Up(n) : s \in Up(n + 1) /\ g[s] = f[s]
    <3>1. \A s \in Up(n) : s \in Up(n + 1)
      BY <1>1, SMT
    <3> QED
      BY <2>1, <3>1
  <2>6. ASSUME NEW s \in Up(n + 1) PROVE g[s] = Next1(s, g)
    BY <2>2, <2>5
  <2> QED
    BY <2>4, <2>6
<1>5. \A n \in Nat : n \in T
  <2> HIDE DEF Good
  <2>1. T \in SUBSET Nat /\ 0 \in T /\ \A n \in T : n + 1 \in T
    BY <1>3, <1>4
  <2> QED
    BY <2>1, Induction
<1>6. Cardinality(S) \in Nat /\ Up(Cardinality(S)) = SUBSET S
  BY <1>1
<1>7. Good(Cardinality(S))
  BY <1>5, <1>6
<1> QED
  BY <1>6, <1>7 DEF Folds

\* The greatest of some numbers up to a bound.
LEMMA GreatestIs ==
  ASSUME NEW n \in Nat, NEW S, S \subseteq 0..n, S # {}
  PROVE  Max(S) \in S /\ \A x \in S : x <= Max(S)
<1> DEFINE T == {m \in 0..n : n - m \in S}
<1>1. T \subseteq Nat /\ T # {}
  <2>1. PICK x \in S : x \in 0..n
    OBVIOUS
  <2>2. n - x \in 0..n /\ n - (n - x) = x
    BY <2>1, SMT
  <2>3. n - (n - x) \in S
    BY <2>1, <2>2
  <2>4. n - x \in T
    BY <2>2, <2>3, Zenon
  <2>5. \A m \in 0..n : m \in Nat
    BY SMT
  <2> QED
    BY <2>4, <2>5
<1>2. PICK m \in T : \A k \in T : <<k, m>> \notin OpToRel(<, Nat)
  BY <1>1, WFMin, NatLessThanWellFounded, Zenon
<1>3. \A k, l \in Nat : k < l => <<k, l>> \in OpToRel(<, Nat)
  BY Zenon DEF OpToRel
<1>4. n - m \in S /\ m \in 0..n
  OBVIOUS
<1>5. ASSUME NEW x \in S PROVE n - m >= x
  <2>1. x \in 0..n /\ n - x \in 0..n /\ n - (n - x) = x
    BY SMT
  <2>2. n - x \in T
    BY <2>1
  <2>3. ~(n - x < m)
    BY <1>1, <1>2, <1>3, <2>2
  <2> QED
    BY <1>4, <2>1, <2>3, SMT
<1>6. \E x \in S : \A y \in S : x >= y
  BY <1>4, <1>5
<1>7. Max(S) \in S /\ \A y \in S : Max(S) >= y
  BY <1>6, Zenon DEF Max
<1> QED
  BY <1>7, SMT

\* A step from left to right over n places.
LEMMA LeftTrace ==
  ASSUME NEW n \in Nat, NEW X, NEW base \in X,
         NEW step, \A i \in 1..n, x \in X : step[i][x] \in X
  PROVE  \E iter : FoldsLeft(iter, n, X, base, step)
<1> DEFINE I == 1..n
           choice == [s \in SUBSET I |-> Max(s)]
<1>1. ASSUME NEW s \in SUBSET I, s # {} PROVE Max(s) \in s
  <2>1. s \subseteq 0..n
    BY SMT
  <2> QED
    BY <1>1, <2>1, GreatestIs
<1>2. \A s \in SUBSET I : choice[s] = Max(s)
  OBVIOUS
<1>3. \A s \in SUBSET I : s # {} => choice[s] \in s
  BY <1>1, <1>2
<1>4. IsFiniteSet(I)
  BY FS_Interval
<1>5. \A i \in I, x \in X : step[i][x] \in X
  OBVIOUS
<1> HIDE DEF choice, I
<1>6. PICK iter : Folds(iter, I, X, base, choice, step)
  BY <1>3, <1>4, <1>5, FoldExists, Zenon
<1>7. FoldsLeft(iter, n, X, base, step)
  BY <1>2, <1>6 DEF I, Folds, FoldsLeft
<1> QED
  BY <1>7

LEMMA MaxOfPrefix ==
  ASSUME NEW i \in Nat, i > 0
  PROVE  Max(1..i) = i /\ (1..i) \ {i} = 1..(i - 1) /\ 1..i # {}
<1>1. 1..i \subseteq 0..i /\ 1..i # {} /\ i \in 1..i
  BY SMT
<1>2. Max(1..i) \in 1..i /\ i <= Max(1..i)
  BY <1>1, GreatestIs
<1>3. Max(1..i) = i
  BY <1>2, SMT
<1>4. (1..i) \ {i} = 1..(i - 1)
  BY SMT
<1> QED
  BY <1>1, <1>3, <1>4

\* What applyAttributes' loop leaves of each name.
AfterCells(attributes, cells) ==
  [n \in Names |-> LET set == {i \in DOMAIN cells : cells[i].name = n}
                   IN  IF set = {} THEN attributes[n] ELSE cells[Max(set)].value]

LEMMA ApplyIs ==
  ASSUME NEW attributes \in Attributes,
         NEW cells \in Seq(Cell)
  PROVE  /\ applyAttributes(attributes, cells) = AfterCells(attributes, cells)
         /\ AfterCells(attributes, cells) \in Attributes
<1> DEFINE n == Len(cells)
           step == [i \in 1..n |-> [a \in Attributes |-> [a EXCEPT ![cells[i].name] = cells[i].value]]]
           body(f) == [s \in SUBSET (DOMAIN cells) |->
                         IF s = {} THEN attributes
                         ELSE [f[s \ {Max(s)}] EXCEPT ![cells[Max(s)].name] = cells[Max(s)].value]]
           fold == CHOOSE f : f = body(f)
<1>1. n \in Nat /\ DOMAIN cells = 1..n /\ \A i \in 1..n : cells[i] \in Cell
  OBVIOUS
<1>2. applyAttributes(attributes, cells) = fold[DOMAIN cells]
  BY DEF applyAttributes, FoldLeft, MapThenFoldSet
<1>3. \A i \in 1..n, a \in Attributes :
        step[i][a] = [a EXCEPT ![cells[i].name] = cells[i].value] /\ step[i][a] \in Attributes
  BY <1>1 DEF Attributes, Cell
<1> HIDE DEF step, n
<1>4. PICK f : FoldsLeft(f, n, Attributes, attributes, step)
  BY <1>1, <1>3, LeftTrace
<1>5. f = body(f)
  <2>1. ASSUME NEW s \in SUBSET (1..n), s # {}
        PROVE  f[s] = [f[s \ {Max(s)}] EXCEPT ![cells[Max(s)].name] = cells[Max(s)].value]
    <3>1. Max(s) \in 1..n
      <4>1. s \subseteq 0..n
        BY <1>1, SMT
      <4> QED
        BY <1>1, <2>1, <4>1, GreatestIs
    <3>2. f[s \ {Max(s)}] \in Attributes
      BY <1>4 DEF FoldsLeft
    <3> QED
      BY <1>3, <1>4, <2>1, <3>1, <3>2 DEF FoldsLeft
  <2>2. f[{}] = attributes
    BY <1>4 DEF FoldsLeft
  <2>3. f = [s \in SUBSET (1..n) |-> f[s]]
    BY <1>4 DEF FoldsLeft
  <2>4. \A s \in SUBSET (1..n) : f[s] = body(f)[s]
    BY <1>1, <2>1, <2>2
  <2> QED
    BY <1>1, <2>3, <2>4
<1>6. fold = body(fold)
  BY <1>5, Zenon
<1> HIDE DEF fold
<1>7. fold[1..0] = attributes
  BY <1>1, <1>6
<1>8. ASSUME NEW i \in Nat, i + 1 <= n
      PROVE  fold[1..(i + 1)] = [fold[1..i] EXCEPT ![cells[i + 1].name] = cells[i + 1].value]
  <2>1. Max(1..(i + 1)) = i + 1 /\ (1..(i + 1)) \ {i + 1} = 1..i /\ 1..(i + 1) # {}
    BY MaxOfPrefix, SMT
  <2>2. 1..(i + 1) \in SUBSET (1..n)
    BY <1>1, <1>8, SMT
  <2>3. fold[1..(i + 1)] = body(fold)[1..(i + 1)]
    BY <1>6
  <2> QED
    BY <1>1, <2>1, <2>2, <2>3
<1> DEFINE of(i, m) == {j \in 1..i : cells[j].name = m}
           after(i) == [m \in Names |-> IF of(i, m) = {} THEN attributes[m] ELSE cells[Max(of(i, m))].value]
           T == {i \in Nat : i <= n => fold[1..i] = after(i) /\ after(i) \in Attributes}
<1>9. 0 \in T
  <2>1. \A m \in Names : of(0, m) = {}
    BY SMT
  <2>2. after(0) = attributes
    BY <2>1 DEF Attributes
  <2> QED
    BY <1>7, <2>2
<1>10. ASSUME NEW i \in T PROVE i + 1 \in T
  <2> SUFFICES ASSUME i + 1 <= n PROVE fold[1..(i + 1)] = after(i + 1) /\ after(i + 1) \in Attributes
    OBVIOUS
  <2>1. i \in Nat /\ i <= n /\ i + 1 \in 1..n
    BY <1>1, SMT
  <2>2. fold[1..i] = after(i) /\ after(i) \in Attributes
    BY <1>10, <2>1
  <2>3. fold[1..(i + 1)] = [after(i) EXCEPT ![cells[i + 1].name] = cells[i + 1].value]
    BY <1>8, <2>1, <2>2
  <2>4. ASSUME NEW m \in Names, cells[i + 1].name # m PROVE of(i + 1, m) = of(i, m)
    <3>1. \A j \in 1..(i + 1) : j \in 1..i \/ j = i + 1
      BY <2>1, SMT
    <3>2. \A j \in 1..i : j \in 1..(i + 1)
      BY <2>1, SMT
    <3> QED
      BY <2>4, <3>1, <3>2
  <2>5. ASSUME NEW m \in Names, cells[i + 1].name = m
        PROVE  of(i + 1, m) # {} /\ Max(of(i + 1, m)) = i + 1
    <3>1. /\ i + 1 \in Nat /\ i + 1 \in of(i + 1, m)
          /\ of(i + 1, m) \subseteq 0..(i + 1) /\ of(i + 1, m) # {}
      BY <2>1, <2>5, SMT
    <3>2. Max(of(i + 1, m)) \in of(i + 1, m) /\ i + 1 <= Max(of(i + 1, m))
      BY <3>1, GreatestIs, Zenon
    <3>3. Max(of(i + 1, m)) \in 1..(i + 1)
      BY <3>2
    <3> QED
      BY <2>1, <3>1, <3>2, <3>3, SMT
  <2>6. ASSUME NEW m \in Names
        PROVE  [after(i) EXCEPT ![cells[i + 1].name] = cells[i + 1].value][m] = after(i + 1)[m]
    <3>1. cells[i + 1].name \in Names
      BY <1>1, <2>1 DEF Cell
    <3>2. CASE cells[i + 1].name = m
      BY <2>5, <3>1, <3>2
    <3>3. CASE cells[i + 1].name # m
      BY <2>4, <3>1, <3>3
    <3> QED
      BY <3>2, <3>3
  <2>7. fold[1..(i + 1)] = after(i + 1)
    BY <2>3, <2>6
  <2>8. step[i + 1][after(i)] \in Attributes
    BY <1>3, <2>1, <2>2
  <2>9. step[i + 1][after(i)] = fold[1..(i + 1)]
    BY <1>3, <2>1, <2>2, <2>3
  <2> QED
    BY <2>7, <2>8, <2>9
<1>11. n \in T
  <2> HIDE DEF T
  <2>1. T \in SUBSET Nat
    BY DEF T
  <2> QED
    BY <1>1, <1>9, <1>10, <2>1, Induction
<1>12. fold[1..n] = after(n) /\ after(n) \in Attributes
  BY <1>1, <1>11
<1>13. after(n) = AfterCells(attributes, cells)
  BY <1>1 DEF AfterCells
<1> QED
  BY <1>1, <1>2, <1>12, <1>13

-----------------------------------------------------------------------------
(* The operators of the fold. *)

LEMMA ExpiryIs ==
  ASSUME ReadsAssumption, NEW block \in Nat, NEW expires \in Nat, NEW lifetime \in Nat
  PROVE  resolveRequestedExpiry(block, expires, lifetime) \in Expiries
<1> DEFINE asked == Max({expires, block + lifetime})
<1>1. MaxExpiry \in Nat
  BY DEF ReadsAssumption
<1>2. asked \in {expires, block + lifetime}
  <2>1. \E x \in {expires, block + lifetime} : \A y \in {expires, block + lifetime} : x >= y
    BY SMT
  <2> QED
    BY <2>1, Zenon DEF Max
<1>3. asked \in Nat
  BY <1>2, SMT
<1> HIDE DEF asked
<1>4. /\ Min({asked, MaxExpiry}) \in {asked, MaxExpiry}
      /\ \A y \in {asked, MaxExpiry} : Min({asked, MaxExpiry}) <= y
  <2>1. \E x \in {asked, MaxExpiry} : \A y \in {asked, MaxExpiry} : x <= y
    BY <1>1, <1>3, SMT
  <2> QED
    BY <2>1, Zenon DEF Min
<1>5. Min({asked, MaxExpiry}) \in 0..MaxExpiry
  BY <1>1, <1>3, <1>4, SMT
<1> QED
  BY <1>5 DEF resolveRequestedExpiry, Expiries, asked

\* Each operation finds its own event in the logs that the engine emits.
LEMMA EventFound ==
  ASSUME NEW tx, NEW block, tx.ops \in Seq(Operation),
         tx.logs = Events(tx.ops, block), NEW i \in DOMAIN tx.ops
  PROVE  attachEvents(tx, i) = tx.logs[i] /\ i \in DOMAIN tx.logs
<1> DEFINE logs == tx.logs
           kind == tx.ops[i].kind
           of(j) == {h \in 1..j : tx.ops[h].kind = kind}
           rank(rows, j) == Cardinality({h \in 1..j : rows[h].kind = kind})
           nth == {l \in DOMAIN logs : logs[l].kind = kind /\ rank(logs, l) = rank(tx.ops, i)}
<1>1. Len(tx.ops) \in Nat /\ DOMAIN tx.ops = 1..Len(tx.ops) /\ DOMAIN logs = DOMAIN tx.ops
  BY DEF Events
<1>2. \A l \in DOMAIN tx.ops : logs[l].kind = tx.ops[l].kind /\ logs[l].key = tx.ops[l].key
  BY DEF Events
<1>3. ASSUME NEW l \in DOMAIN tx.ops PROVE rank(logs, l) = Cardinality(of(l)) /\ rank(tx.ops, l) = Cardinality(of(l))
  <2>1. \A h \in 1..l : h \in DOMAIN tx.ops
    BY <1>1, SMT
  <2>2. {h \in 1..l : logs[h].kind = kind} = of(l)
    BY <1>2, <2>1
  <2> QED
    BY <2>2
<1>4. i \in nth
  BY <1>1, <1>2, <1>3
<1>5. ASSUME NEW p \in DOMAIN tx.ops, NEW q \in DOMAIN tx.ops, p < q, tx.ops[q].kind = kind
      PROVE  Cardinality(of(p)) # Cardinality(of(q))
  <2>1. p \in Nat /\ q \in Nat /\ of(p) \subseteq of(q) /\ q \in of(q) /\ q \notin of(p)
    BY <1>1, <1>5, SMT
  <2>2. IsFiniteSet(1..q)
    BY <2>1, FS_Interval
  <2>3. IsFiniteSet(of(q))
    BY <2>2, FS_Subset
  <2> HIDE DEF of
  <2>4. Cardinality(of(p)) < Cardinality(of(q))
    BY <2>1, <2>3, FS_Subset, FS_CardinalityType
  <2> QED
    BY <2>1, <2>3, <2>4, FS_Subset, FS_CardinalityType, SMT
<1>6. ASSUME NEW l \in nth PROVE l = i
  <2>1. l \in DOMAIN tx.ops /\ tx.ops[l].kind = kind /\ Cardinality(of(l)) = Cardinality(of(i))
    BY <1>1, <1>2, <1>3
  <2>2. ~(l < i) /\ ~(i < l)
    BY <1>5, <2>1
  <2> QED
    BY <1>1, <2>1, <2>2, SMT
<1>7. nth = {i}
  BY <1>4, <1>6
<1>8. attachEvents(tx, i) = IF \E l \in nth : logs[l].key = tx.ops[i].key
                            THEN logs[CHOOSE l \in nth : TRUE] ELSE None
  BY Zenon DEF attachEvents
<1>9. (CHOOSE l \in nth : TRUE) = i
  BY <1>7
<1> QED
  BY <1>1, <1>2, <1>4, <1>8, <1>9

\* What a row's expiry is, whether its event is stored or not.
LEMMA RowExpiry ==
  ASSUME ReadsAssumption, NEW tx, NEW block \in Nat, tx.ops \in Seq(Operation),
         tx.logs = << >> \/ tx.logs = Events(tx.ops, block), NEW i \in DOMAIN tx.ops,
         NEW r, r.op = tx.ops[i], r.block = block, r.event = attachEvents(tx, i)
  PROVE  resolveExpiry(r) = resolveRequestedExpiry(block, tx.ops[i].expires, tx.ops[i].lifetime)
<1>1. CASE tx.logs = << >>
  <2>1. attachEvents(tx, i) = None
    BY <1>1 DEF attachEvents
  <2> QED
    BY <2>1 DEF resolveExpiry
<1>2. CASE tx.logs = Events(tx.ops, block)
  <2>1. attachEvents(tx, i) = Events(tx.ops, block)[i]
    BY <1>2, EventFound
  <2>2. Events(tx.ops, block)[i] = [kind |-> tx.ops[i].kind, key |-> tx.ops[i].key,
          expires |-> resolveRequestedExpiry(block, tx.ops[i].expires, tx.ops[i].lifetime)]
    BY DEF Events
  <2>3. tx.ops[i] \in Operation
    OBVIOUS
  <2>4. Events(tx.ops, block)[i] \in Event
    BY <2>2, <2>3, ExpiryIs DEF Operation, Event
  <2>5. Events(tx.ops, block)[i] # None
    BY <2>4 DEF ReadsAssumption
  <2> QED
    BY <2>1, <2>2, <2>5 DEF resolveExpiry
<1> QED
  BY <1>1, <1>2

\* What the node makes of an entity is an entity again.
Entities == State \cup {None, Gone}

LEMMA ConstantsDiffer ==
  ASSUME ReadsAssumption
  PROVE  /\ None \notin State /\ Gone \notin State /\ Rejected \notin State
         /\ None # Gone /\ Rejected # None /\ Rejected # Gone
         /\ None \notin Nat /\ None \notin Version
  BY DEF ReadsAssumption

LEMMA NoAttributesIs == NoAttributes \in Attributes
  BY DEF NoAttributes, Attributes

LEMMA CreatedIs ==
  ASSUME ReadsAssumption,
         NEW e \in Entities, NEW op \in Operation, NEW block \in Nat, NEW at \in Places,
         op.kind = "create", Engine(e, op, block, at) # Rejected
  PROVE  /\ e = None
         /\ Engine(e, op, block, at)
              = [owner |-> op.sender, created |-> at,
                 expires |-> resolveRequestedExpiry(block, op.expires, op.lifetime),
                 attributes |-> applyAttributes(NoAttributes, op.cells)]
         /\ Engine(e, op, block, at) \in State
<1>1. op.cells \in Seq(Cell) /\ op.sender \in Owners /\ op.expires \in Nat /\ op.lifetime \in Nat
  BY DEF Operation
<1>2. /\ applyAttributes(NoAttributes, op.cells) = AfterCells(NoAttributes, op.cells)
      /\ AfterCells(NoAttributes, op.cells) \in Attributes
  BY <1>1, NoAttributesIs, ApplyIs
<1>3. AfterCells(NoAttributes, op.cells)
        = [n \in Names |-> LET set == {i \in DOMAIN op.cells : op.cells[i].name = n}
                           IN  IF set = {} THEN None ELSE op.cells[Max(set)].value]
  BY DEF AfterCells, NoAttributes
<1> DEFINE expires == resolveRequestedExpiry(block, op.expires, op.lifetime)
           new == [owner |-> op.sender, expires |-> expires, created |-> at,
                   attributes |-> AfterCells(NoAttributes, op.cells)]
<1>4. expires \in Expiries
  BY <1>1, ExpiryIs
<1>5. Engine(e, op, block, at) = IF e = None THEN new ELSE Rejected
  BY <1>3 DEF Engine
<1> HIDE DEF expires
<1>6. new \in State
  BY <1>1, <1>2, <1>4 DEF State
<1> QED
  BY <1>2, <1>5, <1>6 DEF expires

LEMMA ChangedIs ==
  ASSUME ReadsAssumption,
         NEW e \in Entities, NEW op \in Operation, NEW block \in Nat, NEW at \in Places,
         op.kind # "create", Engine(e, op, block, at) # Rejected
  PROVE  /\ e \in State
         /\ \/ /\ op.kind = "patch"
               /\ Engine(e, op, block, at)
                    = [e EXCEPT !.attributes = applyAttributes(e.attributes, op.cells)]
            \/ /\ op.kind = "extend"
               /\ Engine(e, op, block, at)
                    = [e EXCEPT !.expires = resolveRequestedExpiry(block, op.expires, op.lifetime)]
            \/ op.kind = "transfer" /\ Engine(e, op, block, at) = [e EXCEPT !.owner = op.newOwner]
            \/ op.kind = "delete" /\ Engine(e, op, block, at) = Gone
         /\ Engine(e, op, block, at) \in State \cup {Gone}
<1>1. /\ op.cells \in Seq(Cell) /\ op.expires \in Nat /\ op.lifetime \in Nat
      /\ op.kind \in Kinds /\ (op.kind = "transfer" => op.newOwner \in Owners)
  BY DEF Operation
<1> DEFINE expires == resolveRequestedExpiry(block, op.expires, op.lifetime)
           live == e # None /\ e # Gone /\ e.expires > block
           mine == live /\ e.owner = op.sender
<1>2. expires \in Expiries
  BY <1>1, ExpiryIs
<1>3. Engine(e, op, block, at)
        = CASE op.kind = "create" /\ e = None ->
                 [owner |-> op.sender, expires |-> expires, created |-> at,
                  attributes |-> [n \in Names |->
                     LET set == {i \in DOMAIN op.cells : op.cells[i].name = n}
                     IN  IF set = {} THEN None ELSE op.cells[Max(set)].value]]
            [] op.kind = "patch" /\ mine ->
                 [e EXCEPT !.attributes = [n \in Names |->
                    LET set == {i \in DOMAIN op.cells : op.cells[i].name = n}
                    IN  IF set = {} THEN @[n] ELSE op.cells[Max(set)].value]]
            [] op.kind = "extend" /\ live -> [e EXCEPT !.expires = expires]
            [] op.kind = "transfer" /\ mine -> [e EXCEPT !.owner = op.newOwner]
            [] op.kind = "delete" /\ mine -> Gone
            [] OTHER -> Rejected
  BY DEF Engine
<1> HIDE DEF expires
<1>4. live
  BY <1>1, <1>3 DEF Kinds
<1>5. e \in State
  BY <1>4 DEF Entities
<1>6. e.attributes \in Attributes
  BY <1>5 DEF State
<1>7. /\ applyAttributes(e.attributes, op.cells) = AfterCells(e.attributes, op.cells)
      /\ AfterCells(e.attributes, op.cells) \in Attributes
  BY <1>1, <1>6, ApplyIs
<1>8. CASE op.kind = "patch"
  <2>1. Engine(e, op, block, at) = [e EXCEPT !.attributes = AfterCells(e.attributes, op.cells)]
    BY <1>3, <1>8 DEF AfterCells
  <2>2. Engine(e, op, block, at) \in State
    BY <1>5, <1>7, <2>1 DEF State
  <2> QED
    BY <1>5, <1>7, <1>8, <2>1, <2>2
<1>9. CASE op.kind = "extend"
  <2>1. Engine(e, op, block, at) = [e EXCEPT !.expires = expires]
    BY <1>3, <1>9
  <2>2. Engine(e, op, block, at) \in State
    BY <1>2, <1>5, <2>1 DEF State
  <2> QED
    BY <1>5, <1>9, <2>1, <2>2 DEF expires
<1>10. CASE op.kind = "transfer"
  <2>1. Engine(e, op, block, at) = [e EXCEPT !.owner = op.newOwner]
    BY <1>3, <1>10
  <2>2. Engine(e, op, block, at) \in State
    BY <1>1, <1>5, <1>10, <2>1 DEF State
  <2> QED
    BY <1>5, <1>10, <2>1, <2>2
<1>11. CASE op.kind = "delete"
  BY <1>3, <1>5, <1>11
<1> QED
  BY <1>1, <1>8, <1>9, <1>10, <1>11 DEF Kinds

-----------------------------------------------------------------------------
(* The versions of a key follow its states. *)

Covers(v, b) == v.from <= b /\ (v.to # None => v.to > b)

Shows(v, e) == e # None /\ IF v.deleted THEN e = Gone ELSE e = Entity(v)

\* W is what the operations up to block c make of a key's base, e the state they leave
\* it in, and past its states up to block b.
Tracks(W, base, past, e, b, c) ==
  /\ W \in Seq(Version) /\ GenesisBase(W) = base
  /\ W = << >> <=> e = None
  /\ W # << >> => Shows(W[Len(W)], e)
  /\ \A i \in 1..Len(W) :
       W[i].from \in 0..c /\ IF i = Len(W) THEN W[i].to = None ELSE W[i].to \in 0..c
  /\ \A h \in 0..b :
       /\ \A i \in 1..Len(W) : Covers(W[i], h) => Shows(W[i], past[h])
       /\ past[h] # None => \E i \in 1..Len(W) : Covers(W[i], h)

LEMMA UpTo ==
  ASSUME NEW n \in Nat \ {0}
  PROVE  /\ n \in 1..n /\ n + 1 \in 1..(n + 1) /\ (n # 1 => 1 \in 1..(n - 1))
         /\ \A i \in 1..(n - 1) : i \in 1..n /\ i \in 1..(n + 1) /\ i # n /\ i # n + 1
         /\ \A i \in 1..n : (i \in 1..(n - 1) \/ i = n) /\ i \in 1..(n + 1) /\ i # n + 1
         /\ \A i \in 1..(n + 1) : i \in 1..(n - 1) \/ i = n \/ i = n + 1
  BY SMT

\* With a new version the last one ends where it begins.
LEMMA PushIs ==
  ASSUME NEW W \in Seq(Version), W # << >>, NEW v \in Version
  PROVE  LET N == Push(W, v)
         IN  /\ N \in Seq(Version) /\ Len(N) = Len(W) + 1 /\ Len(W) \in Nat \ {0}
             /\ N[Len(W) + 1] = v
             /\ N[Len(W)] = [W[Len(W)] EXCEPT !.to = v.from]
             /\ \A i \in 1..(Len(W) - 1) : N[i] = W[i]
<1> DEFINE n == Len(W)
           C == [i \in DOMAIN W |-> IF i = Len(W) THEN [W[i] EXCEPT !.to = v.from] ELSE W[i]]
<1>1. n \in Nat \ {0} /\ DOMAIN W = 1..n /\ \A i \in 1..n : W[i] \in Version
  OBVIOUS
<1>2. \A u \in Version : [u EXCEPT !.to = v.from] \in Version
  BY DEF Version
<1>3. C \in Seq(Version) /\ Len(C) = n
  <2>1. C \in [1..n -> Version]
    BY <1>1, <1>2
  <2> QED
    BY <1>1, <2>1
<1>4. \A i \in 1..n : C[i] = IF i = n THEN [W[i] EXCEPT !.to = v.from] ELSE W[i]
  BY <1>1
<1>5. Push(W, v) = Append(C, v)
  BY DEF Push
<1> HIDE DEF C
<1>6. /\ Append(C, v) \in Seq(Version) /\ Len(Append(C, v)) = n + 1 /\ Append(C, v)[n + 1] = v
      /\ \A i \in 1..n : Append(C, v)[i] = C[i]
  BY <1>1, <1>3
<1>7. n \in 1..n /\ \A i \in 1..(n - 1) : i \in 1..n /\ i # n
  BY <1>1, UpTo
<1> QED
  BY <1>1, <1>4, <1>5, <1>6, <1>7

LEMMA PushTracks ==
  ASSUME NEW W, NEW base, NEW past, NEW e, NEW b \in Nat,
         Tracks(W, base, past, e, b, b + 1), W # << >>,
         NEW v \in Version, v.from = b + 1, v.to = None, NEW d, Shows(v, d)
  PROVE  Tracks(Push(W, v), base, past, d, b, b + 1)
<1> DEFINE N == Push(W, v)
           n == Len(W)
<1>1. W \in Seq(Version)
  BY DEF Tracks
<1>2. /\ N \in Seq(Version) /\ Len(N) = n + 1 /\ n \in Nat \ {0} /\ N[n + 1] = v
      /\ N[n] = [W[n] EXCEPT !.to = b + 1] /\ \A i \in 1..(n - 1) : N[i] = W[i]
  BY <1>1, PushIs
<1>3. W[n] \in Version /\ \A i \in 1..n : W[i] \in Version
  BY <1>1, <1>2
<1>4. /\ N[n].from = W[n].from /\ N[n].to = b + 1 /\ N[n].deleted = W[n].deleted
      /\ Entity(N[n]) = Entity(W[n])
  BY <1>2, <1>3 DEF Version, Entity
<1> HIDE DEF N
<1>5. /\ n \in 1..n /\ (n # 1 => 1 \in 1..(n - 1))
      /\ \A i \in 1..(n - 1) : i \in 1..n /\ i # n /\ i # n + 1
      /\ \A i \in 1..n : (i \in 1..(n - 1) \/ i = n) /\ i \in 1..(n + 1) /\ i # n + 1
      /\ \A i \in 1..(n + 1) : i \in 1..(n - 1) \/ i = n \/ i = n + 1
  BY <1>2, UpTo
<1>6. GenesisBase(N) = GenesisBase(W)
  <2>1. N # << >> /\ Head(N) = N[1] /\ Head(W) = W[1]
    BY <1>1, <1>2
  <2>2. CASE n = 1
    <3>1. [W[1] EXCEPT !.to = None] = [N[1] EXCEPT !.to = None]
      BY <1>2, <1>3, <2>2 DEF Version
    <3> QED
      BY <1>4, <2>1, <2>2, <3>1 DEF GenesisBase
  <2>3. CASE n # 1
    <3>1. 1 \in 1..(n - 1)
      BY <1>5, <2>3
    <3> QED
      BY <1>2, <2>1, <3>1 DEF GenesisBase
  <2> QED
    BY <2>2, <2>3
<1>7. ASSUME NEW i \in 1..(n + 1)
      PROVE  N[i].from \in 0..(b + 1) /\ IF i = n + 1 THEN N[i].to = None ELSE N[i].to \in 0..(b + 1)
  <2>1. \A j \in 1..n : /\ W[j].from \in 0..(b + 1)
                        /\ IF j = n THEN W[j].to = None ELSE W[j].to \in 0..(b + 1)
    BY DEF Tracks
  <2>2. CASE i \in 1..(n - 1)
    BY <1>2, <1>5, <2>1, <2>2
  <2>3. CASE i = n
    <3>1. n # n + 1 /\ N[n].from = W[n].from /\ N[n].to = b + 1 /\ W[n].from \in 0..(b + 1)
      BY <1>4, <1>5, <2>1
    <3>2. b + 1 \in 0..(b + 1)
      BY SMT
    <3> QED
      BY <2>3, <3>1, <3>2
  <2>4. CASE i = n + 1
    BY <1>2, <2>4, SMT
  <2> QED
    BY <1>5, <2>2, <2>3, <2>4
<1>8. ASSUME NEW h \in 0..b
      PROVE  /\ \A i \in 1..(n + 1) : Covers(N[i], h) => Shows(N[i], past[h])
             /\ past[h] # None => \E i \in 1..(n + 1) : Covers(N[i], h)
  <2>1. /\ \A i \in 1..n : Covers(W[i], h) => Shows(W[i], past[h])
        /\ past[h] # None => \E i \in 1..n : Covers(W[i], h)
    BY DEF Tracks
  <2>2. ~Covers(N[n + 1], h)
    BY <1>2, SMT DEF Covers
  <2>3. Covers(N[n], h) <=> Covers(W[n], h)
    <3>1. W[n].to = None /\ n \in 1..n
      BY <1>2 DEF Tracks
    <3>2. b + 1 > h
      BY SMT
    <3> QED
      BY <1>4, <3>1, <3>2 DEF Covers
  <2>4. \A i \in 1..n : Covers(N[i], h) <=> Covers(W[i], h)
    BY <1>2, <1>5, <2>3
  <2>5. Shows(W[n], past[h]) <=> Shows(N[n], past[h])
    BY <1>4, Zenon DEF Shows
  <2>6. \A i \in 1..n : Shows(W[i], past[h]) <=> Shows(N[i], past[h])
    BY <1>2, <1>5, <2>5
  <2> QED
    BY <1>5, <2>1, <2>2, <2>4, <2>6
<1>9. N # << >> /\ d # None
  BY <1>2 DEF Shows
<1>10. GenesisBase(W) = base
  BY DEF Tracks
<1>11. Len(N) = n + 1 /\ Shows(N[n + 1], d)
  BY <1>2
<1> HIDE DEF n
<1> QED
  BY <1>2, <1>6, <1>7, <1>8, <1>9, <1>10, <1>11 DEF Tracks, N

\* What the fold needs of a row.
RowOK(r) ==
  /\ r.op \in Operation /\ r.block \in Nat /\ r.at \in Places /\ resolveExpiry(r) \in Expiries

LEMMA FirstVersionIs ==
  ASSUME NEW r, RowOK(r)
  PROVE  /\ FirstVersion(r) \in Version
         /\ FirstVersion(r).from = r.block /\ FirstVersion(r).to = None
         /\ ~FirstVersion(r).deleted
         /\ Entity(FirstVersion(r))
              = [owner |-> r.op.sender, created |-> r.at, expires |-> resolveExpiry(r),
                 attributes |-> applyAttributes(NoAttributes, r.op.cells)]
<1>1. r.op.cells \in Seq(Cell) /\ r.op.sender \in Owners
  BY DEF RowOK, Operation
<1>2. applyAttributes(NoAttributes, r.op.cells) \in Attributes
  BY <1>1, NoAttributesIs, ApplyIs
<1> QED
  BY <1>1, <1>2 DEF FirstVersion, RowOK, Version, Entity

LEMMA NextVersionIs ==
  ASSUME NEW v \in Version, NEW r, RowOK(r), r.op.kind # "create"
  PROVE  LET w == NextVersion(v, r)
         IN  /\ w \in Version /\ w.from = r.block /\ w.to = None
             /\ (w.deleted <=> v.deleted \/ r.op.kind = "delete")
             /\ r.op.kind = "patch" =>
                  Entity(w) = [Entity(v) EXCEPT !.attributes = applyAttributes(v.attributes, r.op.cells)]
             /\ r.op.kind = "extend" => Entity(w) = [Entity(v) EXCEPT !.expires = resolveExpiry(r)]
             /\ r.op.kind = "transfer" => Entity(w) = [Entity(v) EXCEPT !.owner = r.op.newOwner]
<1>1. /\ r.op.cells \in Seq(Cell) /\ r.op.kind \in Kinds \ {"create"}
      /\ (r.op.kind = "transfer" => r.op.newOwner \in Owners)
  BY DEF RowOK, Operation
<1>2. v.attributes \in Attributes
  BY DEF Version
<1>3. applyAttributes(v.attributes, r.op.cells) \in Attributes
  BY <1>1, <1>2, ApplyIs
<1> DEFINE base == [v EXCEPT !.from = r.block, !.to = None]
           w == NextVersion(v, r)
<1>4. /\ base \in Version /\ base.from = r.block /\ base.to = None
      /\ base.deleted = v.deleted /\ base.attributes = v.attributes /\ Entity(base) = Entity(v)
  BY DEF Version, RowOK, Entity
<1>5. CASE r.op.kind = "patch"
  <2>1. w = [base EXCEPT !.attributes = applyAttributes(v.attributes, r.op.cells)]
    BY <1>4, <1>5 DEF NextVersion
  <2> HIDE DEF base, w
  <2>2. w \in Version /\ w.from = base.from /\ w.to = base.to /\ w.deleted = base.deleted
    BY <1>1, <1>3, <1>4, <1>5, <2>1 DEF Version, RowOK
  <2>3. Entity(w) = [Entity(base) EXCEPT !.attributes = applyAttributes(v.attributes, r.op.cells)]
    BY <1>4, <2>1 DEF Version, Entity
  <2> QED
    BY <1>4, <1>5, <2>2, <2>3 DEF w
<1>6. CASE r.op.kind = "extend"
  <2>1. w = [base EXCEPT !.expires = resolveExpiry(r)]
    BY <1>4, <1>6 DEF NextVersion
  <2> HIDE DEF base, w
  <2>2. w \in Version /\ w.from = base.from /\ w.to = base.to /\ w.deleted = base.deleted
    BY <1>1, <1>3, <1>4, <1>6, <2>1 DEF Version, RowOK
  <2>3. Entity(w) = [Entity(base) EXCEPT !.expires = resolveExpiry(r)]
    BY <1>4, <2>1 DEF Version, Entity
  <2> QED
    BY <1>4, <1>6, <2>2, <2>3 DEF w
<1>7. CASE r.op.kind = "transfer"
  <2>1. w = [base EXCEPT !.owner = r.op.newOwner]
    BY <1>4, <1>7 DEF NextVersion
  <2> HIDE DEF base, w
  <2>2. w \in Version /\ w.from = base.from /\ w.to = base.to /\ w.deleted = base.deleted
    BY <1>1, <1>3, <1>4, <1>7, <2>1 DEF Version, RowOK
  <2>3. Entity(w) = [Entity(base) EXCEPT !.owner = r.op.newOwner]
    BY <1>4, <2>1 DEF Version, Entity
  <2> QED
    BY <1>4, <1>7, <2>2, <2>3 DEF w
<1>8. CASE r.op.kind = "delete"
  <2>1. w = [base EXCEPT !.deleted = TRUE]
    BY <1>8 DEF NextVersion
  <2> HIDE DEF base, w
  <2>2. w \in Version /\ w.from = base.from /\ w.to = base.to /\ w.deleted
    BY <1>4, <2>1 DEF Version
  <2> QED
    BY <1>4, <1>8, <2>2 DEF w
<1> QED
  BY <1>1, <1>5, <1>6, <1>7, <1>8 DEF Kinds

LEMMA ReplayTyped ==
  ASSUME NEW W \in Seq(Version), NEW r, RowOK(r)
  PROVE  Replay(W, r) \in Seq(Version)
<1>1. CASE W = << >>
  <2>1. FirstVersion(r) \in Version
    BY FirstVersionIs
  <2> QED
    BY <1>1, <2>1 DEF Replay
<1>2. CASE W # << >> /\ r.op.kind # "create"
  <2>1. W[Len(W)] \in Version
    BY <1>2
  <2>2. NextVersion(W[Len(W)], r) \in Version
    BY <1>2, <2>1, NextVersionIs
  <2>3. Push(W, NextVersion(W[Len(W)], r)) \in Seq(Version)
    BY <1>2, <2>2, PushIs
  <2> QED
    BY <1>2, <2>3 DEF Replay, Last
<1> QED
  BY <1>1, <1>2 DEF Replay

\* An operation that the engine applied makes of the versions what it makes of the entity.
LEMMA ReplayTracks ==
  ASSUME ReadsAssumption, NEW W, NEW base, NEW past, NEW e \in Entities, NEW b \in Nat,
         Tracks(W, base, past, e, b, b + 1),
         NEW r, RowOK(r), r.block = b + 1,
         resolveExpiry(r) = resolveRequestedExpiry(b + 1, r.op.expires, r.op.lifetime),
         Engine(e, r.op, b + 1, r.at) # Rejected
  PROVE  Tracks(Replay(W, r), base, past, Engine(e, r.op, b + 1, r.at), b, b + 1)
<1> DEFINE d == Engine(e, r.op, b + 1, r.at)
<1>1. r.op \in Operation /\ r.at \in Places /\ b + 1 \in Nat
  BY DEF RowOK
<1>2. W \in Seq(Version) /\ (W = << >> <=> e = None)
  BY DEF Tracks
<1>3. CASE r.op.kind = "create"
  <2>1. /\ e = None /\ d \in State
        /\ d = [owner |-> r.op.sender, created |-> r.at, expires |-> resolveExpiry(r),
                attributes |-> applyAttributes(NoAttributes, r.op.cells)]
    BY <1>1, <1>3, CreatedIs
  <2> DEFINE v == FirstVersion(r)
  <2>2. v \in Version /\ v.from = b + 1 /\ v.to = None /\ ~v.deleted /\ Entity(v) = d
    BY <2>1, FirstVersionIs
  <2>3. W = << >> /\ Replay(W, r) = <<v>>
    BY <1>2, <1>3, <2>1 DEF Replay
  <2> HIDE DEF d, v
  <2>4. d # None
    BY <2>1, ConstantsDiffer
  <2>5. base = << >> /\ \A h \in 0..b : past[h] = None
    BY <2>3 DEF Tracks, GenesisBase
  <2>6. GenesisBase(<<v>>) = << >>
    BY <2>2 DEF GenesisBase
  <2>7. \A h \in 0..b : ~Covers(v, h)
    BY <2>2 DEF Covers
  <2>8. <<v>> \in Seq(Version) /\ Len(<<v>>) = 1 /\ <<v>>[1] = v /\ <<v>> # << >>
    BY <2>2
  <2>9. Shows(v, d)
    BY <2>2, <2>4 DEF Shows
  <2>10. \A i \in 1..1 : i = 1
    BY SMT
  <2>11. v.from \in 0..(b + 1)
    BY <2>2, SMT
  <2> DEFINE N == <<v>>
  <2> HIDE DEF N
  <2>12. Tracks(N, base, past, d, b, b + 1)
    BY <2>2, <2>4, <2>5, <2>6, <2>7, <2>8, <2>9, <2>10, <2>11 DEF Tracks, N
  <2> QED
    BY <2>3, <2>12 DEF N, d
<1>4. CASE r.op.kind # "create"
  <2> DEFINE v == W[Len(W)]
             w == NextVersion(v, r)
  <2>1. /\ e \in State /\ d \in State \cup {Gone}
        /\ \/ /\ r.op.kind = "patch"
              /\ d = [e EXCEPT !.attributes = applyAttributes(e.attributes, r.op.cells)]
           \/ r.op.kind = "extend" /\ d = [e EXCEPT !.expires = resolveExpiry(r)]
           \/ r.op.kind = "transfer" /\ d = [e EXCEPT !.owner = r.op.newOwner]
           \/ r.op.kind = "delete" /\ d = Gone
    <3>1. /\ e \in State /\ d \in State \cup {Gone}
          /\ \/ /\ r.op.kind = "patch"
                /\ d = [e EXCEPT !.attributes = applyAttributes(e.attributes, r.op.cells)]
             \/ /\ r.op.kind = "extend"
                /\ d = [e EXCEPT !.expires =
                          resolveRequestedExpiry(b + 1, r.op.expires, r.op.lifetime)]
             \/ r.op.kind = "transfer" /\ d = [e EXCEPT !.owner = r.op.newOwner]
             \/ r.op.kind = "delete" /\ d = Gone
      BY <1>1, <1>4, ChangedIs, Zenon
    <3> QED
      BY <3>1
  <2>2. W # << >>
    BY <1>2, <2>1, ConstantsDiffer
  <2>3. v \in Version /\ Shows(v, e)
    BY <1>2, <2>2 DEF Tracks
  <2>4. ~v.deleted /\ Entity(v) = e /\ v.attributes = e.attributes
    BY <2>1, <2>3, ConstantsDiffer DEF Shows, Entity
  <2>5. Replay(W, r) = Push(W, w)
    BY <1>4, <2>2, <2>4 DEF Replay, Last
  <2>6. /\ w \in Version /\ w.from = b + 1 /\ w.to = None
        /\ (w.deleted <=> v.deleted \/ r.op.kind = "delete")
        /\ r.op.kind = "patch" =>
             Entity(w) = [Entity(v) EXCEPT !.attributes = applyAttributes(v.attributes, r.op.cells)]
        /\ r.op.kind = "extend" => Entity(w) = [Entity(v) EXCEPT !.expires = resolveExpiry(r)]
        /\ r.op.kind = "transfer" => Entity(w) = [Entity(v) EXCEPT !.owner = r.op.newOwner]
    BY <1>4, <2>3, NextVersionIs
  <2> HIDE DEF d, v, w
  <2>7. d # None
    BY <2>1, ConstantsDiffer
  <2>8. Shows(w, d)
    BY <2>1, <2>4, <2>6, <2>7 DEF Shows
  <2>9. Tracks(Push(W, w), base, past, d, b, b + 1)
    BY <2>2, <2>6, <2>8, PushTracks
  <2> QED
    BY <2>5, <2>9 DEF d
<1> QED
  BY <1>3, <1>4

-----------------------------------------------------------------------------
(* The rows of a key, in chain order. *)

LEMMA EarlierOrders ==
  ASSUME NEW p \in Places, NEW q \in Places
  PROVE  /\ ~Earlier(p, p)
         /\ Earlier(p, q) => ~Earlier(q, p)
         /\ \A o \in Places : Earlier(o, p) /\ Earlier(p, q) => Earlier(o, q)
         /\ p = q \/ Earlier(p, q) \/ Earlier(q, p)
<1>1. \A o \in Places : o[1] \in Nat /\ o[2] \in Nat /\ o[3] \in Nat /\ o = <<o[1], o[2], o[3]>>
  BY DEF Places
<1>2. ~Earlier(p, p) /\ (Earlier(p, q) => ~Earlier(q, p))
  BY <1>1, SMT DEF Earlier
<1>3. \A o \in Places : Earlier(o, p) /\ Earlier(p, q) => Earlier(o, q)
  BY <1>1, SMT DEF Earlier
<1>4. p = q \/ Earlier(p, q) \/ Earlier(q, p)
  BY <1>1, SMT DEF Earlier
<1> QED
  BY <1>2, <1>3, <1>4

\* Some rows have a latest one.
LEMMA LatestIs ==
  ASSUME NEW R, IsFiniteSet(R), R # {}, \A r \in R : r.at \in Places
  PROVE  Latest(R) \in R /\ \A q \in R : ~Earlier(Latest(R).at, q.at)
<1> DEFINE Top(s) == \E r \in s : \A q \in s : ~Earlier(r.at, q.at)
           T == {n \in Nat : \A s \in SUBSET R : Cardinality(s) = n /\ s # {} => Top(s)}
<1>1. \A s \in SUBSET R : IsFiniteSet(s) /\ Cardinality(s) \in Nat
  BY FS_Subset, FS_CardinalityType
<1>2. 0 \in T
  BY <1>1, FS_EmptySet
<1>3. ASSUME NEW n \in T PROVE n + 1 \in T
  <2> SUFFICES ASSUME NEW s \in SUBSET R, Cardinality(s) = n + 1, s # {} PROVE Top(s)
    OBVIOUS
  <2>1. PICK x \in s : TRUE
    OBVIOUS
  <2> DEFINE u == s \ {x}
  <2>2. Cardinality(u) = n
    BY <1>1, <2>1, FS_RemoveElement
  <2>3. CASE u = {}
    <3>1. \A q \in s : q = x
      BY <2>3
    <3>2. ~Earlier(x.at, x.at)
      BY <2>1, EarlierOrders
    <3> QED
      BY <2>1, <3>1, <3>2
  <2>4. CASE u # {}
    <3>1. PICK y \in u : \A q \in u : ~Earlier(y.at, q.at)
      BY <2>2, <2>4
    <3>2. x.at \in Places /\ y.at \in Places /\ \A q \in s : q.at \in Places
      BY <2>1
    <3>3. ~Earlier(x.at, x.at)
      BY <3>2, EarlierOrders
    <3>4. CASE ~Earlier(y.at, x.at)
      BY <2>1, <3>1, <3>4
    <3>5. CASE Earlier(y.at, x.at)
      <4>1. ASSUME NEW q \in u PROVE ~Earlier(x.at, q.at)
        <5>1. Earlier(x.at, q.at) => Earlier(y.at, q.at)
          BY <3>2, <3>5, EarlierOrders
        <5> QED
          BY <3>1, <5>1
      <4> QED
        BY <2>1, <3>3, <4>1
    <3> QED
      BY <3>4, <3>5
  <2> QED
    BY <2>3, <2>4
<1>4. \A n \in Nat : n \in T
  <2> HIDE DEF Top
  <2>1. T \in SUBSET Nat
    OBVIOUS
  <2> QED
    BY <1>2, <1>3, <2>1, Induction
<1>5. Top(R)
  BY <1>1, <1>4
<1> QED
  BY <1>5 DEF Latest

\* What is folded, for each set of rows.
FoldOf(f, R, base) ==
  /\ f \in [SUBSET R -> Seq(Version)]
  /\ foldEntityVersions(R, base) = f[R] /\ f[{}] = base
  /\ \A s \in SUBSET R : s # {} =>
       /\ Latest(s) \in s /\ \A q \in s : ~Earlier(Latest(s).at, q.at)
       /\ f[s] = Replay(f[s \ {Latest(s)}], Latest(s))

LEMMA FoldIs ==
  ASSUME NEW R, IsFiniteSet(R), \A r \in R : RowOK(r), NEW base \in Seq(Version)
  PROVE  \E f : FoldOf(f, R, base)
<1> DEFINE X == Seq(Version)
           step == [r \in R |-> [W \in X |-> Replay(W, r)]]
           choice == [s \in SUBSET R |-> Latest(s)]
           body(f) == [s \in SUBSET R |-> IF s = {} THEN base
                                          ELSE Replay(f[s \ {Latest(s)}], Latest(s))]
           fold == CHOOSE f : f = body(f)
<1>1. foldEntityVersions(R, base) = fold[R]
  BY DEF foldEntityVersions, MapThenFoldSet
<1>2. \A r \in R, W \in X : step[r][W] = Replay(W, r) /\ step[r][W] \in X
  BY ReplayTyped
<1>3. \A s \in SUBSET R : s # {} =>
        Latest(s) \in s /\ \A q \in s : ~Earlier(Latest(s).at, q.at)
  <2>1. \A r \in R : r.at \in Places
    BY DEF RowOK
  <2>2. ASSUME NEW s \in SUBSET R, s # {}
        PROVE  Latest(s) \in s /\ \A q \in s : ~Earlier(Latest(s).at, q.at)
    <3>1. IsFiniteSet(s)
      BY FS_Subset
    <3> QED
      BY <2>1, <2>2, <3>1, LatestIs
  <2> QED
    BY <2>2
<1>4. \A s \in SUBSET R : choice[s] = Latest(s)
  OBVIOUS
<1>5. \A s \in SUBSET R : s # {} => choice[s] \in s
  BY <1>3, <1>4
<1>6. base \in X
  OBVIOUS
<1> HIDE DEF X, step, choice
<1>7. PICK f : Folds(f, R, X, base, choice, step)
  BY <1>2, <1>5, <1>6, FoldExists
<1>8. ASSUME NEW s \in SUBSET R, s # {}
      PROVE  f[s] = Replay(f[s \ {Latest(s)}], Latest(s))
  <2>1. f[s \ {Latest(s)}] \in X
    BY <1>7 DEF Folds
  <2>2. Latest(s) \in R
    BY <1>3, <1>8
  <2> QED
    BY <1>2, <1>4, <1>7, <1>8, <2>1, <2>2 DEF Folds
<1>9. f[{}] = base /\ f = [s \in SUBSET R |-> f[s]]
  BY <1>7 DEF Folds
<1>10. f = body(f)
  <2>1. \A s \in SUBSET R : f[s] = body(f)[s]
    BY <1>8, <1>9
  <2> QED
    BY <1>9, <2>1
<1>11. fold = body(fold)
  BY <1>10, Zenon
<1> HIDE DEF fold
<1> DEFINE Good(s) == fold[s] \in X
           T == {n \in Nat : \A s \in SUBSET R : Cardinality(s) <= n => Good(s)}
<1>12. fold[{}] = base
  BY <1>11
<1>13. \A s \in SUBSET R : s # {} => fold[s] = Replay(fold[s \ {Latest(s)}], Latest(s))
  BY <1>11
<1>14. \A s \in SUBSET R : IsFiniteSet(s) /\ Cardinality(s) \in Nat
  BY FS_Subset, FS_CardinalityType
<1>15. 0 \in T
  <2>1. ASSUME NEW s \in SUBSET R, Cardinality(s) <= 0 PROVE Good(s)
    <3>1. Cardinality(s) = 0
      BY <1>14, <2>1
    <3>2. s = {}
      BY <1>14, <3>1, FS_EmptySet
    <3> QED
      BY <1>6, <1>12, <3>2
  <2> QED
    BY <2>1
<1>16. ASSUME NEW n \in T PROVE n + 1 \in T
  <2> SUFFICES ASSUME NEW s \in SUBSET R, Cardinality(s) <= n + 1 PROVE Good(s)
    OBVIOUS
  <2>1. CASE s = {}
    BY <1>6, <1>12, <2>1
  <2>2. CASE s # {}
    <3>1. Latest(s) \in s /\ Latest(s) \in R
      BY <1>3, <2>2
    <3>2. Cardinality(s \ {Latest(s)}) = Cardinality(s) - 1
      BY <1>14, <3>1, FS_RemoveElement
    <3>3. Cardinality(s \ {Latest(s)}) <= n
      BY <1>14, <3>2
    <3>4. fold[s \ {Latest(s)}] \in X
      BY <3>3
    <3> QED
      BY <1>2, <1>13, <2>2, <3>1, <3>4
  <2> QED
    BY <2>1, <2>2
<1>17. \A n \in Nat : n \in T
  <2> HIDE DEF Good
  <2>1. T \in SUBSET Nat
    OBVIOUS
  <2> QED
    BY <1>15, <1>16, <2>1, Induction
<1>18. \A s \in SUBSET R : fold[s] \in X
  BY <1>14, <1>17
<1>19. fold \in [SUBSET R -> X]
  BY <1>11, <1>18
<1> QED
  BY <1>1, <1>3, <1>12, <1>13, <1>19 DEF X, FoldOf

-----------------------------------------------------------------------------
(* The node, operation by operation. *)

States == [Keys -> Entities]

\* What operation i makes of all entities.
AfterOp(s, ops, block, t, i) ==
  IF s = Rejected THEN s
  ELSE LET e == Engine(s[ops[i].key], ops[i], block, <<block, t, i>>)
       IN  IF e = Rejected THEN e ELSE [s EXCEPT ![ops[i].key] = e]

LEMMA EngineIs ==
  ASSUME ReadsAssumption,
         NEW e \in Entities, NEW op \in Operation, NEW block \in Nat, NEW at \in Places
  PROVE  Engine(e, op, block, at) \in Entities \cup {Rejected}
<1>1. CASE Engine(e, op, block, at) = Rejected
  BY <1>1
<1>2. CASE Engine(e, op, block, at) # Rejected
  BY <1>2, CreatedIs, ChangedIs DEF Entities
<1> QED
  BY <1>1, <1>2

LEMMA AfterOpIs ==
  ASSUME ReadsAssumption, NEW s \in States \cup {Rejected}, NEW ops \in Seq(Operation),
         NEW block \in Nat, NEW t \in Nat, NEW i \in DOMAIN ops
  PROVE  AfterOp(s, ops, block, t, i) \in States \cup {Rejected}
<1>1. CASE s = Rejected
  BY <1>1 DEF AfterOp
<1>2. CASE s \in States
  <2> DEFINE e == Engine(s[ops[i].key], ops[i], block, <<block, t, i>>)
  <2>1. ops[i] \in Operation /\ ops[i].key \in Keys /\ i \in Nat
    BY DEF Operation
  <2>2. <<block, t, i>> \in Places
    BY <2>1 DEF Places
  <2>3. s[ops[i].key] \in Entities
    BY <1>2, <2>1 DEF States
  <2>4. e \in Entities \cup {Rejected}
    BY <2>1, <2>2, <2>3, EngineIs
  <2> HIDE DEF e
  <2>5. e # Rejected => [s EXCEPT ![ops[i].key] = e] \in States
    BY <1>2, <2>4 DEF States
  <2> QED
    BY <1>2, <2>5 DEF AfterOp, e
<1> QED
  BY <1>1, <1>2

LEMMA RejectedIsNoState ==
  ASSUME ReadsAssumption
  PROVE  Rejected \notin States
  BY DEF ReadsAssumption, States, Entities

\* A transaction that is not refused goes from state to state.
Trace(f, s, ops, block, t) ==
  /\ f \in [0..Len(ops) -> States]
  /\ f[0] = s /\ f[Len(ops)] = Execute(s, ops, block, t)
  /\ \A i \in 1..Len(ops) :
       /\ Engine(f[i - 1][ops[i].key], ops[i], block, <<block, t, i>>) # Rejected
       /\ f[i] = [f[i - 1] EXCEPT ![ops[i].key] =
            Engine(f[i - 1][ops[i].key], ops[i], block, <<block, t, i>>)]

LEMMA ExecuteIs ==
  ASSUME ReadsAssumption,
         NEW s \in States, NEW ops \in Seq(Operation), NEW block \in Nat, NEW t \in Nat
  PROVE  /\ Execute(s, ops, block, t) \in States \cup {Rejected}
         /\ Execute(s, ops, block, t) # Rejected =>
              \E f : Trace(f, s, ops, block, t)
<1> DEFINE n == Len(ops)
           X == States \cup {Rejected}
           seq == [i \in DOMAIN ops |-> i]
           step == [i \in 1..n |-> [u \in X |-> AfterOp(u, ops, block, t, i)]]
           body(f) == [r \in SUBSET (DOMAIN seq) |->
                         IF r = {} THEN s
                         ELSE AfterOp(f[r \ {Max(r)}], ops, block, t, seq[Max(r)])]
           fold == CHOOSE f : f = body(f)
<1>1. n \in Nat /\ DOMAIN ops = 1..n /\ DOMAIN seq = 1..n /\ \A i \in 1..n : seq[i] = i
  OBVIOUS
<1>2. Execute(s, ops, block, t) = fold[DOMAIN seq]
  BY DEF Execute, FoldLeft, MapThenFoldSet, AfterOp
<1>3. \A i \in 1..n, u \in X : step[i][u] = AfterOp(u, ops, block, t, i) /\ step[i][u] \in X
  BY <1>1, AfterOpIs
<1>4. s \in X
  OBVIOUS
<1>5. Rejected \notin States
  BY RejectedIsNoState
<1> HIDE DEF step, n, seq, X
<1>6. PICK f : FoldsLeft(f, n, X, s, step)
  BY <1>1, <1>3, <1>4, LeftTrace
<1>7. f = body(f)
  <2>1. ASSUME NEW r \in SUBSET (1..n), r # {}
        PROVE  f[r] = AfterOp(f[r \ {Max(r)}], ops, block, t, seq[Max(r)])
    <3>1. Max(r) \in 1..n
      <4>1. r \subseteq 0..n
        BY <1>1, SMT
      <4> QED
        BY <1>1, <2>1, <4>1, GreatestIs
    <3>2. f[r \ {Max(r)}] \in X
      BY <1>6 DEF FoldsLeft
    <3> QED
      BY <1>1, <1>3, <1>6, <2>1, <3>1, <3>2 DEF FoldsLeft
  <2>2. f[{}] = s
    BY <1>6 DEF FoldsLeft
  <2>3. f = [r \in SUBSET (1..n) |-> f[r]]
    BY <1>6 DEF FoldsLeft
  <2>4. \A r \in SUBSET (1..n) : f[r] = body(f)[r]
    BY <1>1, <2>1, <2>2
  <2> QED
    BY <1>1, <2>3, <2>4
<1>8. fold = body(fold)
  BY <1>7, Zenon
<1> HIDE DEF fold
<1>9. fold[1..0] = s
  BY <1>1, <1>8
<1>10. ASSUME NEW i \in Nat, i + 1 <= n
       PROVE  fold[1..(i + 1)] = AfterOp(fold[1..i], ops, block, t, i + 1)
  <2>1. Max(1..(i + 1)) = i + 1 /\ (1..(i + 1)) \ {i + 1} = 1..i /\ 1..(i + 1) # {}
    BY MaxOfPrefix, SMT
  <2>2. 1..(i + 1) \in SUBSET (1..n) /\ i + 1 \in 1..n
    BY <1>1, <1>10, SMT
  <2>3. fold[1..(i + 1)] = body(fold)[1..(i + 1)]
    BY <1>8
  <2> QED
    BY <1>1, <2>1, <2>2, <2>3
<1> DEFINE F == [i \in 0..n |-> fold[1..i]]
           T == {i \in Nat : i <= n => fold[1..i] \in X}
<1>11. \A i \in Nat : i \in T
  <2>1. 0 \in T
    BY <1>4, <1>9
  <2>2. ASSUME NEW i \in T PROVE i + 1 \in T
    <3> SUFFICES ASSUME i + 1 <= n PROVE fold[1..(i + 1)] \in X
      OBVIOUS
    <3>1. i \in Nat /\ i <= n /\ i + 1 \in 1..n
      BY <1>1, SMT
    <3>2. fold[1..i] \in X
      BY <2>2, <3>1
    <3> QED
      BY <1>3, <1>10, <3>1, <3>2
  <2>3. T \in SUBSET Nat
    OBVIOUS
  <2> QED
    BY <2>1, <2>2, <2>3, Induction
<1>12. Execute(s, ops, block, t) = fold[1..n]
  BY <1>1, <1>2
<1>13. Execute(s, ops, block, t) \in X
  BY <1>1, <1>11, <1>12
<1>14. ASSUME Execute(s, ops, block, t) # Rejected
       PROVE  \E g : Trace(g, s, ops, block, t)
  <2> DEFINE D == {d \in Nat : d <= n => fold[1..(n - d)] # Rejected}
  <2>1. 0 \in D
    BY <1>1, <1>12, <1>14
  <2>2. ASSUME NEW d \in D PROVE d + 1 \in D
    <3> SUFFICES ASSUME d + 1 <= n, fold[1..(n - (d + 1))] = Rejected PROVE FALSE
      OBVIOUS
    <3>1. n - (d + 1) \in Nat /\ (n - (d + 1)) + 1 = n - d /\ n - d <= n /\ d <= n
      BY <1>1, SMT
    <3>2. fold[1..(n - d)] = AfterOp(fold[1..(n - (d + 1))], ops, block, t, n - d)
      BY <1>10, <3>1
    <3> QED
      BY <2>2, <3>1, <3>2 DEF AfterOp
  <2>3. \A d \in Nat : d \in D
    <3>1. D \in SUBSET Nat
      OBVIOUS
    <3> QED
      BY <2>1, <2>2, <3>1, Induction
  <2>4. ASSUME NEW i \in 0..n PROVE fold[1..i] \in States
    <3>1. n - i \in Nat /\ n - i <= n /\ n - (n - i) = i /\ i \in Nat /\ i <= n
      BY <1>1, SMT
    <3>2. fold[1..i] # Rejected
      <4>1. n - i \in D
        BY <2>3, <3>1
      <4> QED
        BY <3>1, <4>1
    <3>3. fold[1..i] \in X
      BY <1>11, <3>1
    <3> QED
      BY <3>2, <3>3 DEF X
  <2>5. F \in [0..n -> States]
    BY <2>4
  <2>6. F[0] = s /\ F[n] = Execute(s, ops, block, t)
    BY <1>1, <1>9, <1>12
  <2>7. ASSUME NEW i \in 1..n
        PROVE  /\ Engine(F[i - 1][ops[i].key], ops[i], block, <<block, t, i>>) # Rejected
               /\ F[i] = [F[i - 1] EXCEPT ![ops[i].key] =
                    Engine(F[i - 1][ops[i].key], ops[i], block, <<block, t, i>>)]
    <3>1. i - 1 \in Nat /\ (i - 1) + 1 = i /\ i <= n /\ i - 1 \in 0..n /\ i \in 0..n
      BY <1>1, SMT
    <3>2. F[i] = AfterOp(F[i - 1], ops, block, t, i)
      <4>1. fold[1..((i - 1) + 1)] = AfterOp(fold[1..(i - 1)], ops, block, t, (i - 1) + 1)
        BY <1>10, <3>1
      <4> QED
        BY <3>1, <4>1
    <3>3. F[i] # Rejected /\ F[i - 1] # Rejected
      BY <1>5, <2>5, <3>1
    <3> HIDE DEF F
    <3> QED
      BY <3>2, <3>3 DEF AfterOp
  <2> HIDE DEF F
  <2>8. Trace(F, s, ops, block, t)
    BY <2>5, <2>6, <2>7 DEF Trace, n
  <2> QED
    BY <2>8
<1> QED
  BY <1>13, <1>14 DEF X

-----------------------------------------------------------------------------
(* The invariant. *)

Transaction == [block : Nat, ok : BOOLEAN, ops : Contents, logs : Seq(Event)]

\* Each transaction is a block of its own and made of the block before it what it should.
Mined(t) ==
  /\ txs[t].block = t
  /\ txs[t].logs = << >> \/ txs[t].logs = Events(txs[t].ops, t)
  /\ node[t] = IF txs[t].ok THEN Execute(node[t - 1], txs[t].ops, t, t) ELSE node[t - 1]

\* The state and the versions of a key at the genesis.
Born(k) == IF Genesis[k] = None THEN None ELSE Entity(Genesis[k])
Base(k) == IF Genesis[k] = None THEN << >> ELSE <<Genesis[k]>>

ChainInv ==
  /\ head \in 0..MaxBlock /\ txs \in Seq(Transaction) /\ Len(txs) = head
  /\ node \in [0..head -> States] /\ node[0] = [k \in Keys |-> Born(k)]
  /\ \A t \in 1..head : Mined(t)

\* The states of a key, block by block.
Past(k) == [b \in 0..head |-> node[b][k]]

\* The blocks up to b in which a key was operated on.
Moved(k, b) ==
  {t \in 1..b : txs[t].ok /\ \E i \in DOMAIN txs[t].ops : txs[t].ops[i].key = k}

\* Versions begin in the blocks of M and end before the next one begins.
Dated(W, M) ==
  /\ \A i, j \in 1..Len(W) : i < j => W[i].from <= W[j].from /\ W[i].to <= W[j].from
  /\ \A i \in 1..Len(W) : W[i].from \in M \cup {0}
  /\ \A m \in M : \E i \in 1..Len(W) : W[i].from = m

\* The versions of a key are right up to block b.
Indexed(k, b) ==
  /\ Tracks(versions[k], Base(k), Past(k), node[b][k], b, b)
  /\ Dated(versions[k], Moved(k, b))

IndexInv ==
  /\ projected \in 0..head /\ versions \in [Keys -> Seq(Version)]
  /\ \A k \in Keys : Indexed(k, projected)

ClientInv ==
  /\ call # None => call.block \in 0..projected
  /\ cursor # None => cursor.block \in 0..projected
  /\ walk # None => "block" \in DOMAIN walk /\ walk.block \in 0..projected
  /\ asOf \in (0..head) \cup {None}

IInv == ChainInv /\ IndexInv /\ ClientInv

\* No two entities were created in one place, and none in a later block.
Distinct(s) ==
  \A k, l \in Keys :
    k # l /\ s[k] \in State /\ s[l] \in State => s[k].created # s[l].created
Old(s, b) == \A k \in Keys : s[k] \in State => s[k].created[1] <= b

CreatedInv == \A b \in 0..head : Distinct(node[b]) /\ Old(node[b], b)

\* What a client holds goes on where the walk has come to.
GoesOn(c) ==
  /\ walk # None /\ walk.query = c.query /\ walk.block = c.block
  /\ walk.seen # << >> /\ walk.seen[Len(walk.seen)].created = c.after

\* The entities of a walk that are seen, and those that are still to come.
Seen(e) == \E i \in DOMAIN walk.seen : walk.seen[i] = e
ToCome(e) ==
  /\ call # None \/ cursor # None
  /\ walk.seen # << >> /\ Earlier(walk.seen[Len(walk.seen)].created, e.created)

WalkInv ==
  /\ call # None => call \in Call /\ IF call.after = None THEN walk = None ELSE GoesOn(call)
  /\ cursor # None => cursor \in Cursor /\ GoesOn(cursor)
  /\ walk # None => walk \in Walk
  /\ NothingLeaks
  /\ walk # None /\ walk.pinned => \A e \in Listed(walk.query, walk.block) : Seen(e) \/ ToCome(e)

\* The version shown is of the last block, up to the head read, that touched its key.
ShownInv ==
  /\ asOf # None => asOf \in 0..projected
  /\ shown # None =>
       /\ shown.key \in Keys /\ shown.asOf \in 0..head /\ shown.version.from \in Nat
       /\ \A t \in Moved(shown.key, shown.asOf) : t <= shown.version.from

ReaderInv == CreatedInv /\ WalkInv /\ ShownInv

LEMMA TransactionIs ==
  ASSUME ReadsAssumption, ChainInv, NEW t \in 1..head
  PROVE  /\ txs[t] \in Transaction /\ txs[t].ops \in Seq(Operation) /\ Mined(t)
         /\ t \in Nat /\ t - 1 \in 0..head /\ t \in 0..head /\ t - 1 \in Nat /\ (t - 1) + 1 = t
         /\ node[t - 1] \in States /\ node[t] \in States
<1>1. head \in Nat /\ t \in Nat /\ t - 1 \in 0..head /\ t \in 0..head /\ t - 1 \in Nat /\ (t - 1) + 1 = t
  <2>1. head \in Nat
    BY SMT DEF ChainInv
  <2> QED
    BY <2>1, SMT
<1>2. txs[t] \in Transaction
  BY <1>1 DEF ChainInv
<1>3. txs[t].ops \in Seq(Operation)
  BY <1>2 DEF Transaction, ReadsAssumption
<1> QED
  BY <1>1, <1>2, <1>3 DEF ChainInv

LEMMA RowIs ==
  ASSUME ReadsAssumption, ChainInv, NEW t \in 1..head, NEW i \in DOMAIN txs[t].ops
  PROVE  LET r == Row(txs, t, i)
         IN  /\ RowOK(r) /\ r.op = txs[t].ops[i] /\ r.block = t /\ r.at = <<t, t, i>>
             /\ resolveExpiry(r) = resolveRequestedExpiry(t, r.op.expires, r.op.lifetime)
<1> DEFINE r == Row(txs, t, i)
<1>1. txs[t].ops \in Seq(Operation) /\ Mined(t) /\ t \in Nat
  BY TransactionIs
<1>2. txs[t].ops[i] \in Operation /\ i \in Nat
  BY <1>1
<1>3. r.op = txs[t].ops[i] /\ r.block = t /\ r.at = <<t, t, i>> /\ r.event = attachEvents(txs[t], i)
  BY <1>1 DEF Row, Mined
<1> HIDE DEF r
<1>4. resolveExpiry(r) = resolveRequestedExpiry(t, txs[t].ops[i].expires, txs[t].ops[i].lifetime)
  BY <1>1, <1>3, RowExpiry DEF Mined
<1>5. txs[t].ops[i].expires \in Nat /\ txs[t].ops[i].lifetime \in Nat
  BY <1>2 DEF Operation
<1>6. resolveExpiry(r) \in Expiries
  BY <1>1, <1>4, <1>5, ExpiryIs
<1>7. <<t, t, i>> \in Places
  BY <1>1, <1>2 DEF Places
<1>8. RowOK(r)
  BY <1>1, <1>2, <1>3, <1>6, <1>7 DEF RowOK
<1> QED
  BY <1>3, <1>4, <1>8 DEF r

\* What is loaded of a key.
LEMMA RowsAre ==
  ASSUME ReadsAssumption, ChainInv, NEW k \in Keys, NEW n \in 0..head
  PROVE  LET R == loadEntityOps(txs, k, n)
         IN  /\ IsFiniteSet(R) /\ \A r \in R : RowOK(r)
             /\ \A r \in R : \E t \in 1..n : \E i \in DOMAIN txs[t].ops :
                  txs[t].ok /\ txs[t].ops[i].key = k /\ r = Row(txs, t, i)
             /\ \A t \in 1..n : \A i \in DOMAIN txs[t].ops :
                  txs[t].ok /\ txs[t].ops[i].key = k => Row(txs, t, i) \in R
<1> DEFINE R == loadEntityOps(txs, k, n)
           D(t) == {j \in DOMAIN txs[t].ops : txs[t].ops[j].key = k}
           B(t) == {Row(txs, t, i) : i \in D(t)}
           U == {u \in DOMAIN txs : Applied(txs[u]) /\ txs[u].block <= n}
<1>1. head \in Nat /\ DOMAIN txs = 1..head /\ n \in Nat /\ n <= head
  BY DEF ChainInv
<1>2. R = UNION {B(t) : t \in U}
  BY DEF loadEntityOps
<1>3. \A t \in 1..head : t \in U <=> txs[t].ok /\ t \in 1..n
  <2>1. \A t \in 1..head : txs[t].block = t
    BY DEF ChainInv, Mined
  <2> QED
    BY <1>1, <2>1 DEF Applied
<1>4. U \subseteq 1..head
  BY <1>1
<1>5. \A t \in 1..n : t \in 1..head
  BY <1>1, SMT
<1>6. ASSUME NEW t \in U PROVE IsFiniteSet(B(t))
  <2>1. txs[t].ops \in Seq(Operation)
    BY <1>4, TransactionIs
  <2>2. Len(txs[t].ops) \in Nat /\ DOMAIN txs[t].ops = 1..Len(txs[t].ops)
    BY <2>1
  <2>3. IsFiniteSet(1..Len(txs[t].ops))
    BY <2>2, FS_Interval
  <2>4. IsFiniteSet(D(t))
    BY <2>2, <2>3, FS_Subset
  <2> DEFINE g == [i \in D(t) |-> Row(txs, t, i)]
  <2>5. g \in Surjection(D(t), B(t))
    BY DEF Surjection
  <2> HIDE DEF D, B
  <2> QED
    BY <2>4, <2>5, FS_Surjection
<1>7. IsFiniteSet({B(t) : t \in U})
  <2>1. IsFiniteSet(U)
    <3>1. IsFiniteSet(1..head)
      BY <1>1, FS_Interval
    <3> QED
      BY <1>4, <3>1, FS_Subset
  <2> HIDE DEF U, B
  <2> DEFINE g == [t \in U |-> B(t)]
             F == {B(t) : t \in U}
  <2>2. g \in Surjection(U, F)
    BY DEF Surjection
  <2> HIDE DEF F, g
  <2>3. IsFiniteSet(F)
    BY <2>1, <2>2, FS_Surjection
  <2> QED
    BY <2>3 DEF F
<1>8. IsFiniteSet(R)
  <2> HIDE DEF U, B, R
  <2>1. \A b \in {B(t) : t \in U} : IsFiniteSet(b)
    BY <1>6
  <2> QED
    BY <1>2, <1>7, <2>1, FS_UNION
<1>9. ASSUME NEW r \in R
      PROVE  \E t \in 1..n : \E i \in DOMAIN txs[t].ops :
               txs[t].ok /\ txs[t].ops[i].key = k /\ r = Row(txs, t, i)
  BY <1>2, <1>3, <1>4
<1>10. ASSUME NEW t \in 1..n, NEW i \in DOMAIN txs[t].ops, txs[t].ok, txs[t].ops[i].key = k
       PROVE  Row(txs, t, i) \in R
  BY <1>2, <1>3, <1>5, <1>10
<1> HIDE DEF R
<1>11. \A r \in R : RowOK(r)
  BY <1>5, <1>9, RowIs
<1> QED
  BY <1>8, <1>9, <1>10, <1>11 DEF R

-----------------------------------------------------------------------------
(* Block by block. *)

\* What was right at a block is right while the next one is replayed.
LEMMA TracksBegins ==
  ASSUME NEW W, NEW base, NEW past, NEW e, NEW b \in Nat, Tracks(W, base, past, e, b, b)
  PROVE  Tracks(W, base, past, e, b, b + 1)
<1>1. \A x \in 0..b : x \in 0..(b + 1)
  BY SMT
<1> QED
  BY <1>1, Zenon DEF Tracks

\* When all of a block is replayed, the last version is the one that covers it.
LEMMA TracksEnds ==
  ASSUME ReadsAssumption, NEW W, NEW base, NEW past, NEW e, NEW b \in Nat,
         Tracks(W, base, past, e, b, b + 1), past[b + 1] = e
  PROVE  Tracks(W, base, past, e, b + 1, b + 1)
<1> DEFINE n == Len(W)
<1>1. W \in Seq(Version) /\ n \in Nat
  BY DEF Tracks
<1>2. \A i \in 1..n :
        W[i].from \in 0..(b + 1) /\ IF i = n THEN W[i].to = None ELSE W[i].to \in 0..(b + 1)
  BY DEF Tracks
<1>3. ASSUME NEW i \in 1..n, Covers(W[i], b + 1) PROVE Shows(W[i], past[b + 1])
  <2>1. CASE i = n
    <3>1. W # << >>
      BY <1>1, <2>1
    <3> QED
      BY <2>1, <3>1 DEF Tracks
  <2>2. CASE i # n
    <3>1. W[i].to \in 0..(b + 1)
      BY <1>2, <2>2
    <3>2. W[i].to # None /\ ~(W[i].to > b + 1)
      BY <3>1, ConstantsDiffer
    <3> QED
      BY <1>3, <3>2 DEF Covers
  <2> QED
    BY <2>1, <2>2
<1>4. ASSUME past[b + 1] # None PROVE \E i \in 1..n : Covers(W[i], b + 1)
  <2>1. W # << >>
    BY <1>4 DEF Tracks
  <2>2. n \in 1..n
    BY <1>1, <2>1
  <2>3. Covers(W[n], b + 1)
    BY <1>2, <2>2, SMT DEF Covers
  <2> QED
    BY <2>2, <2>3
<1>5. \A h \in 0..(b + 1) : h \in 0..b \/ h = b + 1
  BY SMT
<1> HIDE DEF n
<1>6. \A h \in 0..(b + 1) :
        /\ \A i \in 1..n : Covers(W[i], h) => Shows(W[i], past[h])
        /\ past[h] # None => \E i \in 1..n : Covers(W[i], h)
  <2>1. \A h \in 0..b :
          /\ \A i \in 1..n : Covers(W[i], h) => Shows(W[i], past[h])
          /\ past[h] # None => \E i \in 1..n : Covers(W[i], h)
    BY DEF Tracks, n
  <2> QED
    BY <1>3, <1>4, <1>5, <2>1
<1> QED
  BY <1>2, <1>6 DEF Tracks, n

\* A block that does not touch the key.
LEMMA TracksOn ==
  ASSUME ReadsAssumption, NEW W, NEW base, NEW past, NEW e, NEW b \in Nat,
         Tracks(W, base, past, e, b, b), past[b + 1] = e
  PROVE  Tracks(W, base, past, e, b + 1, b + 1)
  BY TracksBegins, TracksEnds

\* The genesis.
LEMMA BaseTracks ==
  ASSUME ReadsAssumption, NEW k \in Keys, NEW past, past[0] = Born(k)
  PROVE  Tracks(Base(k), Base(k), past, Born(k), 0, 0)
<1>1. \A h \in 0..0 : h = 0
  BY SMT
<1>2. CASE Genesis[k] = None
  <2>1. Base(k) = << >> /\ Born(k) = None
    BY <1>2 DEF Base, Born
  <2>2. GenesisBase(<< >>) = << >> /\ << >> \in Seq(Version) /\ Len(<< >>) = 0
    BY DEF GenesisBase
  <2>3. \A i \in 1..0 : FALSE
    BY SMT
  <2> QED
    BY <1>1, <2>1, <2>2, <2>3 DEF Tracks
<1>3. CASE Genesis[k] # None
  <2> DEFINE v == Genesis[k]
             N == <<v>>
  <2>1. v \in Version /\ v.from = 0 /\ v.to = None /\ ~v.deleted
    BY <1>3 DEF ReadsAssumption
  <2>2. Entity(v) \in State
    BY <2>1 DEF Version, Entity, State
  <2>3. Base(k) = N /\ Born(k) = Entity(v) /\ Born(k) # None
    BY <1>3, <2>2, ConstantsDiffer DEF Base, Born
  <2> HIDE DEF v
  <2>4. N \in Seq(Version) /\ Len(N) = 1 /\ N[1] = v /\ N # << >> /\ Head(N) = v
    BY <2>1
  <2>5. [v EXCEPT !.to = None] = v
    BY <2>1 DEF Version
  <2>6. GenesisBase(N) = N
    BY <2>1, <2>4, <2>5 DEF GenesisBase
  <2> HIDE DEF N
  <2>7. Shows(v, Born(k)) /\ Covers(v, 0)
    BY <2>1, <2>3, SMT DEF Shows, Covers
  <2>8. \A i \in 1..1 : i = 1
    BY SMT
  <2>9. 1 \in 1..1 /\ v.from \in 0..0
    BY <2>1, SMT
  <2> QED
    BY <1>1, <2>1, <2>3, <2>4, <2>6, <2>7, <2>8, <2>9 DEF Tracks
<1> QED
  BY <1>2, <1>3

-----------------------------------------------------------------------------
(* When the versions of a key begin. *)

LEMMA PushDates ==
  ASSUME NEW W, NEW base, NEW past, NEW e, NEW b \in Nat, Tracks(W, base, past, e, b, b + 1),
         W # << >>, NEW v \in Version, v.from = b + 1, NEW M, Dated(W, M)
  PROVE  Dated(Push(W, v), M \cup {b + 1})
<1> DEFINE N == Push(W, v)
           n == Len(W)
<1>1. W \in Seq(Version)
  BY DEF Tracks
<1>2. /\ N \in Seq(Version) /\ Len(N) = n + 1 /\ n \in Nat \ {0} /\ N[n + 1] = v
      /\ N[n] = [W[n] EXCEPT !.to = b + 1] /\ \A i \in 1..(n - 1) : N[i] = W[i]
  BY <1>1, PushIs
<1>3. W[n] \in Version
  BY <1>1, <1>2
<1>4. N[n].from = W[n].from /\ N[n].to = b + 1 /\ N[n + 1].from = b + 1
  BY <1>2, <1>3 DEF Version
<1> HIDE DEF N
<1>5. /\ n \in 1..n /\ n + 1 \in 1..(n + 1)
      /\ \A i \in 1..(n - 1) : i \in 1..n /\ i < n /\ i # n
      /\ \A i \in 1..n : (i \in 1..(n - 1) \/ i = n) /\ i \in 1..(n + 1) /\ i # n + 1
      /\ \A i \in 1..(n + 1) : i \in 1..n \/ i = n + 1
      /\ \A i, j \in 1..(n + 1) : i < j => i \in 1..n /\ (j \in 1..n => i \in 1..(n - 1))
  BY <1>2, SMT
<1>6. /\ \A i \in 1..n : W[i].from \in 0..(b + 1)
      /\ \A i \in 1..(n - 1) : W[i].to \in 0..(b + 1)
  BY <1>5 DEF Tracks
<1>7. \A i \in 1..n : N[i].from = W[i].from
  BY <1>2, <1>4, <1>5
<1>8. ASSUME NEW i \in 1..(n + 1), NEW j \in 1..(n + 1), i < j
      PROVE  N[i].from <= N[j].from /\ N[i].to <= N[j].from
  <2>1. CASE j \in 1..n
    <3>1. i \in 1..n /\ i \in 1..(n - 1)
      BY <1>5, <1>8, <2>1
    <3>2. W[i].from <= W[j].from /\ W[i].to <= W[j].from
      BY <1>8, <2>1, <3>1 DEF Dated
    <3> QED
      BY <1>2, <1>7, <2>1, <3>1, <3>2
  <2>2. CASE j = n + 1 /\ i = n
    BY <1>4, <1>5, <1>6, <2>2, SMT
  <2>3. CASE j = n + 1 /\ i \in 1..(n - 1)
    <3>1. N[i] = W[i] /\ W[i].from \in 0..(b + 1) /\ W[i].to \in 0..(b + 1)
      BY <1>2, <1>5, <1>6, <2>3
    <3> QED
      BY <1>4, <2>3, <3>1, SMT
  <2> QED
    BY <1>5, <1>8, <2>1, <2>2, <2>3
<1>9. \A i \in 1..(n + 1) : N[i].from \in (M \cup {b + 1}) \cup {0}
  BY <1>4, <1>5, <1>7 DEF Dated
<1>10. \A m \in M \cup {b + 1} : \E i \in 1..(n + 1) : N[i].from = m
  BY <1>4, <1>5, <1>7 DEF Dated
<1> QED
  BY <1>2, <1>8, <1>9, <1>10 DEF Dated, N

\* An operation that the engine applied begins a version in its block.
LEMMA ReplayDates ==
  ASSUME ReadsAssumption, NEW W, NEW base, NEW past, NEW e \in Entities, NEW b \in Nat,
         Tracks(W, base, past, e, b, b + 1), NEW M, Dated(W, M),
         NEW r, RowOK(r), r.block = b + 1, Engine(e, r.op, b + 1, r.at) # Rejected
  PROVE  Dated(Replay(W, r), M \cup {b + 1})
<1>1. r.op \in Operation /\ r.at \in Places /\ b + 1 \in Nat
  BY DEF RowOK
<1>2. W \in Seq(Version) /\ (W = << >> <=> e = None)
  BY DEF Tracks
<1>3. CASE r.op.kind = "create"
  <2>1. e = None
    BY <1>1, <1>3, CreatedIs
  <2> DEFINE v == FirstVersion(r)
  <2>2. v.from = b + 1
    BY FirstVersionIs
  <2>3. W = << >> /\ Replay(W, r) = <<v>>
    BY <1>2, <1>3, <2>1 DEF Replay
  <2> HIDE DEF v
  <2>4. M = {}
    <3>1. \A i \in 1..0 : FALSE
      BY SMT
    <3> QED
      BY <2>3, <3>1 DEF Dated
  <2>5. \A i \in 1..1 : i = 1
    BY SMT
  <2>6. 1 \in 1..1 /\ Len(<<v>>) = 1 /\ <<v>>[1] = v /\ ~(1 < 1)
    BY SMT
  <2> DEFINE N == <<v>>
  <2> HIDE DEF N
  <2>7. Dated(N, M \cup {b + 1})
    BY <2>2, <2>4, <2>5, <2>6 DEF Dated, N
  <2> QED
    BY <2>3, <2>7 DEF N
<1>4. CASE r.op.kind # "create"
  <2> DEFINE v == W[Len(W)]
             w == NextVersion(v, r)
  <2>1. e \in State
    BY <1>1, <1>4, ChangedIs
  <2>2. W # << >>
    BY <1>2, <2>1, ConstantsDiffer
  <2>3. v \in Version /\ Shows(v, e)
    BY <1>2, <2>2 DEF Tracks
  <2>4. ~v.deleted
    BY <2>1, <2>3, ConstantsDiffer DEF Shows
  <2>5. Replay(W, r) = Push(W, w)
    BY <1>4, <2>2, <2>4 DEF Replay, Last
  <2>6. w \in Version /\ w.from = b + 1
    BY <1>4, <2>3, NextVersionIs
  <2> HIDE DEF v, w
  <2>7. Dated(Push(W, w), M \cup {b + 1})
    BY <2>2, <2>6, PushDates
  <2> QED
    BY <2>5, <2>7
<1> QED
  BY <1>3, <1>4

LEMMA BaseDates ==
  ASSUME ReadsAssumption, NEW k \in Keys
  PROVE  Dated(Base(k), {})
<1>1. CASE Genesis[k] = None
  <2>1. Base(k) = << >> /\ Len(<< >>) = 0 /\ \A i \in 1..0 : FALSE
    BY <1>1, SMT DEF Base
  <2> QED
    BY <2>1 DEF Dated
<1>2. CASE Genesis[k] # None
  <2> DEFINE N == <<Genesis[k]>>
  <2>1. Base(k) = N /\ Len(N) = 1 /\ N[1] = Genesis[k] /\ Genesis[k].from = 0
    BY <1>2 DEF Base, ReadsAssumption
  <2>2. \A i \in 1..1 : i = 1 /\ ~(i < 1)
    BY SMT
  <2> HIDE DEF N
  <2> QED
    BY <2>1, <2>2 DEF Dated
<1> QED
  BY <1>1, <1>2

-----------------------------------------------------------------------------
(* A key that is folded anew. *)

\* The fold of all that is known of a key makes its versions right up to block n.
LEMMA RefoldTracks ==
  ASSUME ReadsAssumption,
         ChainInv, NEW k \in Keys, NEW n \in 0..head, NEW V, GenesisBase(V) = Base(k)
  PROVE  /\ Tracks(refold(txs, k, n, V), Base(k), Past(k), node[n][k], n, n)
         /\ Dated(refold(txs, k, n, V), Moved(k, n))
<1> DEFINE R == loadEntityOps(txs, k, n)
           Upto(t, i) == {r \in R : r.at[2] < t \/ (r.at[2] = t /\ r.at[3] <= i)}
           End(t) == {r \in R : r.at[2] <= t}
<1>1. head \in Nat /\ n \in Nat /\ n <= head /\ (\A t \in 1..n : t \in 1..head)
  <2>1. head \in Nat
    BY DEF ChainInv
  <2> QED
    BY <2>1, SMT
<1>2. /\ IsFiniteSet(R) /\ \A r \in R : RowOK(r)
      /\ \A r \in R : \E t \in 1..n : \E i \in DOMAIN txs[t].ops :
           txs[t].ok /\ txs[t].ops[i].key = k /\ r = Row(txs, t, i)
      /\ \A t \in 1..n : \A i \in DOMAIN txs[t].ops :
           txs[t].ok /\ txs[t].ops[i].key = k => Row(txs, t, i) \in R
  BY RowsAre
<1>3. \A t \in 1..n : \A i \in DOMAIN txs[t].ops : Row(txs, t, i).at = <<t, t, i>> /\ i \in Nat /\ i >= 1
  <2>1. ASSUME NEW t \in 1..n, NEW i \in DOMAIN txs[t].ops
        PROVE  Row(txs, t, i).at = <<t, t, i>> /\ i \in Nat /\ i >= 1
    <3>1. txs[t].ops \in Seq(Operation)
      BY <1>1, TransactionIs
    <3>2. i \in Nat /\ i >= 1
      BY <3>1
    <3> QED
      BY <1>1, <3>2, RowIs
  <2> QED
    BY <2>1
<1>4. ASSUME NEW r \in R
      PROVE  \E t \in 1..n : \E i \in DOMAIN txs[t].ops :
               /\ txs[t].ok /\ txs[t].ops[i].key = k /\ r = Row(txs, t, i)
               /\ r.at = <<t, t, i>> /\ i \in Nat /\ i >= 1 /\ t \in Nat /\ t >= 1 /\ t <= n
  BY <1>1, <1>2, <1>3
<1> HIDE DEF R
<1>5. Base(k) \in Seq(Version) /\ node[0][k] = Born(k) /\ Past(k)[0] = Born(k)
  <2>1. node[0][k] = Born(k) /\ Past(k)[0] = Born(k)
    BY <1>1 DEF ChainInv, Past
  <2>2. Tracks(Base(k), Base(k), Past(k), Born(k), 0, 0)
    BY <2>1, BaseTracks
  <2> QED
    BY <2>1, <2>2 DEF Tracks
<1>6. PICK f : FoldOf(f, R, Base(k))
  BY <1>2, <1>5, FoldIs
<1>7. ASSUME NEW t \in 1..n, NEW i \in Nat, i >= 1, Row(txs, t, i) \in R
      PROVE  f[Upto(t, i)] = Replay(f[Upto(t, i - 1)], Row(txs, t, i))
  <2> DEFINE s == Upto(t, i)
             r == Row(txs, t, i)
  <2>1. PICK t0 \in 1..n : \E i0 \in DOMAIN txs[t0].ops :
          r = Row(txs, t0, i0) /\ r.at = <<t0, t0, i0>> /\ i0 \in Nat /\ t0 \in Nat
    BY <1>4, <1>7
  <2>2. r.at = <<t, t, i>>
    <3>1. txs[t].block = t
      BY <1>1, TransactionIs DEF Mined
    <3> QED
      BY <3>1 DEF Row
  <2>3. r \in s /\ s \in SUBSET R
    BY <1>7, <2>2
  <2>4. /\ Latest(s) \in s /\ \A q \in s : ~Earlier(Latest(s).at, q.at)
        /\ f[s] = Replay(f[s \ {Latest(s)}], Latest(s))
    BY <1>6, <2>3 DEF FoldOf
  <2>5. ASSUME NEW q \in s, q # r PROVE Earlier(q.at, r.at)
    <3>1. PICK u \in 1..n : \E j \in DOMAIN txs[u].ops :
            q = Row(txs, u, j) /\ q.at = <<u, u, j>> /\ j \in Nat /\ u \in Nat
      BY <1>4, <2>5
    <3>2. PICK j \in DOMAIN txs[u].ops :
            q = Row(txs, u, j) /\ q.at = <<u, u, j>> /\ j \in Nat /\ u \in Nat
      BY <3>1
    <3>3. u < t \/ (u = t /\ j <= i)
      BY <2>5, <3>2
    <3>4. ~(u = t /\ j = i)
      BY <2>5, <3>2
    <3>5. u < t \/ (u = t /\ j < i)
      BY <1>7, <3>2, <3>3, <3>4, SMT
    <3> QED
      BY <2>2, <3>2, <3>5 DEF Earlier
  <2>6. Latest(s) = r
    BY <2>3, <2>4, <2>5
  <2>7. s \ {r} = Upto(t, i - 1)
    <3>1. ASSUME NEW q \in s, q # r PROVE q \in Upto(t, i - 1)
      <4>1. q \in R /\ Earlier(q.at, r.at)
        BY <2>5, <3>1
      <4>2. PICK u \in 1..n : \E j \in DOMAIN txs[u].ops :
              q.at = <<u, u, j>> /\ j \in Nat /\ u \in Nat
        BY <1>4, <4>1
      <4>3. PICK j \in DOMAIN txs[u].ops : q.at = <<u, u, j>> /\ j \in Nat /\ u \in Nat
        BY <4>2
      <4>4. u < t \/ (u = t /\ j < i)
        BY <2>2, <4>1, <4>3 DEF Earlier
      <4>5. u < t \/ (u = t /\ j <= i - 1)
        BY <1>7, <4>3, <4>4, SMT
      <4> QED
        BY <4>1, <4>3, <4>5
    <3>2. ASSUME NEW q \in Upto(t, i - 1) PROVE q \in s /\ q # r
      <4>1. q \in R
        OBVIOUS
      <4>2. PICK u \in 1..n : \E j \in DOMAIN txs[u].ops :
              q.at = <<u, u, j>> /\ j \in Nat /\ u \in Nat
        BY <1>4, <4>1
      <4>3. PICK j \in DOMAIN txs[u].ops : q.at = <<u, u, j>> /\ j \in Nat /\ u \in Nat
        BY <4>2
      <4>4. u < t \/ (u = t /\ j <= i - 1)
        BY <4>3
      <4>5. (u < t \/ (u = t /\ j <= i)) /\ ~(u = t /\ j = i)
        BY <1>7, <4>3, <4>4, SMT
      <4> QED
        BY <2>2, <4>1, <4>3, <4>5
    <3> QED
      BY <3>1, <3>2
  <2> HIDE DEF s, r
  <2>8. f[s] = Replay(f[s \ {r}], r)
    BY <2>4, <2>6
  <2> QED
    BY <2>7, <2>8 DEF s, r
<1>8. ASSUME NEW t \in 1..n, NEW i \in DOMAIN txs[t].ops
      PROVE  Row(txs, t, i) \in R <=> txs[t].ok /\ txs[t].ops[i].key = k
  <2>1. ASSUME Row(txs, t, i) \in R PROVE txs[t].ok /\ txs[t].ops[i].key = k
    <3>1. PICK u \in 1..n : \E j \in DOMAIN txs[u].ops :
            txs[u].ok /\ txs[u].ops[j].key = k /\ Row(txs, t, i).at = <<u, u, j>>
      BY <1>4, <2>1
    <3>2. PICK j \in DOMAIN txs[u].ops :
            txs[u].ok /\ txs[u].ops[j].key = k /\ Row(txs, t, i).at = <<u, u, j>>
      BY <3>1
    <3>3. Row(txs, t, i).at = <<t, t, i>>
      BY <1>3
    <3>4. u = t /\ j = i
      BY <3>2, <3>3
    <3> QED
      BY <3>2, <3>4
  <2> QED
    BY <1>2, <2>1
<1>9. ASSUME NEW t \in 1..n, NEW i \in Nat, i >= 1,
             i \notin DOMAIN txs[t].ops \/ Row(txs, t, i) \notin R
      PROVE  Upto(t, i) = Upto(t, i - 1)
  <2>1. ASSUME NEW q \in R
        PROVE  q \in Upto(t, i) <=> q \in Upto(t, i - 1)
    <3>1. PICK u \in 1..n : \E j \in DOMAIN txs[u].ops :
            q = Row(txs, u, j) /\ q.at = <<u, u, j>> /\ j \in Nat /\ u \in Nat
      BY <1>4, <2>1
    <3>2. PICK j \in DOMAIN txs[u].ops :
            q = Row(txs, u, j) /\ q.at = <<u, u, j>> /\ j \in Nat /\ u \in Nat
      BY <3>1
    <3>3. ~(u = t /\ j = i)
      BY <1>9, <2>1, <3>2
    <3>4. u < t \/ (u = t /\ j <= i) <=> u < t \/ (u = t /\ j <= i - 1)
      BY <1>9, <3>2, <3>3, SMT
    <3> QED
      BY <2>1, <3>2, <3>4
  <2> QED
    BY <2>1
<1>10. ASSUME NEW b \in Nat, b + 1 <= n
       PROVE  /\ Upto(b + 1, 0) = End(b)
              /\ Upto(b + 1, Len(txs[b + 1].ops)) = End(b + 1)
              /\ ~txs[b + 1].ok => End(b + 1) = End(b)
  <2> DEFINE t == b + 1
             m == Len(txs[b + 1].ops)
  <2>0. t \in 1..n
    BY <1>1, <1>10, SMT
  <2>1. txs[t].ops \in Seq(Operation)
    BY <1>1, <2>0, TransactionIs
  <2>2. m \in Nat /\ DOMAIN txs[t].ops = 1..m
    BY <2>1
  <2>3. ASSUME NEW q \in R
        PROVE  /\ q \in Upto(t, 0) <=> q \in End(b)
               /\ q \in Upto(t, m) <=> q \in End(t)
               /\ ~txs[t].ok => (q \in End(t) <=> q \in End(b))
    <3>1. PICK u \in 1..n : \E j \in DOMAIN txs[u].ops :
            txs[u].ok /\ q.at = <<u, u, j>> /\ j \in Nat /\ u \in Nat /\ j >= 1
      BY <1>4, <2>3
    <3>2. PICK j \in DOMAIN txs[u].ops :
            txs[u].ok /\ q.at = <<u, u, j>> /\ j \in Nat /\ u \in Nat /\ j >= 1
      BY <3>1
    <3>3. u = t => j <= m
      BY <2>2, <3>2
    <3>4. ~txs[t].ok => u # t
      BY <3>2
    <3> HIDE DEF m
    <3>5. /\ u < t \/ (u = t /\ j <= 0) <=> u <= b
          /\ u < t \/ (u = t /\ j <= m) <=> u <= t
          /\ u # t => (u <= t <=> u <= b)
      BY <2>2, <3>2, <3>3, SMT
    <3> QED
      BY <2>3, <3>2, <3>4, <3>5
  <2> QED
    BY <2>3
<1> HIDE DEF Upto, End
<1> DEFINE Right(b) == /\ Tracks(f[End(b)], Base(k), Past(k), node[b][k], b, b)
                       /\ Dated(f[End(b)], Moved(k, b))
           T == {b \in Nat : b <= n => Right(b)}
<1>11. 0 \in T
  <2>1. End(0) = {}
    BY <1>4 DEF End
  <2>2. f[End(0)] = Base(k)
    BY <1>6, <2>1 DEF FoldOf
  <2>3. Tracks(Base(k), Base(k), Past(k), Born(k), 0, 0) /\ Dated(Base(k), {})
    BY <1>5, BaseTracks, BaseDates
  <2>4. Moved(k, 0) = {}
    <3>1. \A t \in 1..0 : FALSE
      BY SMT
    <3> QED
      BY <3>1 DEF Moved
  <2> QED
    BY <1>5, <2>2, <2>3, <2>4
<1>12. ASSUME NEW b \in T PROVE b + 1 \in T
  <2> SUFFICES ASSUME b + 1 <= n PROVE Right(b + 1)
    OBVIOUS
  <2> DEFINE t == b + 1
             ops == txs[t].ops
             m == Len(ops)
  <2>1. b \in Nat /\ b <= n /\ t \in 1..n /\ t \in 1..head /\ t - 1 = b /\ t \in 0..head
    BY <1>1, SMT
  <2>2. Right(b)
    BY <1>12, <2>1
  <2>3. /\ txs[t] \in Transaction /\ ops \in Seq(Operation) /\ Mined(t)
        /\ node[b] \in States /\ node[t] \in States
    BY <2>1, TransactionIs
  <2>4. Past(k)[t] = node[t][k]
    BY <2>1 DEF Past
  <2>5. Upto(t, 0) = End(b) /\ Upto(t, m) = End(t) /\ (~txs[t].ok => End(t) = End(b))
    BY <1>10, <2>1
  <2>6. CASE ~txs[t].ok
    <3>1. node[t] = node[b]
      BY <2>1, <2>3, <2>6 DEF Mined
    <3>2. Moved(k, t) = Moved(k, b)
      <4>1. \A u \in 1..t : u \in 1..b \/ u = t
        BY <2>1, SMT
      <4>2. \A u \in 1..b : u \in 1..t
        BY <2>1, SMT
      <4> QED
        BY <2>6, <4>1, <4>2 DEF Moved
    <3> QED
      BY <2>1, <2>2, <2>4, <2>5, <2>6, <3>1, <3>2, TracksOn
  <2>7. CASE txs[t].ok
    <3>1. node[t] = Execute(node[b], ops, t, t) /\ node[t] # Rejected
      BY <2>1, <2>3, <2>7, RejectedIsNoState DEF Mined
    <3>2. m \in Nat /\ DOMAIN ops = 1..m /\ t \in Nat
      BY <2>1, <2>3
    <3>3. PICK g : Trace(g, node[b], ops, t, t)
      BY <2>3, <3>1, <3>2, ExecuteIs
    <3>30. g \in [0..m -> States] /\ g[0] = node[b] /\ g[m] = node[t]
      BY <3>1, <3>3 DEF Trace
    <3> DEFINE Begun(i) == IF \E j \in 1..i : ops[j].key = k THEN {t} ELSE {}
               Midway(i) == /\ Tracks(f[Upto(t, i)], Base(k), Past(k), g[i][k], b, b + 1)
                            /\ Dated(f[Upto(t, i)], Moved(k, b) \cup Begun(i))
               I == {i \in Nat : i <= m => Midway(i)}
    <3>4. 0 \in I
      <4>1. Moved(k, b) \cup Begun(0) = Moved(k, b)
        <5>1. \A j \in 1..0 : FALSE
          BY SMT
        <5> QED
          BY <5>1
      <4> HIDE DEF Begun
      <4> QED
        BY <2>1, <2>2, <2>5, <3>30, <4>1, TracksBegins
    <3>5. ASSUME NEW i \in I PROVE i + 1 \in I
      <4> HIDE DEF Midway
      <4> SUFFICES ASSUME i + 1 <= m PROVE Midway(i + 1)
        OBVIOUS
      <4> USE DEF Midway
      <4> DEFINE op == ops[i + 1]
                 r == Row(txs, t, i + 1)
      <4>1. /\ i \in Nat /\ i <= m /\ i + 1 \in 1..m /\ (i + 1) - 1 = i /\ i \in 0..m
            /\ i + 1 \in Nat /\ i + 1 >= 1
        BY <3>2, SMT
      <4>2. Midway(i)
        BY <3>5, <4>1
      <4>3. op \in Operation /\ op.key \in Keys /\ g[i] \in States
        <5>1. op \in Operation
          BY <2>3, <3>2, <4>1
        <5>2. g[i] \in States
          BY <3>30, <4>1
        <5> QED
          BY <5>1, <5>2 DEF Operation
      <4>4. /\ Engine(g[i][op.key], op, t, <<t, t, i + 1>>) # Rejected
            /\ g[i + 1] = [g[i] EXCEPT ![op.key] = Engine(g[i][op.key], op, t, <<t, t, i + 1>>)]
        BY <3>3, <4>1 DEF Trace
      <4>5. CASE op.key = k
        <5>1. r \in R
          BY <1>8, <2>1, <2>7, <3>2, <4>1, <4>5
        <5>2. f[Upto(t, i + 1)] = Replay(f[Upto(t, i)], r)
          BY <1>7, <2>1, <4>1, <5>1
        <5>3. /\ RowOK(r) /\ r.op = op /\ r.block = t /\ r.at = <<t, t, i + 1>>
              /\ resolveExpiry(r) = resolveRequestedExpiry(t, r.op.expires, r.op.lifetime)
          BY <2>1, <3>2, <4>1, RowIs
        <5>4. g[i][k] \in Entities
          BY <4>3 DEF States
        <5>5. g[i + 1][k] = Engine(g[i][k], r.op, b + 1, r.at)
          BY <4>3, <4>4, <4>5, <5>3 DEF States
        <5>6. Engine(g[i][k], r.op, b + 1, r.at) # Rejected
          BY <4>4, <4>5, <5>3
        <5> HIDE DEF r
        <5>7. Tracks(Replay(f[Upto(t, i)], r), Base(k), Past(k),
                     Engine(g[i][k], r.op, b + 1, r.at), b, b + 1)
          BY <2>1, <4>2, <5>3, <5>4, <5>6, ReplayTracks
        <5>8. Dated(Replay(f[Upto(t, i)], r), (Moved(k, b) \cup Begun(i)) \cup {b + 1})
          BY <2>1, <4>2, <5>3, <5>4, <5>6, ReplayDates
        <5>9. Begun(i + 1) = {t}
          BY <4>1, <4>5
        <5>10. (Moved(k, b) \cup Begun(i)) \cup {b + 1} = Moved(k, b) \cup Begun(i + 1)
          BY <5>9
        <5> HIDE DEF Begun
        <5> QED
          BY <5>2, <5>5, <5>7, <5>8, <5>10
      <4>6. CASE op.key # k
        <5>1. r \notin R
          BY <1>8, <2>1, <3>2, <4>1, <4>6
        <5>2. Upto(t, i + 1) = Upto(t, i)
          BY <1>9, <2>1, <4>1, <5>1
        <5>3. g[i + 1][k] = g[i][k]
          BY <4>3, <4>4, <4>6 DEF States
        <5>4. \A j \in 1..(i + 1) : j \in 1..i \/ j = i + 1
          BY <4>1, SMT
        <5>5. \A j \in 1..i : j \in 1..(i + 1)
          BY <4>1, SMT
        <5>6. Begun(i + 1) = Begun(i)
          BY <4>6, <5>4, <5>5
        <5> HIDE DEF Begun
        <5> QED
          BY <4>2, <5>2, <5>3, <5>6
      <4> QED
        BY <4>5, <4>6
    <3>6. \A i \in Nat : i \in I
      <4> HIDE DEF Midway
      <4>1. I \in SUBSET Nat
        OBVIOUS
      <4> QED
        BY <3>4, <3>5, <4>1, Induction
    <3>7. Midway(m)
      <4> HIDE DEF Midway
      <4> QED
        BY <3>2, <3>6
    <3>8. Moved(k, b) \cup Begun(m) = Moved(k, t)
      <4>1. \A u \in 1..t : u \in 1..b \/ u = t
        BY <2>1, SMT
      <4>2. \A u \in 1..b : u \in 1..t
        BY <2>1, SMT
      <4>3. Begun(m) = IF \E j \in DOMAIN ops : ops[j].key = k THEN {t} ELSE {}
        BY <3>2
      <4>4. t \in 1..t
        BY <2>1, SMT
      <4> HIDE DEF Begun
      <4> QED
        BY <2>7, <4>1, <4>2, <4>3, <4>4 DEF Moved
    <3> HIDE DEF Begun
    <3> QED
      BY <2>1, <2>4, <2>5, <3>30, <3>7, <3>8, TracksEnds
  <2> QED
    BY <2>6, <2>7
<1>13. \A b \in Nat : b \in T
  <2> HIDE DEF Right
  <2>1. T \in SUBSET Nat
    OBVIOUS
  <2> QED
    BY <1>11, <1>12, <2>1, Induction
<1>14. End(n) = R
  BY <1>4 DEF End
<1>15. refold(txs, k, n, V) = f[R]
  BY <1>6 DEF refold, R, FoldOf
<1> QED
  BY <1>1, <1>13, <1>14, <1>15

\* Which blocks past the one replayed were said to come does not matter.
LEMMA TracksSame ==
  ASSUME NEW W, NEW base, NEW past, NEW also, NEW e, NEW b \in Nat,
         Tracks(W, base, past, e, b, b), \A h \in 0..b : also[h] = past[h]
  PROVE  Tracks(W, base, also, e, b, b)
  BY DEF Tracks

\* A block that has no operation on a key leaves it alone.
LEMMA Untouched ==
  ASSUME ReadsAssumption, ChainInv, NEW k \in Keys, NEW t \in 1..head,
         \A i \in DOMAIN txs[t].ops : txs[t].ops[i].key # k
  PROVE  node[t][k] = node[t - 1][k]
<1> DEFINE ops == txs[t].ops
           m == Len(ops)
<1>1. /\ txs[t] \in Transaction /\ ops \in Seq(Operation) /\ Mined(t) /\ t \in Nat
      /\ node[t - 1] \in States /\ node[t] \in States
  BY TransactionIs
<1>2. CASE ~txs[t].ok
  BY <1>1, <1>2 DEF Mined
<1>3. CASE txs[t].ok
  <2>1. node[t] = Execute(node[t - 1], ops, t, t) /\ node[t] # Rejected
    BY <1>1, <1>3, RejectedIsNoState DEF Mined
  <2>2. m \in Nat /\ DOMAIN ops = 1..m
    BY <1>1
  <2>3. PICK g : Trace(g, node[t - 1], ops, t, t)
    BY <1>1, <2>1, <2>2, ExecuteIs
  <2>4. g \in [0..m -> States] /\ g[0] = node[t - 1] /\ g[m] = node[t]
    BY <2>1, <2>3 DEF Trace
  <2> DEFINE I == {i \in Nat : i <= m => g[i][k] = node[t - 1][k]}
  <2>5. 0 \in I
    BY <2>4
  <2>6. ASSUME NEW i \in I PROVE i + 1 \in I
    <3> SUFFICES ASSUME i + 1 <= m PROVE g[i + 1][k] = node[t - 1][k]
      OBVIOUS
    <3>1. i \in Nat /\ i <= m /\ i + 1 \in 1..m /\ (i + 1) - 1 = i /\ i \in 0..m
      BY <2>2, SMT
    <3> DEFINE op == ops[i + 1]
    <3>2. g[i] \in States /\ op.key # k
      BY <2>2, <2>4, <3>1
    <3>3. g[i + 1] = [g[i] EXCEPT ![op.key] = Engine(g[i][op.key], op, t, <<t, t, i + 1>>)]
      BY <2>3, <3>1 DEF Trace
    <3>4. g[i + 1][k] = g[i][k]
      BY <3>2, <3>3 DEF States
    <3> QED
      BY <2>6, <3>1, <3>4
  <2>7. \A i \in Nat : i \in I
    <3>1. I \in SUBSET Nat
      OBVIOUS
    <3> QED
      BY <2>5, <2>6, <3>1, Induction
  <2> QED
    BY <2>2, <2>4, <2>7
<1> QED
  BY <1>2, <1>3

LEMMA MovedOn ==
  ASSUME ChainInv, NEW k \in Keys, NEW b \in 0..head, NEW n \in b..head,
         \A t \in (b + 1)..n : \A i \in DOMAIN txs[t].ops : txs[t].ops[i].key # k
  PROVE  Moved(k, n) = Moved(k, b)
<1>1. /\ \A t \in 1..n : t \in 1..b \/ t \in (b + 1)..n
      /\ \A t \in 1..b : t \in 1..n
  <2>1. head \in Nat
    BY SMT DEF ChainInv
  <2> QED
    BY <2>1, SMT
<1> QED
  BY <1>1 DEF Moved

\* The versions of a key stay right over blocks that do not touch it.
LEMMA IndexedOn ==
  ASSUME ReadsAssumption, ChainInv, NEW k \in Keys, NEW b \in 0..head, NEW n \in b..head,
         Indexed(k, b),
         \A t \in (b + 1)..n : \A i \in DOMAIN txs[t].ops : txs[t].ops[i].key # k
  PROVE  Indexed(k, n)
<1> DEFINE Right(x) == Tracks(versions[k], Base(k), Past(k), node[x][k], x, x)
           T == {x \in Nat : b + x <= n => Right(b + x)}
<1>1. head \in Nat /\ b \in Nat /\ n \in Nat /\ b <= n /\ n <= head
  <2>1. head \in Nat
    BY SMT DEF ChainInv
  <2> QED
    BY <2>1, SMT
<1>2. 0 \in T
  <2>1. b + 0 = b
    BY <1>1
  <2> QED
    BY <2>1 DEF Indexed
<1>3. ASSUME NEW x \in T PROVE x + 1 \in T
  <2> SUFFICES ASSUME b + (x + 1) <= n PROVE Right(b + (x + 1))
    OBVIOUS
  <2> DEFINE y == b + x
  <2>1. /\ y \in Nat /\ y <= n /\ y + 1 = b + (x + 1) /\ y + 1 \in (b + 1)..n
        /\ y + 1 \in 1..head /\ (y + 1) - 1 = y /\ y + 1 \in 0..head
    BY <1>1, SMT
  <2>2. Tracks(versions[k], Base(k), Past(k), node[y][k], y, y)
    BY <1>3, <2>1
  <2> HIDE DEF y
  <2>3. node[y + 1][k] = node[y][k]
    BY <2>1, Untouched
  <2>4. Past(k)[y + 1] = node[y][k]
    BY <2>1, <2>3 DEF Past
  <2>5. Tracks(versions[k], Base(k), Past(k), node[y][k], y + 1, y + 1)
    BY <2>1, <2>2, <2>4, TracksOn
  <2> QED
    BY <2>1, <2>3, <2>5
<1> HIDE DEF T, Right
<1>4. T \in SUBSET Nat
  BY DEF T
<1>5. n - b \in Nat /\ b + (n - b) = n
  BY <1>1, SMT
<1>6. n - b \in T
  BY <1>2, <1>3, <1>4, <1>5, Induction
<1>7. Right(n)
  BY <1>1, <1>5, <1>6 DEF T
<1>8. Moved(k, n) = Moved(k, b)
  BY MovedOn
<1> QED
  BY <1>7, <1>8 DEF Right, Indexed

-----------------------------------------------------------------------------
(* The invariant holds at first and at every step. *)

LEMMA InitHolds ==
  ASSUME ReadsAssumption, Init
  PROVE  IInv
<1>1. MaxBlock \in Nat /\ head = 0 /\ projected = 0
  BY DEF ReadsAssumption, Init
<1>2. \A k \in Keys : Born(k) \in Entities
  <2> SUFFICES ASSUME NEW k \in Keys PROVE Born(k) \in Entities
    OBVIOUS
  <2>1. CASE Genesis[k] = None
    BY <2>1 DEF Born, Entities
  <2>2. CASE Genesis[k] # None
    <3>1. Genesis[k] \in Version
      BY <2>2 DEF ReadsAssumption
    <3> QED
      BY <2>2, <3>1 DEF Born, Entity, Version, State, Entities
  <2> QED
    BY <2>1, <2>2
<1>3. node = [b \in {0} |-> [k \in Keys |-> Born(k)]]
  BY DEF Init, Born
<1>4. 0..0 = {0} /\ \A t \in 1..0 : FALSE
  BY SMT
<1>5. [k \in Keys |-> Born(k)] \in States
  BY <1>2 DEF States
<1>6. node \in [0..head -> States] /\ node[0] = [k \in Keys |-> Born(k)]
  BY <1>1, <1>3, <1>4, <1>5
<1>7. head \in 0..MaxBlock /\ txs \in Seq(Transaction) /\ Len(txs) = head
  BY <1>1 DEF Init
<1>8. ChainInv
  BY <1>1, <1>4, <1>6, <1>7 DEF ChainInv
<1>9. ASSUME NEW k \in Keys PROVE versions[k] \in Seq(Version) /\ Indexed(k, projected)
  <2>1. versions[k] = Base(k)
    BY DEF Init, Base
  <2>2. node[0][k] = Born(k) /\ Past(k)[0] = Born(k)
    BY <1>1, <1>4, <1>6 DEF Past
  <2>3. Tracks(Base(k), Base(k), Past(k), Born(k), 0, 0)
    BY <2>2, BaseTracks
  <2>4. Base(k) \in Seq(Version)
    BY <2>3 DEF Tracks
  <2>5. Moved(k, 0) = {} /\ Dated(Base(k), {})
    BY <1>4, BaseDates DEF Moved
  <2> QED
    BY <1>1, <2>1, <2>2, <2>3, <2>4, <2>5 DEF Indexed
<1>10. versions \in [Keys -> Seq(Version)]
  <2>1. versions = [k \in Keys |-> versions[k]]
    BY DEF Init
  <2> QED
    BY <1>9, <2>1
<1>11. IndexInv
  BY <1>1, <1>4, <1>9, <1>10 DEF IndexInv
<1>12. ClientInv
  BY DEF Init, ClientInv
<1> QED
  BY <1>8, <1>11, <1>12 DEF IInv

LEMMA EventsAre ==
  ASSUME ReadsAssumption, NEW ops \in Seq(Operation), NEW block \in Nat
  PROVE  Events(ops, block) \in Seq(Event)
<1>1. Len(ops) \in Nat /\ DOMAIN ops = 1..Len(ops) /\ \A i \in DOMAIN ops : ops[i] \in Operation
  OBVIOUS
<1>2. ASSUME NEW i \in DOMAIN ops
      PROVE  [kind |-> ops[i].kind, key |-> ops[i].key,
              expires |-> resolveRequestedExpiry(block, ops[i].expires, ops[i].lifetime)] \in Event
  BY <1>1, ExpiryIs DEF Operation, Event
<1>3. Events(ops, block) \in [1..Len(ops) -> Event]
  BY <1>1, <1>2 DEF Events
<1> QED
  BY <1>1, <1>3

LEMMA MineBlockHolds ==
  ASSUME ReadsAssumption, IInv, MineBlock
  PROVE  IInv'
<1> DEFINE h == head + 1
<1>1. PICK ops \in Contents, logged \in BOOLEAN :
        LET after == Execute(node[head], ops, h, Len(txs) + 1)
            ok    == after # Rejected
        IN  /\ node' = [b \in 0..h |->
                 IF b <= head THEN node[b] ELSE IF ok THEN after ELSE node[head]]
            /\ txs' = Append(txs, [block |-> h, ok |-> ok, ops |-> ops,
                 logs |-> IF ok /\ logged THEN Events(ops, h) ELSE << >>])
  BY Zenon DEF MineBlock
<1> DEFINE after == Execute(node[head], ops, h, h)
           ok == after # Rejected
           tx == [block |-> h, ok |-> ok, ops |-> ops,
                  logs |-> IF ok /\ logged THEN Events(ops, h) ELSE << >>]
<1>2. /\ head' = h /\ head < MaxBlock
      /\ UNCHANGED <<versions, projected, call, cursor, walk, asOf, shown>>
  BY DEF MineBlock, index, paging
<1>3. ChainInv /\ IndexInv /\ ClientInv /\ Len(txs) = head
  BY DEF IInv, ChainInv
<1>4. head \in Nat /\ MaxBlock \in Nat
  BY <1>3, SMT DEF ChainInv, ReadsAssumption
<1>5. /\ node' = [b \in 0..h |->
           IF b <= head THEN node[b] ELSE IF ok THEN after ELSE node[head]]
      /\ txs' = Append(txs, tx)
  BY <1>1, <1>3
<1>6. /\ h \in Nat /\ h \in 0..h /\ h \in 0..MaxBlock /\ ~(h <= head) /\ h - 1 = head
      /\ head \in 0..head /\ 0 \in 0..head
      /\ \A b \in 0..head : b \in 0..h /\ b <= head
      /\ \A b \in 0..h : b \in 0..head \/ b = h
      /\ \A t \in 1..h : t \in 1..head \/ t = h
      /\ \A t \in 1..head : t \in 0..head /\ t - 1 \in 0..head /\ t # h
  BY <1>2, <1>4, SMT
<1>7. ops \in Seq(Operation) /\ node[head] \in States
  BY <1>3, <1>6 DEF ReadsAssumption, ChainInv
<1>8. after \in States \cup {Rejected}
  BY <1>6, <1>7, ExecuteIs
<1>9. tx \in Transaction
  <2>1. Events(ops, h) \in Seq(Event)
    BY <1>6, <1>7, EventsAre
  <2>2. ok \in BOOLEAN /\ << >> \in Seq(Event)
    OBVIOUS
  <2> HIDE DEF ok
  <2> QED
    BY <1>6, <2>1, <2>2 DEF Transaction
<1> HIDE DEF after, h
<1>10. (\A b \in 0..head : node'[b] = node[b]) /\ node'[h] = IF ok THEN after ELSE node[head]
  BY <1>5, <1>6
<1>11. node' \in [0..h -> States]
  <2>1. \A b \in 0..head : node[b] \in States
    BY <1>3 DEF ChainInv
  <2>2. ok => after \in States
    BY <1>8
  <2> QED
    BY <1>5, <1>6, <1>7, <2>1, <2>2
<1>12. /\ txs' \in Seq(Transaction) /\ Len(txs') = h /\ txs'[h] = tx
       /\ \A t \in 1..head : txs'[t] = txs[t]
  <2>1. txs \in Seq(Transaction) /\ Len(txs) + 1 = h
    BY <1>3 DEF ChainInv, h
  <2> HIDE DEF tx
  <2> QED
    BY <1>3, <1>4, <1>5, <1>9, <2>1
<1>13. ASSUME NEW t \in 1..h PROVE Mined(t)'
  <2>1. CASE t \in 1..head
    <3>1. Mined(t) /\ node'[t] = node[t] /\ node'[t - 1] = node[t - 1] /\ txs'[t] = txs[t]
      BY <1>3, <1>6, <1>10, <1>12, <2>1 DEF ChainInv
    <3> QED
      BY <3>1 DEF Mined
  <2>2. CASE t = h
    <3>1. /\ tx.block = h /\ (tx.ok <=> ok) /\ tx.ops = ops
          /\ tx.logs = << >> \/ tx.logs = Events(ops, h)
      OBVIOUS
    <3>2. node'[h - 1] = node[head]
      BY <1>6, <1>10
    <3>3. node'[h] = IF tx.ok THEN Execute(node'[h - 1], tx.ops, h, h) ELSE node'[h - 1]
      BY <1>10, <3>1, <3>2 DEF after
    <3> HIDE DEF tx
    <3> QED
      BY <1>12, <2>2, <3>1, <3>3 DEF Mined
  <2> QED
    BY <1>6, <2>1, <2>2
<1>14. ChainInv'
  <2>1. node'[0] = [k \in Keys |-> Born(k)]
    BY <1>3, <1>6, <1>10 DEF ChainInv
  <2>2. \A t \in 1..h : Mined(t)'
    BY <1>13
  <2> QED
    BY <1>2, <1>6, <1>11, <1>12, <2>1, <2>2 DEF ChainInv
<1>15. IndexInv'
  <2>1. /\ projected \in 0..head /\ versions \in [Keys -> Seq(Version)] /\ projected \in Nat
        /\ (\A b \in 0..projected : b \in 0..head /\ b \in 0..h) /\ projected \in 0..h
        /\ \A t \in 1..projected : t \in 1..head
    <3>1. projected \in 0..head /\ versions \in [Keys -> Seq(Version)]
      BY <1>3 DEF IndexInv
    <3> QED
      BY <1>4, <3>1, SMT DEF h
  <2>2. ASSUME NEW k \in Keys PROVE Indexed(k, projected)'
    <3>1. Tracks(versions[k], Base(k), Past(k), node[projected][k], projected, projected)
      BY <1>3 DEF IndexInv, Indexed
    <3>2. \A b \in 0..projected : Past(k)'[b] = Past(k)[b]
      BY <1>2, <1>10, <2>1 DEF Past
    <3>3. Tracks(versions[k], Base(k), Past(k)', node[projected][k], projected, projected)
      BY <2>1, <3>1, <3>2, TracksSame
    <3>4. node'[projected][k] = node[projected][k]
      BY <1>10, <2>1
    <3>5. Moved(k, projected)' = Moved(k, projected)
      BY <1>2, <1>12, <2>1 DEF Moved
    <3>6. Dated(versions[k], Moved(k, projected))
      BY <1>3 DEF IndexInv, Indexed
    <3> QED
      BY <1>2, <3>3, <3>4, <3>5, <3>6 DEF Indexed
  <2> QED
    BY <1>2, <2>1, <2>2 DEF IndexInv
<1>16. ClientInv'
  <2>1. asOf \in (0..h) \cup {None}
    BY <1>3, <1>6 DEF ClientInv
  <2> QED
    BY <1>2, <1>3, <2>1 DEF ClientInv
<1> QED
  BY <1>14, <1>15, <1>16 DEF IInv

LEMMA FoldHolds ==
  ASSUME ReadsAssumption, IInv, Fold
  PROVE  IInv'
<1>1. PICK through \in (projected + 1)..head :
        /\ projected' = through
        /\ LET touched == {tx \in {txs[t] : t \in DOMAIN txs} :
                             projected < tx.block /\ tx.block <= through}
               keys == {k \in Keys : \E tx \in touched :
                                       \E i \in DOMAIN tx.ops : tx.ops[i].key = k}
           IN  versions' = [k \in Keys |->
                 IF k \in keys THEN refold(txs, k, through, versions[k]) ELSE versions[k]]
  BY Zenon DEF Fold
<1> DEFINE touched == {tx \in {txs[t] : t \in DOMAIN txs} :
                         projected < tx.block /\ tx.block <= through}
           keys == {k \in Keys : \E tx \in touched :
                                   \E i \in DOMAIN tx.ops : tx.ops[i].key = k}
<1>2. UNCHANGED <<head, txs, node, call, cursor, walk, asOf, shown>>
  BY DEF Fold, chain, paging
<1>3. ChainInv /\ IndexInv /\ ClientInv /\ DOMAIN txs = 1..head
  BY DEF IInv, ChainInv
<1>4. /\ head \in Nat /\ projected \in 0..head /\ through \in 0..head /\ through \in projected..head
      /\ \A t \in (projected + 1)..through : t \in 1..head /\ projected < t /\ t <= through
      /\ \A b \in 0..projected : b \in 0..through
  <2>1. head \in Nat /\ projected \in 0..head
    BY <1>3, SMT DEF ChainInv, IndexInv
  <2> QED
    BY <2>1, SMT
<1>5. ChainInv'
  BY <1>2, <1>3 DEF ChainInv, Mined
<1>6. ASSUME NEW k \in Keys
      PROVE  /\ Tracks(versions'[k], Base(k), Past(k), node[through][k], through, through)
             /\ Dated(versions'[k], Moved(k, through))
  <2>1. Indexed(k, projected)
    BY <1>3 DEF IndexInv
  <2>2. CASE k \in keys
    <3>1. GenesisBase(versions[k]) = Base(k)
      BY <2>1 DEF Indexed, Tracks
    <3>2. versions'[k] = refold(txs, k, through, versions[k])
      BY <1>1, <2>2
    <3> QED
      BY <1>3, <1>4, <3>1, <3>2, RefoldTracks
  <2>3. CASE k \notin keys
    <3>1. versions'[k] = versions[k]
      BY <1>1, <2>3
    <3>2. ASSUME NEW t \in (projected + 1)..through, NEW i \in DOMAIN txs[t].ops
          PROVE  txs[t].ops[i].key # k
      <4>1. txs[t].block = t
        BY <1>3, <1>4, TransactionIs DEF Mined
      <4>2. txs[t] \in touched
        BY <1>3, <1>4, <4>1
      <4> QED
        BY <2>3, <4>2
    <3>3. Indexed(k, through)
      BY <1>3, <1>4, <2>1, <3>2, IndexedOn
    <3> QED
      BY <3>1, <3>3 DEF Indexed
  <2> QED
    BY <2>2, <2>3
<1> HIDE DEF keys
<1>7. IndexInv'
  <2>1. versions' \in [Keys -> Seq(Version)]
    <3>1. versions' = [k \in Keys |-> versions'[k]]
      BY <1>1
    <3>2. \A k \in Keys : versions'[k] \in Seq(Version)
      BY <1>6 DEF Tracks
    <3> QED
      BY <3>1, <3>2
  <2>2. ASSUME NEW k \in Keys PROVE Indexed(k, projected)'
    <3>1. Past(k)' = Past(k) /\ Moved(k, through)' = Moved(k, through)
      BY <1>2 DEF Past, Moved
    <3> QED
      BY <1>1, <1>2, <1>6, <3>1 DEF Indexed
  <2> QED
    BY <1>1, <1>2, <1>4, <2>1, <2>2 DEF IndexInv
<1>8. ClientInv'
  BY <1>1, <1>2, <1>3, <1>4 DEF ClientInv
<1> QED
  BY <1>5, <1>7, <1>8 DEF IInv

\* What a request does leaves the chain and the index alone.
LEMMA RequestHolds ==
  ASSUME ReadsAssumption, IInv, UNCHANGED <<chain, index>>, ClientInv'
  PROVE  IInv'
<1>1. UNCHANGED <<head, txs, node, versions, projected>>
  BY DEF chain, index
<1>2. ChainInv'
  BY <1>1 DEF IInv, ChainInv, Mined
<1>3. \A k \in Keys : Past(k)' = Past(k) /\ Moved(k, projected)' = Moved(k, projected)
  BY <1>1 DEF Past, Moved
<1>4. IndexInv'
  BY <1>1, <1>3 DEF IInv, IndexInv, Indexed
<1> QED
  BY <1>2, <1>4 DEF IInv

LEMMA ResolveIs ==
  ASSUME IInv, NEW query, NEW requested \in (0..head) \cup {None}, NEW after,
         Resolve(query, requested, after)
  PROVE  call'.block \in 0..projected
<1>1. head \in Nat /\ projected \in 0..head
  BY SMT DEF IInv, ChainInv, IndexInv
<1>2. CASE requested = None
  <2>1. call'.block = projected
    BY <1>2 DEF Resolve
  <2> QED
    BY <1>1, <2>1, SMT
<1>3. CASE requested # None
  <2>1. call'.block = requested /\ requested <= projected /\ requested \in 0..head
    BY <1>3 DEF Resolve
  <2> QED
    BY <1>1, <2>1, SMT
<1> QED
  BY <1>2, <1>3

LEMMA ClientHolds ==
  ASSUME ReadsAssumption, IInv,
         FirstPage \/ NextPage \/ Answer \/ ReadProgress \/ ReadLatest
  PROVE  IInv'
<1>1. ClientInv /\ projected \in 0..head
  BY DEF IInv, IndexInv
<1>2. CASE FirstPage
  <2>1. call'.block \in 0..projected
    BY <1>2, ResolveIs DEF FirstPage
  <2> QED
    BY <1>1, <1>2, <2>1, RequestHolds DEF FirstPage, ClientInv, chain, index
<1>3. CASE NextPage
  <2>1. call'.block \in 0..projected
    BY <1>3, ResolveIs DEF NextPage
  <2> QED
    BY <1>1, <1>3, <2>1, RequestHolds DEF NextPage, ClientInv, chain, index
<1>4. CASE Answer
  <2> DEFINE told == IF walk = None
                     THEN [query |-> call.query, block |-> call.block, pinned |-> TRUE,
                           seen |-> << >>]
                     ELSE walk
  <2>1. "block" \in DOMAIN told /\ told.block \in 0..projected
    BY <1>1, <1>4 DEF Answer, ClientInv
  <2>2. \E p, s : walk' = [told EXCEPT !.pinned = p, !.seen = s]
    BY <1>4 DEF Answer
  <2> HIDE DEF told
  <2>3. "block" \in DOMAIN walk' /\ walk'.block \in 0..projected
    BY <2>1, <2>2
  <2>4. cursor' # None => cursor'.block \in 0..projected
    BY <1>1, <1>4 DEF Answer, ClientInv
  <2>5. call' = None /\ UNCHANGED <<chain, index, asOf, shown>>
    BY <1>4 DEF Answer
  <2> QED
    BY <1>1, <2>3, <2>4, <2>5, RequestHolds DEF ClientInv, chain, index
<1>5. CASE ReadProgress
  BY <1>1, <1>5, RequestHolds DEF ReadProgress, ClientInv, chain, index
<1>6. CASE ReadLatest
  BY <1>1, <1>6, RequestHolds DEF ReadLatest, ClientInv, chain, index, paging
<1> QED
  BY <1>2, <1>3, <1>4, <1>5, <1>6

LEMMA NextHolds ==
  ASSUME ReadsAssumption, IInv, [Next]_vars
  PROVE  IInv'
<1>1. CASE UNCHANGED vars
  BY <1>1, RequestHolds DEF vars, chain, index, IInv, ClientInv
<1> QED
  BY <1>1, MineBlockHolds, FoldHolds, ClientHolds DEF Next

-----------------------------------------------------------------------------
(* What a step leaves as it is, for the readers. *)

LEMMA HeadIs ==
  ASSUME IInv
  PROVE  /\ head \in Nat /\ projected \in 0..head /\ projected \in Nat
         /\ \A b \in 0..projected : b \in 0..head /\ b \in Nat
<1>1. head \in Nat /\ projected \in 0..head
  BY SMT DEF IInv, ChainInv, IndexInv
<1> QED
  BY <1>1, SMT

LEMMA MineBlockKeeps ==
  ASSUME ReadsAssumption, IInv, MineBlock
  PROVE  /\ head' = head + 1 /\ UNCHANGED <<versions, projected, call, cursor, walk, asOf, shown>>
         /\ \A t \in 1..head : txs'[t] = txs[t]
         /\ \A b \in 0..head : node'[b] = node[b]
<1>1. \E tx, e : /\ txs' = Append(txs, tx)
                 /\ node' = [b \in 0..head + 1 |-> IF b <= head THEN node[b] ELSE e]
  BY Zenon DEF MineBlock
<1>2. /\ head' = head + 1 /\ UNCHANGED <<versions, projected, call, cursor, walk, asOf, shown>>
  BY DEF MineBlock, index, paging
<1>3. txs \in Seq(Transaction) /\ Len(txs) = head /\ head \in Nat
  BY HeadIs DEF IInv, ChainInv
<1>4. \A t \in 1..head : txs'[t] = txs[t]
  BY <1>1, <1>3
<1>5. \A b \in 0..head : b \in 0..head + 1 /\ b <= head
  BY <1>3, SMT
<1>6. \A b \in 0..head : node'[b] = node[b]
  BY <1>1, <1>5
<1> QED
  BY <1>2, <1>4, <1>6

LEMMA MovedKeeps ==
  ASSUME ReadsAssumption, IInv, NEW k \in Keys, NEW b \in 0..head,
         \A t \in 1..head : txs'[t] = txs[t]
  PROVE  Moved(k, b)' = Moved(k, b)
<1>1. \A t \in 1..b : t \in 1..head
  BY HeadIs, SMT
<1> QED
  BY <1>1 DEF Moved

LEMMA FoldKeeps ==
  ASSUME IInv, Fold
  PROVE  /\ UNCHANGED <<head, txs, node, call, cursor, walk, asOf, shown>>
         /\ projected' \in (projected + 1)..head
         /\ \A b \in 0..projected : b \in 0..projected'
<1>1. projected' \in (projected + 1)..head
  BY Zenon DEF Fold
<1>2. \A b \in 0..projected : b \in 0..projected'
  BY <1>1, HeadIs, SMT
<1> QED
  BY <1>1, <1>2 DEF Fold, chain, paging

-----------------------------------------------------------------------------
(* Where entities were created. *)

LEMMA EngineCreates ==
  ASSUME ReadsAssumption,
         NEW e \in Entities, NEW op \in Operation, NEW block \in Nat, NEW at \in Places,
         Engine(e, op, block, at) \in State
  PROVE  \/ Engine(e, op, block, at).created = at
         \/ e \in State /\ Engine(e, op, block, at).created = e.created
<1>1. Engine(e, op, block, at) # Rejected /\ Engine(e, op, block, at) # Gone
  BY ConstantsDiffer
<1>2. CASE op.kind = "create"
  BY <1>1, <1>2, CreatedIs
<1>3. CASE op.kind # "create"
  <2> DEFINE d == Engine(e, op, block, at)
  <2>1. /\ e \in State
        /\ \/ d = [e EXCEPT !.attributes = applyAttributes(e.attributes, op.cells)]
           \/ d = [e EXCEPT !.expires = resolveRequestedExpiry(block, op.expires, op.lifetime)]
           \/ d = [e EXCEPT !.owner = op.newOwner]
           \/ d = Gone
    BY <1>1, <1>3, ChangedIs, Zenon
  <2> HIDE DEF d
  <2>2. d # Gone
    BY <1>1 DEF d
  <2>3. d.created = e.created
    BY <2>1, <2>2 DEF State
  <2> QED
    BY <2>1, <2>3 DEF d
<1> QED
  BY <1>2, <1>3

\* In a transaction at t of a block, up to operation i: what is not older is of an
\* operation before.
Young(s, block, i) ==
  \A k \in Keys : s[k] \in State =>
    \/ s[k].created[1] <= block - 1
    \/ s[k].created[1] = block /\ s[k].created[3] <= i

LEMMA ExecuteCreates ==
  ASSUME ReadsAssumption, NEW s \in States, NEW ops \in Seq(Operation), NEW block \in Nat,
         NEW t \in Nat, Distinct(s), Old(s, block - 1), Execute(s, ops, block, t) # Rejected
  PROVE  Distinct(Execute(s, ops, block, t)) /\ Old(Execute(s, ops, block, t), block)
<1> DEFINE m == Len(ops)
<1>1. m \in Nat /\ DOMAIN ops = 1..m
  OBVIOUS
<1>2. PICK g : Trace(g, s, ops, block, t)
  BY ExecuteIs
<1>3. g \in [0..m -> States] /\ g[0] = s /\ g[m] = Execute(s, ops, block, t)
  BY <1>2 DEF Trace
<1> DEFINE Fresh(i) == Distinct(g[i]) /\ Young(g[i], block, i)
           I == {i \in Nat : i <= m => Fresh(i)}
<1>4. 0 \in I
  BY <1>3 DEF Old, Young
<1>5. ASSUME NEW i \in I PROVE i + 1 \in I
  <2> HIDE DEF Fresh
  <2> SUFFICES ASSUME i + 1 <= m PROVE Fresh(i + 1)
    OBVIOUS
  <2> USE DEF Fresh
  <2> DEFINE op == ops[i + 1]
             at == <<block, t, i + 1>>
             d == Engine(g[i][op.key], op, block, at)
  <2>1. i \in Nat /\ i <= m /\ i + 1 \in 1..m /\ (i + 1) - 1 = i /\ i \in 0..m /\ i + 1 \in 0..m
    BY <1>1, SMT
  <2>2. Distinct(g[i]) /\ Young(g[i], block, i)
    BY <1>5, <2>1
  <2>3. op \in Operation /\ op.key \in Keys /\ g[i] \in States /\ at \in Places
    <3>1. op \in Operation /\ at \in Places
      BY <1>1, <2>1 DEF Places
    <3> QED
      BY <1>3, <2>1, <3>1 DEF Operation
  <2>4. g[i + 1] = [g[i] EXCEPT ![op.key] = d]
    BY <1>2, <2>1 DEF Trace
  <2>5. g[i][op.key] \in Entities
    BY <2>3 DEF States
  <2>6. d \in State => d.created = at \/ (g[i][op.key] \in State /\ d.created = g[i][op.key].created)
    BY <2>3, <2>5, EngineCreates
  <2> HIDE DEF d
  <2>7. g[i + 1][op.key] = d /\ \A k \in Keys : k # op.key => g[i + 1][k] = g[i][k]
    BY <2>3, <2>4 DEF States
  <2>8. \A k \in Keys : g[i][k] \in State => g[i][k].created \in Places
    BY DEF State
  <2>9. ASSUME NEW k \in Keys, g[i][k] \in State PROVE g[i][k].created # at
    <3> DEFINE c == g[i][k].created
    <3>1. c[1] \in Nat /\ c[3] \in Nat
      BY <2>8, <2>9 DEF Places
    <3>2. c[1] <= block - 1 \/ (c[1] = block /\ c[3] <= i)
      BY <2>2, <2>9 DEF Young
    <3> HIDE DEF c
    <3>3. ~(c[1] = block /\ c[3] = i + 1)
      BY <2>1, <3>1, <3>2, SMT
    <3>4. at[1] = block /\ at[3] = i + 1
      OBVIOUS
    <3> QED
      BY <3>3, <3>4 DEF c
  <2>10. Distinct(g[i + 1])
    <3> SUFFICES ASSUME NEW k \in Keys, NEW l \in Keys, k # l,
                        g[i + 1][k] \in State, g[i + 1][l] \in State
                 PROVE  g[i + 1][k].created # g[i + 1][l].created
      BY DEF Distinct
    <3> HIDE DEF at, op
    <3>1. CASE k # op.key /\ l # op.key
      BY <2>2, <2>7, <3>1 DEF Distinct
    <3>2. CASE k = op.key
      BY <2>2, <2>3, <2>6, <2>7, <2>9, <3>2 DEF Distinct
    <3>3. CASE l = op.key
      BY <2>2, <2>3, <2>6, <2>7, <2>9, <3>3 DEF Distinct
    <3> QED
      BY <3>1, <3>2, <3>3
  <2>11. Young(g[i + 1], block, i + 1)
    <3> SUFFICES ASSUME NEW k \in Keys, g[i + 1][k] \in State
                 PROVE  \/ g[i + 1][k].created[1] <= block - 1
                        \/ g[i + 1][k].created[1] = block /\ g[i + 1][k].created[3] <= i + 1
      BY DEF Young
    <3>1. ASSUME NEW l \in Keys, g[i][l] \in State
          PROVE  \/ g[i][l].created[1] <= block - 1
                 \/ g[i][l].created[1] = block /\ g[i][l].created[3] <= i + 1
      <4>1. g[i][l].created[3] \in Nat
        BY <2>8, <3>1 DEF Places
      <4> QED
        BY <2>1, <2>2, <3>1, <4>1, SMT DEF Young
    <3>2. at[1] = block /\ at[3] = i + 1 /\ i + 1 <= i + 1
      BY <2>1, SMT
    <3> HIDE DEF at, op
    <3> QED
      BY <2>3, <2>6, <2>7, <3>1, <3>2
  <2> QED
    BY <2>10, <2>11
<1>6. Fresh(m)
  <2> HIDE DEF Fresh
  <2>1. I \in SUBSET Nat
    OBVIOUS
  <2>2. \A i \in Nat : i \in I
    BY <1>4, <1>5, <2>1, Induction
  <2> QED
    BY <1>1, <2>2
<1>7. \A k \in Keys : g[m][k] \in State => g[m][k].created[1] \in Nat
  BY DEF State, Places
<1>8. Old(g[m], block)
  <2> SUFFICES ASSUME NEW k \in Keys, g[m][k] \in State PROVE g[m][k].created[1] <= block
    BY DEF Old
  <2> QED
    BY <1>6, <1>7, SMT DEF Young
<1> QED
  BY <1>3, <1>6, <1>8

LEMMA InitCreated ==
  ASSUME ReadsAssumption, Init
  PROVE  CreatedInv
<1>1. head = 0 /\ 0..0 = {0} /\ 0 <= 0
  BY SMT DEF Init
<1>2. node = [b \in {0} |-> [k \in Keys |-> Born(k)]]
  BY DEF Init, Born
<1>3. \A k \in Keys : Born(k) \in State => Genesis[k] # None /\ Born(k).created = Genesis[k].created
  BY ConstantsDiffer DEF Born, Entity
<1>4. Distinct([k \in Keys |-> Born(k)])
  BY <1>3 DEF Distinct, ReadsAssumption
<1>5. Old([k \in Keys |-> Born(k)], 0)
  BY <1>1, <1>3 DEF Old, ReadsAssumption
<1> QED
  BY <1>1, <1>2, <1>4, <1>5 DEF CreatedInv

LEMMA MineBlockCreates ==
  ASSUME ReadsAssumption, IInv, CreatedInv, MineBlock
  PROVE  CreatedInv'
<1> DEFINE h == head + 1
<1>1. /\ head \in Nat /\ h \in Nat /\ h \in 1..h /\ h - 1 = head /\ head \in 0..head
      /\ \A b \in 0..h : b \in 0..head \/ b = h
  BY HeadIs, SMT
<1>2. head' = h /\ \A b \in 0..head : node'[b] = node[b]
  BY MineBlockKeeps
<1>3. ChainInv'
  BY MineBlockHolds DEF IInv
<1>4. /\ txs'[h] \in Transaction
      /\ node'[h] = IF txs'[h].ok THEN Execute(node[head], txs'[h].ops, h, h) ELSE node[head]
      /\ node'[h] \in States
  BY <1>1, <1>2, <1>3 DEF ChainInv, Mined
<1>5. txs'[h].ops \in Seq(Operation)
  BY <1>4 DEF Transaction, ReadsAssumption
<1>6. node[head] \in States /\ Distinct(node[head]) /\ Old(node[head], head)
  BY <1>1 DEF IInv, ChainInv, CreatedInv
<1> HIDE DEF h
<1>7. Distinct(node'[h]) /\ Old(node'[h], h)
  <2>1. CASE txs'[h].ok
    <3>1. Execute(node[head], txs'[h].ops, h, h) # Rejected
      BY <1>4, <2>1, RejectedIsNoState
    <3> QED
      BY <1>1, <1>4, <1>5, <1>6, <2>1, <3>1, ExecuteCreates
  <2>2. CASE ~txs'[h].ok
    <3>1. \A k \in Keys : node[head][k] \in State => node[head][k].created[1] \in Nat
      BY DEF State, Places
    <3>2. ASSUME NEW k \in Keys, node[head][k] \in State PROVE node[head][k].created[1] <= h
      BY <1>1, <1>6, <3>1, <3>2, SMT DEF Old
    <3> QED
      BY <1>4, <1>6, <2>2, <3>2 DEF Old
  <2> QED
    BY <2>1, <2>2
<1> QED
  BY <1>1, <1>2, <1>7 DEF CreatedInv, Distinct, Old

LEMMA CreatedHolds ==
  ASSUME ReadsAssumption, IInv, CreatedInv, Next
  PROVE  CreatedInv'
<1>1. CASE MineBlock
  BY <1>1, MineBlockCreates
<1>2. CASE ~MineBlock
  <2>1. UNCHANGED <<head, node>>
    BY <1>2 DEF Next, Fold, FirstPage, NextPage, Answer, ReadProgress, ReadLatest, chain
  <2> QED
    BY <2>1 DEF CreatedInv
<1> QED
  BY <1>1, <1>2

-----------------------------------------------------------------------------
(* The state that is shown. *)

LEMMA LastIsLatest ==
  ASSUME ReadsAssumption, IInv, NEW k \in Keys, versions[k] # << >>
  PROVE  /\ Last(versions[k]).from \in Nat
         /\ \A t \in Moved(k, projected) : t <= Last(versions[k]).from
<1> DEFINE W == versions[k]
           n == Len(W)
<1>1. W \in Seq(Version) /\ Dated(W, Moved(k, projected))
  BY DEF IInv, IndexInv, Indexed
<1>2. n \in 1..n /\ \A i \in 1..n : (i < n \/ i = n) /\ W[i] \in Version
  BY <1>1
<1>3. Last(W) = W[n] /\ \A i \in 1..n : W[i].from \in Nat
  BY <1>2 DEF Last, Version
<1>4. ASSUME NEW t \in Moved(k, projected) PROVE t <= W[n].from
  <2>1. PICK i \in 1..n : W[i].from = t
    BY <1>1 DEF Dated
  <2>2. CASE i = n
    BY <1>3, <2>1, <2>2
  <2>3. CASE i < n
    BY <1>1, <1>2, <2>1, <2>3 DEF Dated
  <2> QED
    BY <1>2, <2>2, <2>3
<1> QED
  BY <1>2, <1>3, <1>4

LEMMA ShownHolds ==
  ASSUME ReadsAssumption, IInv, ShownInv, Next
  PROVE  ShownInv'
<1>1. CASE MineBlock
  <2>1. /\ head' = head + 1 /\ UNCHANGED <<projected, asOf, shown>>
        /\ \A t \in 1..head : txs'[t] = txs[t]
    BY <1>1, MineBlockKeeps
  <2>2. \A b \in 0..head : b \in 0..(head + 1)
    BY HeadIs, SMT
  <2>3. \A k \in Keys : \A b \in 0..head : Moved(k, b)' = Moved(k, b)
    BY <2>1, MovedKeeps
  <2> QED
    BY <2>1, <2>2, <2>3 DEF ShownInv
<1>2. CASE Fold
  <2>1. /\ UNCHANGED <<head, txs, asOf, shown>> /\ \A b \in 0..projected : b \in 0..projected'
    BY <1>2, FoldKeeps
  <2> QED
    BY <2>1 DEF ShownInv, Moved
<1>3. CASE FirstPage
  BY <1>3 DEF FirstPage, ShownInv
<1>4. CASE NextPage \/ Answer
  <2>1. UNCHANGED <<head, txs, projected, asOf, shown>>
    BY <1>4 DEF NextPage, Answer, chain, index
  <2> QED
    BY <2>1 DEF ShownInv, Moved
<1>5. CASE ReadProgress
  <2>1. projected \in 0..projected
    BY HeadIs, SMT
  <2> QED
    BY <1>5, <2>1 DEF ReadProgress, ShownInv, index
<1>6. CASE ReadLatest
  <2>1. asOf # None /\ asOf' = None /\ UNCHANGED <<head, txs, projected>>
    BY <1>6 DEF ReadLatest, chain, index
  <2>2. PICK k \in Keys : versions[k] # << >> /\
          shown' = [key |-> k, asOf |-> asOf, version |-> Last(versions[k])]
    BY <1>6 DEF ReadLatest
  <2>3. asOf \in 0..projected
    BY <2>1 DEF ShownInv
  <2>4. asOf \in 0..head /\ \A t \in 1..asOf : t \in 1..projected
    BY <2>3, HeadIs, SMT
  <2>5. Moved(k, asOf) \subseteq Moved(k, projected)
    BY <2>4 DEF Moved
  <2>7. /\ Last(versions[k]).from \in Nat
        /\ \A t \in Moved(k, asOf) : t <= Last(versions[k]).from
    BY <2>2, <2>5, LastIsLatest
  <2>8. shown'.key = k /\ shown'.asOf = asOf /\ shown'.version = Last(versions[k])
    BY <2>2
  <2>9. Moved(shown.key, shown.asOf)' = Moved(k, asOf)
    BY <2>1, <2>8 DEF Moved
  <2> QED
    BY <2>1, <2>4, <2>7, <2>8, <2>9 DEF ShownInv
<1> QED
  BY <1>1, <1>2, <1>3, <1>4, <1>5, <1>6 DEF Next

LEMMA ShownFollows ==
  ASSUME ReadsAssumption, IInv, ShownInv
  PROVE  StateNotBehind
<1> SUFFICES ASSUME shown # None, NEW i \in DOMAIN versions[shown.key],
                    versions[shown.key][i].from <= shown.asOf
             PROVE  ~Earlier(<<shown.version.from, 0, 0>>, <<versions[shown.key][i].from, 0, 0>>)
  BY DEF StateNotBehind
<1> DEFINE k == shown.key
           f == versions[shown.key][i].from
<1>1. /\ k \in Keys /\ shown.asOf \in 0..head /\ shown.version.from \in Nat
      /\ \A t \in Moved(k, shown.asOf) : t <= shown.version.from
  BY DEF ShownInv
<1>2. Dated(versions[k], Moved(k, projected)) /\ versions[k] \in Seq(Version)
  BY <1>1 DEF IInv, IndexInv, Indexed
<1>3. i \in 1..Len(versions[k]) /\ versions[k][i] \in Version
  BY <1>2
<1>4. f \in Nat /\ f \in Moved(k, projected) \cup {0}
  BY <1>2, <1>3 DEF Version, Dated
<1>5. f <= shown.version.from
  <2>1. CASE f = 0
    BY <1>1, <2>1, SMT
  <2>2. CASE f \in Moved(k, projected)
    <3>1. f \in 1..shown.asOf
      <4>1. f \in 1..projected /\ f <= shown.asOf
        BY <2>2 DEF Moved
      <4> QED
        BY <1>1, <4>1, HeadIs, SMT
    <3>2. f \in Moved(k, shown.asOf)
      BY <2>2, <3>1 DEF Moved
    <3> QED
      BY <1>1, <3>2
  <2> QED
    BY <1>4, <2>1, <2>2
<1> HIDE DEF f
<1>6. ~(shown.version.from < f)
  BY <1>1, <1>4, <1>5, SMT
<1>7. ~Earlier(<<shown.version.from, 0, 0>>, <<f, 0, 0>>)
  BY <1>6 DEF Earlier
<1> QED
  BY <1>7 DEF f

-----------------------------------------------------------------------------
(* A page. *)

Sorted(s) == \A i, j \in DOMAIN s : i < j => Earlier(s[i].created, s[j].created)

\* What can be put in order: finitely many things, each created in a place of its own.
Orderable(S) ==
  /\ IsFiniteSet(S) /\ \A v \in S : v.created \in Places
  /\ \A v, w \in S : v # w => v.created # w.created

LEMMA NewestIs ==
  ASSUME NEW S, Orderable(S), S # {}
  PROVE  \E m \in S : \A v \in S : ~Earlier(m.created, v.created)
<1> DEFINE R == {[at |-> v.created, of |-> v] : v \in S}
           g == [v \in S |-> [at |-> v.created, of |-> v]]
<1>1. g \in Surjection(S, R)
  BY DEF Surjection
<1>2. IsFiniteSet(R)
  <2> HIDE DEF R, g
  <2> QED
    BY <1>1, FS_Surjection DEF Orderable
<1>3. ASSUME NEW r \in R PROVE r.at \in Places /\ r.of \in S /\ r.at = r.of.created
  <2>1. PICK v \in S : r = [at |-> v.created, of |-> v]
    OBVIOUS
  <2>2. v.created \in Places
    BY DEF Orderable
  <2> QED
    BY <2>1, <2>2
<1>4. ASSUME NEW v \in S PROVE \E r \in R : r.at = v.created
  <2>1. [at |-> v.created, of |-> v] \in R
    OBVIOUS
  <2> HIDE DEF R
  <2> QED
    BY <2>1
<1> HIDE DEF R
<1>5. PICK r \in R : \A q \in R : ~Earlier(r.at, q.at)
  BY <1>2, <1>3, <1>4, LatestIs
<1>6. r.of \in S /\ \A v \in S : ~Earlier(r.of.created, v.created)
  BY <1>3, <1>4, <1>5
<1> QED
  BY <1>6

LEMMA InOrderIs ==
  ASSUME NEW S, Orderable(S)
  PROVE  /\ Cardinality(S) \in Nat /\ InOrder(S) \in [1..Cardinality(S) -> S]
         /\ Sorted(InOrder(S))
         /\ \A v \in S : \E i \in 1..Cardinality(S) : InOrder(S)[i] = v
<1> DEFINE Can(u) == \E s \in [1..Cardinality(u) -> u] : Sorted(s)
           T == {n \in Nat : \A u \in SUBSET S : Cardinality(u) = n => Can(u)}
<1>1. \A u \in SUBSET S : IsFiniteSet(u) /\ Cardinality(u) \in Nat /\ Orderable(u)
  BY FS_Subset, FS_CardinalityType DEF Orderable
<1>2. 0 \in T
  <2> SUFFICES ASSUME NEW u \in SUBSET S, Cardinality(u) = 0 PROVE Can(u)
    OBVIOUS
  <2>1. \A i \in 1..0 : FALSE
    BY SMT
  <2> DEFINE s == [i \in 1..0 |-> i]
  <2>2. s \in [1..0 -> u] /\ DOMAIN s = 1..0
    BY <2>1
  <2> HIDE DEF s
  <2>3. Sorted(s)
    BY <2>1, <2>2 DEF Sorted
  <2> QED
    BY <2>2, <2>3
<1>3. ASSUME NEW n \in T PROVE n + 1 \in T
  <2> HIDE DEF Can
  <2> SUFFICES ASSUME NEW u \in SUBSET S, Cardinality(u) = n + 1 PROVE Can(u)
    OBVIOUS
  <2>1. u # {}
    BY FS_EmptySet
  <2>2. PICK m \in u : \A v \in u : ~Earlier(m.created, v.created)
    BY <1>1, <2>1, NewestIs
  <2> DEFINE w == u \ {m}
  <2>3. Cardinality(w) = n /\ w \in SUBSET S
    BY <1>1, <2>2, FS_RemoveElement
  <2>4. PICK s \in [1..n -> w] : Sorted(s)
    BY <1>3, <2>3 DEF Can
  <2> DEFINE z == [i \in 1..(n + 1) |-> IF i = n + 1 THEN m ELSE s[i]]
  <2>5. /\ n + 1 \in 1..(n + 1) /\ \A i \in 1..n : i \in 1..(n + 1) /\ i # n + 1
        /\ \A i \in 1..(n + 1) : i \in 1..n \/ i = n + 1
        /\ \A i, j \in 1..(n + 1) : i < j => i \in 1..n
    BY SMT
  <2>6. z[n + 1] = m /\ (\A i \in 1..n : z[i] = s[i]) /\ z \in [1..(n + 1) -> u]
    BY <2>5
  <2> HIDE DEF z
  <2>7. Sorted(z)
    <3> SUFFICES ASSUME NEW i \in 1..(n + 1), NEW j \in 1..(n + 1), i < j
                 PROVE  Earlier(z[i].created, z[j].created)
      BY <2>6 DEF Sorted
    <3>1. CASE j \in 1..n
      BY <2>4, <2>5, <2>6, <3>1 DEF Sorted
    <3>2. CASE j = n + 1
      <4>1. z[i] \in u /\ z[i] # m /\ z[j] = m
        BY <2>4, <2>5, <2>6, <3>2
      <4>2. z[i].created \in Places /\ m.created \in Places /\ z[i].created # m.created
        BY <1>1, <2>2, <4>1 DEF Orderable
      <4>3. ~Earlier(m.created, z[i].created)
        BY <2>2, <4>1
      <4> QED
        BY <4>1, <4>2, <4>3, EarlierOrders
    <3> QED
      BY <2>5, <3>1, <3>2
  <2> QED
    BY <2>6, <2>7 DEF Can
<1>4. Can(S)
  <2> HIDE DEF Can
  <2>1. T \in SUBSET Nat
    OBVIOUS
  <2>2. \A n \in Nat : n \in T
    BY <1>2, <1>3, <2>1, Induction
  <2> QED
    BY <1>1, <2>2
<1> DEFINE n == Cardinality(S)
           s == InOrder(S)
<1>5. n \in Nat /\ IsFiniteSet(S)
  BY <1>1
<1>6. s \in [1..n -> S] /\ Sorted(s)
  BY <1>4, Zenon DEF InOrder, Sorted
<1> HIDE DEF s, n
<1>7. s \in Injection(1..n, S)
  <2> SUFFICES ASSUME NEW i \in 1..n, NEW j \in 1..n, s[i] = s[j] PROVE i = j
    BY <1>6 DEF Injection, IsInjective
  <2>1. s[i].created \in Places
    BY <1>6 DEF Orderable
  <2>2. ~Earlier(s[i].created, s[i].created)
    BY <2>1, EarlierOrders
  <2>3. ~(i < j) /\ ~(j < i)
    BY <1>6, <2>2 DEF Sorted
  <2> QED
    BY <1>5, <2>3, SMT
<1>8. Cardinality(1..n) = n
  BY <1>5, FS_Interval, SMT
<1>9. s \in Surjection(1..n, S)
  BY <1>5, <1>7, <1>8, FS_Injection DEF n
<1>10. \A v \in S : \E i \in 1..n : s[i] = v
  BY <1>9 DEF Surjection
<1> QED
  BY <1>5, <1>6, <1>10 DEF s, n

Page(rows) == IF Len(rows) > PageSize THEN SubSeq(rows, 1, PageSize) ELSE rows

\* A page holds the first of the rows, in order, and is short only when it is the last.
LEMMA PageIs ==
  ASSUME ReadsAssumption, NEW S, Orderable(S)
  PROVE  LET page == Page(InOrder(S))
         IN  /\ page \in Seq(S) /\ Sorted(page)
             /\ Len(InOrder(S)) > PageSize => page # << >>
             /\ \A v \in S : \/ \E i \in 1..Len(page) : page[i] = v
                             \/ /\ Len(InOrder(S)) > PageSize
                                /\ Earlier(page[Len(page)].created, v.created)
<1> DEFINE rows == InOrder(S)
           n == Cardinality(S)
           page == Page(rows)
<1>1. /\ n \in Nat /\ rows \in [1..n -> S] /\ Sorted(rows)
      /\ \A v \in S : \E i \in 1..n : rows[i] = v
  BY InOrderIs
<1> HIDE DEF rows, n
<1>2. rows \in Seq(S) /\ Len(rows) = n /\ DOMAIN rows = 1..n
  BY <1>1
<1>3. PageSize \in Nat \ {0}
  BY DEF ReadsAssumption
<1>4. CASE ~(n > PageSize)
  <2>1. page = rows
    BY <1>2, <1>4 DEF Page
  <2> QED
    BY <1>1, <1>2, <1>4, <2>1 DEF rows
<1>5. CASE n > PageSize
  <2>1. page = SubSeq(rows, 1, PageSize)
    BY <1>2, <1>5 DEF Page
  <2>2. /\ PageSize \in 1..PageSize /\ \A i \in 1..PageSize : i \in 1..n
        /\ \A i \in 1..n : i \in 1..PageSize \/ PageSize < i
    BY <1>1, <1>3, <1>5, SMT
  <2>3. page \in Seq(S) /\ Len(page) = PageSize /\ \A i \in 1..PageSize : page[i] = rows[i]
    BY <1>2, <1>3, <1>5, <2>1, <2>2
  <2> HIDE DEF page
  <2>4. page # << >>
    BY <1>3, <2>3
  <2>5. DOMAIN page = 1..PageSize
    BY <2>3
  <2>6. Sorted(page)
    BY <1>1, <1>2, <2>2, <2>3, <2>5 DEF Sorted
  <2>7. ASSUME NEW v \in S
        PROVE  \/ \E i \in 1..PageSize : page[i] = v
               \/ Earlier(page[PageSize].created, v.created)
    <3>1. PICK i \in 1..n : rows[i] = v
      BY <1>1
    <3>2. CASE i \in 1..PageSize
      BY <2>3, <3>1, <3>2
    <3>3. CASE PageSize < i
      BY <1>1, <1>2, <2>2, <2>3, <3>1, <3>3 DEF Sorted
    <3> QED
      BY <2>2, <3>2, <3>3
  <2> QED
    BY <1>2, <1>5, <2>3, <2>4, <2>6, <2>7 DEF page, rows
<1> QED
  BY <1>4, <1>5

-----------------------------------------------------------------------------
(* The pages of a walk. *)

\* A version that is live at a projected block is the node's entity at the block.
LEMMA LiveIsNode ==
  ASSUME ReadsAssumption, IInv, NEW k \in Keys, NEW block \in 0..projected,
         NEW i \in DOMAIN versions[k], liveFilter(versions[k][i], block, FALSE)
  PROVE  k \in LiveAt(block) /\ node[block][k] = Entity(versions[k][i])
<1> DEFINE v == versions[k][i]
<1>1. Indexed(k, projected) /\ versions[k] \in Seq(Version)
  BY DEF IInv, IndexInv
<1>2. Past(k)[block] = node[block][k] /\ block \in Nat /\ block \in 0..head
  <2>1. block \in Nat /\ block \in 0..head
    <3>1. head \in Nat /\ projected \in 0..head
      BY SMT DEF IInv, ChainInv, IndexInv
    <3> QED
      BY <3>1, SMT
  <2> QED
    BY <2>1 DEF Past
<1>3. v \in Version /\ i \in 1..Len(versions[k])
  BY <1>1
<1>4. Covers(v, block) /\ ~v.deleted /\ v.expires > block
  BY DEF liveFilter, Covers
<1>5. Shows(v, node[block][k])
  BY <1>1, <1>2, <1>3, <1>4 DEF Indexed, Tracks
<1>6. node[block][k] = Entity(v)
  BY <1>4, <1>5 DEF Shows
<1>7. Entity(v) \in State /\ Entity(v).expires = v.expires
  BY <1>3 DEF Version, Entity, State
<1> HIDE DEF v
<1> QED
  BY <1>4, <1>6, <1>7, ConstantsDiffer DEF LiveAt, v

\* An entity that the node has at a projected block has a live version.
LEMMA NodeIsLive ==
  ASSUME ReadsAssumption, IInv, NEW block \in 0..projected, NEW k \in LiveAt(block)
  PROVE  \E i \in DOMAIN versions[k] :
           /\ liveFilter(versions[k][i], block, FALSE)
           /\ node[block][k] = Entity(versions[k][i])
<1>1. /\ k \in Keys /\ node[block][k] # None /\ node[block][k] # Gone
      /\ node[block][k].expires > block
  BY DEF LiveAt
<1>2. Indexed(k, projected) /\ DOMAIN versions[k] = 1..Len(versions[k])
  BY <1>1 DEF IInv, IndexInv
<1>3. Past(k)[block] = node[block][k]
  <2>1. block \in 0..head
    <3>1. head \in Nat /\ projected \in 0..head
      BY SMT DEF IInv, ChainInv, IndexInv
    <3> QED
      BY <3>1, SMT
  <2> QED
    BY <2>1 DEF Past
<1>4. PICK i \in 1..Len(versions[k]) : Covers(versions[k][i], block)
  BY <1>1, <1>2, <1>3 DEF Indexed, Tracks
<1>5. Shows(versions[k][i], node[block][k])
  BY <1>2, <1>3, <1>4 DEF Indexed, Tracks
<1>6. ~versions[k][i].deleted /\ node[block][k] = Entity(versions[k][i])
  BY <1>1, <1>5 DEF Shows
<1>7. versions[k][i].expires > block
  BY <1>1, <1>6 DEF Entity
<1> QED
  BY <1>2, <1>4, <1>6, <1>7 DEF liveFilter, Covers

Covered(k, b) == {i \in DOMAIN versions[k] : liveFilter(versions[k][i], b, FALSE)}

LEMMA LiveOnce ==
  ASSUME ReadsAssumption, IInv, NEW k \in Keys, NEW b \in 0..projected,
         NEW i \in Covered(k, b), NEW j \in Covered(k, b)
  PROVE  i = j
<1> DEFINE W == versions[k]
           n == Len(W)
<1>1. W \in Seq(Version) /\ b \in Nat
  BY HeadIs DEF IInv, IndexInv
<1>2. i \in 1..n /\ j \in 1..n /\ liveFilter(W[i], b, FALSE) /\ liveFilter(W[j], b, FALSE)
  <2>1. i \in DOMAIN W /\ j \in DOMAIN W /\ liveFilter(W[i], b, FALSE) /\ liveFilter(W[j], b, FALSE)
    BY Zenon DEF Covered
  <2>2. DOMAIN W = 1..n
    BY <1>1
  <2> HIDE DEF W, n
  <2> QED
    BY <2>1, <2>2
<1>3. Dated(W, Moved(k, projected)) /\ \A m \in 1..n : W[m] \in Version
  BY <1>1 DEF IInv, IndexInv, Indexed
<1>4. \A m \in 1..n : m # n => W[m].to # None
  <2>1. \A m \in 1..n : m # n => W[m].to \in 0..projected
    BY DEF IInv, IndexInv, Indexed, Tracks
  <2>2. \A m \in 0..projected : m \in Nat
    BY HeadIs
  <2> QED
    BY <2>1, <2>2, ConstantsDiffer
<1>5. ASSUME NEW x \in 1..n, NEW y \in 1..n, x < y,
             liveFilter(W[x], b, FALSE), liveFilter(W[y], b, FALSE)
      PROVE  FALSE
  <2>1. x # n
    BY <1>1, <1>5
  <2>2. W[x].to # None /\ W[x].to \in Nat \cup {None} /\ W[y].from \in Nat
    BY <1>3, <1>4, <2>1 DEF Version
  <2>3. W[x].to > b /\ W[y].from <= b
    BY <1>5, <2>2 DEF liveFilter
  <2>4. W[x].to <= W[y].from
    BY <1>3, <1>5 DEF Dated
  <2> QED
    BY <1>1, <2>2, <2>3, <2>4
<1> HIDE DEF W, n
<1>6. ~(i < j) /\ ~(j < i)
  BY <1>2, <1>5
<1>7. i \in 1..n /\ j \in 1..n
  BY <1>2
<1> QED
  BY <1>6, <1>7, SMT

\* What a row of a page is.
Lists(c, v) ==
  \E k \in LiveAt(c.block) : \E i \in Covered(k, c.block) :
    /\ v = versions[k][i] /\ node[c.block][k] = Entity(v)
    /\ Selected(c.query, v) /\ (c.after # None => Earlier(c.after, v.created))

LEMMA MatchingLists ==
  ASSUME ReadsAssumption, IInv, call # None
  PROVE  \A v \in Matching(call) : v \in Version /\ Lists(call, v)
<1> SUFFICES ASSUME NEW v \in Matching(call) PROVE v \in Version /\ Lists(call, v)
  OBVIOUS
<1>1. /\ v \in UNION {{versions[k][i] : i \in DOMAIN versions[k]} : k \in Keys}
      /\ liveFilter(v, call.block, call.atHead) /\ Selected(call.query, v)
      /\ (call.after # None => Earlier(call.after, v.created))
  BY DEF Matching
<1>2. PICK k \in Keys : v \in {versions[k][i] : i \in DOMAIN versions[k]}
  BY <1>1
<1>3. PICK i \in DOMAIN versions[k] : v = versions[k][i]
  BY <1>2
<1>4. liveFilter(v, call.block, FALSE)
  BY <1>1 DEF liveFilter
<1>5. call.block \in 0..projected /\ versions[k] \in Seq(Version)
  BY DEF IInv, ClientInv, IndexInv
<1>6. k \in LiveAt(call.block) /\ node[call.block][k] = Entity(v)
  BY <1>3, <1>4, <1>5, LiveIsNode
<1>7. i \in Covered(k, call.block)
  BY <1>3, <1>4, Zenon DEF Covered
<1>8. v \in Version
  BY <1>3, <1>5
<1> QED
  BY <1>1, <1>3, <1>6, <1>7, <1>8 DEF Lists

LEMMA MatchingIs ==
  ASSUME ReadsAssumption, IInv, CreatedInv, call # None
  PROVE  Orderable(Matching(call))
<1> DEFINE of(k) == {versions[k][i] : i \in DOMAIN versions[k]}
           M == Matching(call)
<1>1. IsFiniteSet(M)
  <2>1. ASSUME NEW k \in Keys PROVE IsFiniteSet(of(k))
    <3>1. versions[k] \in Seq(Version)
      BY DEF IInv, IndexInv
    <3>2. DOMAIN versions[k] = 1..Len(versions[k]) /\ Len(versions[k]) \in Nat
      BY <3>1
    <3>3. IsFiniteSet(DOMAIN versions[k])
      BY <3>2, FS_Interval, SMT
    <3>4. versions[k] \in Surjection(DOMAIN versions[k], of(k))
      BY <3>1 DEF Surjection
    <3> QED
      BY <3>3, <3>4, FS_Surjection
  <2>2. IsFiniteSet({of(k) : k \in Keys})
    <3>1. [k \in Keys |-> of(k)] \in Surjection(Keys, {of(k) : k \in Keys})
      BY DEF Surjection
    <3> QED
      BY <3>1, FS_Surjection DEF ReadsAssumption
  <2>3. IsFiniteSet(UNION {of(k) : k \in Keys})
    <3> HIDE DEF of
    <3> QED
      BY <2>1, <2>2, FS_UNION
  <2>4. M \subseteq UNION {of(k) : k \in Keys}
    BY DEF Matching
  <2> QED
    BY <2>3, <2>4, FS_Subset
<1>2. \A v \in M : v \in Version /\ v.created \in Places /\ Lists(call, v)
  BY MatchingLists DEF Version
<1>3. ASSUME NEW v \in M, NEW w \in M, v # w PROVE v.created # w.created
  <2> DEFINE b == call.block
  <2>1. b \in 0..projected /\ b \in 0..head
    BY HeadIs DEF IInv, ClientInv
  <2>2. PICK k \in LiveAt(b) : \E i \in Covered(k, b) :
                                 v = versions[k][i] /\ node[b][k] = Entity(v)
    BY <1>2 DEF Lists
  <2>3. PICK l \in LiveAt(b) : \E i \in Covered(l, b) :
                                 w = versions[l][i] /\ node[b][l] = Entity(w)
    BY <1>2 DEF Lists
  <2>4. k \in Keys /\ l \in Keys
    BY DEF LiveAt
  <2>5. k # l
    BY <1>3, <2>1, <2>2, <2>3, <2>4, LiveOnce
  <2>6. Entity(v) \in State /\ Entity(w) \in State
    BY <1>2 DEF Version, State, Entity
  <2>7. node[b][k].created # node[b][l].created
    BY <2>1, <2>2, <2>3, <2>4, <2>5, <2>6 DEF CreatedInv, Distinct
  <2> QED
    BY <2>2, <2>3, <2>7 DEF Entity
<1> QED
  BY <1>1, <1>2, <1>3 DEF Orderable

\* What the pages before the one that is asked for have said.
Told ==
  IF walk = None
  THEN [query |-> call.query, block |-> call.block, pinned |-> TRUE, seen |-> << >>]
  ELSE walk

IsTold(e) == \E i \in DOMAIN Told.seen : Told.seen[i] = e
After(c, at) == c.after # None => Earlier(c.after, at)

LEMMA ToldIs ==
  ASSUME ReadsAssumption, IInv, WalkInv, call # None
  PROVE  /\ Told \in Walk /\ Told.query = call.query /\ Told.block = call.block
         /\ Sorted(Told.seen)
         /\ \A i \in DOMAIN Told.seen :
              /\ \E k \in LiveAt(call.block) : Told.seen[i] = node[call.block][k]
              /\ \A at \in Places : After(call, at) => Earlier(Told.seen[i].created, at)
         /\ Told.pinned => \A e \in Listed(call.query, call.block) :
                             IsTold(e) \/ After(call, e.created)
<1>1. call \in Call
  BY DEF WalkInv
<1>2. CASE walk = None
  <2>1. Told = [query |-> call.query, block |-> call.block, pinned |-> TRUE, seen |-> << >>]
    BY <1>2 DEF Told
  <2>2. << >> \in Seq(State) /\ DOMAIN << >> = {}
    BY SMT
  <2>3. Told \in Walk /\ Told.seen = << >> /\ Told.query = call.query /\ Told.block = call.block
    BY <1>1, <2>1, <2>2 DEF Call, Walk
  <2>4. Sorted(Told.seen) /\ \A i \in DOMAIN Told.seen : FALSE
    BY <2>2, <2>3 DEF Sorted
  <2>5. call.after = None
    BY <1>2 DEF WalkInv, GoesOn
  <2>6. \A at : After(call, at)
    BY <2>5 DEF After
  <2> QED
    BY <2>3, <2>4, <2>6
<1>3. CASE walk # None
  <2> DEFINE n == Len(walk.seen)
  <2>1. Told = walk
    BY <1>3 DEF Told
  <2>2. call.after # None /\ GoesOn(call) /\ walk \in Walk
    BY <1>3 DEF WalkInv
  <2>3. walk.seen \in Seq(State)
    BY <2>2 DEF Walk
  <2>4. walk.seen # << >> /\ walk.seen[n].created = call.after
    BY <2>2 DEF GoesOn
  <2>5. Sorted(walk.seen)
    BY <1>3 DEF WalkInv, NothingLeaks, Sorted
  <2>6. ASSUME NEW i \in DOMAIN walk.seen, NEW at \in Places, After(call, at)
        PROVE  Earlier(walk.seen[i].created, at)
    <3>1. n \in DOMAIN walk.seen /\ (i = n \/ i < n)
      BY <2>3, <2>4
    <3>2. Earlier(call.after, at)
      BY <2>2, <2>6 DEF After
    <3>3. CASE i = n
      BY <2>4, <3>2, <3>3
    <3>4. CASE i < n
      <4>1. Earlier(walk.seen[i].created, call.after)
        BY <2>4, <2>5, <3>1, <3>4 DEF Sorted
      <4>2. walk.seen[i] \in State /\ walk.seen[n] \in State
        BY <2>3, <3>1
      <4>3. walk.seen[i].created \in Places /\ call.after \in Places
        BY <2>4, <4>2 DEF State
      <4> QED
        BY <2>6, <3>2, <4>1, <4>3, EarlierOrders
    <3> QED
      BY <3>1, <3>3, <3>4
  <2>7. walk.query = call.query /\ walk.block = call.block
    BY <2>2 DEF GoesOn
  <2>8. \A i \in DOMAIN walk.seen : \E k \in LiveAt(call.block) : walk.seen[i] = node[call.block][k]
    BY <1>3, <2>7 DEF WalkInv, NothingLeaks
  <2>9. walk.pinned => \A e \in Listed(call.query, call.block) : Seen(e) \/ After(call, e.created)
    BY <1>3, <2>4, <2>7 DEF WalkInv, ToCome, After
  <2> QED
    BY <2>1, <2>2, <2>5, <2>6, <2>7, <2>8, <2>9 DEF Seen, IsTold
<1> QED
  BY <1>2, <1>3

\* A page as it is told.
AsEntities(page) == [i \in DOMAIN page |-> Entity(page[i])]

LEMMA EntitiesAre ==
  ASSUME NEW page \in Seq(Version), Sorted(page)
  PROVE  /\ AsEntities(page) \in Seq(State) /\ Sorted(AsEntities(page))
         /\ Len(AsEntities(page)) = Len(page)
         /\ \A i \in 1..Len(page) : /\ AsEntities(page)[i] = Entity(page[i])
                                    /\ page[i] \in Version
                                    /\ AsEntities(page)[i].created = page[i].created
<1> DEFINE E == AsEntities(page)
           n == Len(page)
<1>1. n \in Nat /\ DOMAIN page = 1..n /\ \A i \in 1..n : page[i] \in Version
  OBVIOUS
<1>2. \A v \in Version : Entity(v) \in State
  BY DEF Version, Entity, State
<1>3. \A v : Entity(v).created = v.created
  BY DEF Entity
<1>4. E = [i \in 1..n |-> Entity(page[i])]
  BY <1>1 DEF AsEntities
<1> HIDE DEF E, n
<1>5. E \in [1..n -> State] /\ \A i \in 1..n : E[i] = Entity(page[i])
  BY <1>1, <1>2, <1>4
<1>6. E \in Seq(State) /\ Len(E) = n /\ DOMAIN E = 1..n
  BY <1>1, <1>5
<1>7. Sorted(E)
  BY <1>1, <1>3, <1>5, <1>6 DEF Sorted
<1> QED
  BY <1>1, <1>3, <1>5, <1>6, <1>7 DEF E, n

LEMMA SortedJoin ==
  ASSUME NEW s \in Seq(State), NEW t \in Seq(State), Sorted(s), Sorted(t),
         \A i \in DOMAIN s, j \in DOMAIN t : Earlier(s[i].created, t[j].created)
  PROVE  Sorted(s \o t)
<1> DEFINE m == Len(s)
           n == Len(t)
           u == s \o t
<1>1. m \in Nat /\ n \in Nat /\ DOMAIN s = 1..m /\ DOMAIN t = 1..n /\ DOMAIN u = 1..(m + n)
  OBVIOUS
<1>2. \A i \in 1..(m + n) : u[i] = IF i <= m THEN s[i] ELSE t[i - m]
  OBVIOUS
<1> HIDE DEF m, n, u
<1> SUFFICES ASSUME NEW i \in 1..(m + n), NEW j \in 1..(m + n), i < j
             PROVE  Earlier(u[i].created, u[j].created)
  BY <1>1 DEF Sorted, u
<1>3. CASE j <= m
  <2>1. i \in 1..m /\ j \in 1..m /\ i <= m
    BY <1>1, <1>3, SMT
  <2> QED
    BY <1>1, <1>2, <1>3, <2>1 DEF Sorted
<1>4. CASE i <= m /\ ~(j <= m)
  <2>1. i \in 1..m /\ j - m \in 1..n
    BY <1>1, <1>4, SMT
  <2> QED
    BY <1>1, <1>2, <1>4, <2>1
<1>5. CASE ~(i <= m)
  <2>1. i - m \in 1..n /\ j - m \in 1..n /\ i - m < j - m /\ ~(j <= m)
    BY <1>1, <1>5, SMT
  <2> QED
    BY <1>1, <1>2, <1>5, <2>1 DEF Sorted
<1> QED
  BY <1>3, <1>4, <1>5

LEMMA AnswerIs ==
  ASSUME ReadsAssumption, IInv, WalkInv, Answer
  PROVE  LET rows == InOrder(Matching(call))
             page == Page(rows)
         IN  /\ call # None /\ call' = None /\ UNCHANGED <<node, projected>>
             /\ walk' = [Told EXCEPT !.pinned = @ /\ ~call.atHead, !.seen = @ \o AsEntities(page)]
             /\ cursor' = IF Len(rows) > PageSize
                          THEN [query |-> call.query, block |-> call.block,
                                after |-> Last(page).created]
                          ELSE None
  BY Zenon DEF Answer, Page, Told, AsEntities, chain, index

LEMMA AnswerTells ==
  ASSUME ReadsAssumption, IInv, CreatedInv, WalkInv, Answer,
         NEW page \in Seq(Version), page = Page(InOrder(Matching(call))), Sorted(page),
         \A i \in 1..Len(page) : page[i] \in Matching(call)
  PROVE  /\ walk' \in Walk /\ walk'.query = call.query /\ walk'.block = call.block
         /\ walk'.pinned => Told.pinned /\ ~call.atHead
         /\ walk'.seen = Told.seen \o AsEntities(page) /\ Sorted(walk'.seen)
         /\ \A i \in DOMAIN walk'.seen : \E k \in LiveAt(call.block) :
              walk'.seen[i] = node[call.block][k]
<1> DEFINE s == Told.seen
           t == AsEntities(page)
<1>1. /\ call # None /\ call.block \in 0..projected
      /\ walk' = [Told EXCEPT !.pinned = @ /\ ~call.atHead, !.seen = @ \o t]
  BY AnswerIs DEF IInv, ClientInv
<1>2. /\ Told \in Walk /\ Told.query = call.query /\ Told.block = call.block /\ Sorted(s)
      /\ \A i \in DOMAIN s :
           /\ \E k \in LiveAt(call.block) : s[i] = node[call.block][k]
           /\ \A at \in Places : After(call, at) => Earlier(s[i].created, at)
  BY <1>1, ToldIs
<1>3. /\ t \in Seq(State) /\ Sorted(t) /\ Len(t) = Len(page)
      /\ \A i \in 1..Len(page) : /\ t[i] = Entity(page[i]) /\ page[i] \in Version
                                 /\ t[i].created = page[i].created
  BY EntitiesAre
<1>4. s \in Seq(State)
  BY <1>2 DEF Walk
<1>5. \A i \in 1..Len(page) : Lists(call, page[i])
  BY <1>1, MatchingLists
<1> HIDE DEF s, t
<1>6. DOMAIN t = 1..Len(page) /\ DOMAIN s = 1..Len(s) /\ s \o t \in Seq(State)
  BY <1>3, <1>4
<1>7. \A i \in DOMAIN s, j \in DOMAIN t : Earlier(s[i].created, t[j].created)
  <2> SUFFICES ASSUME NEW i \in DOMAIN s, NEW j \in DOMAIN t
               PROVE  Earlier(s[i].created, t[j].created)
    OBVIOUS
  <2>1. page[j] \in Version /\ t[j].created = page[j].created /\ Lists(call, page[j])
    BY <1>3, <1>5, <1>6
  <2>2. page[j].created \in Places
    BY <2>1 DEF Version
  <2>3. After(call, page[j].created)
    BY <2>1 DEF Lists, After
  <2> QED
    BY <1>2, <2>1, <2>2, <2>3
<1>8. Sorted(s \o t)
  BY <1>2, <1>3, <1>4, <1>7, SortedJoin
<1>9. /\ walk'.query = call.query /\ walk'.block = call.block /\ walk'.seen = s \o t
      /\ walk'.pinned = (Told.pinned /\ ~call.atHead) /\ walk' \in Walk
  <2>1. /\ Told.query \in Queries /\ Told.block \in Nat
        /\ Told = [query |-> Told.query, block |-> Told.block, pinned |-> Told.pinned, seen |-> s]
    BY <1>2 DEF Walk, s
  <2>2. walk' = [query |-> Told.query, block |-> Told.block,
                 pinned |-> (Told.pinned /\ ~call.atHead), seen |-> s \o t]
    BY <1>1, <2>1 DEF s
  <2>3. (Told.pinned /\ ~call.atHead) \in BOOLEAN
    OBVIOUS
  <2> QED
    BY <1>2, <1>6, <2>1, <2>2, <2>3 DEF Walk
<1>10. ASSUME NEW i \in DOMAIN (s \o t)
       PROVE  \E k \in LiveAt(call.block) : (s \o t)[i] = node[call.block][k]
  <2>1. \/ i \in DOMAIN s /\ (s \o t)[i] = s[i]
        \/ i - Len(s) \in DOMAIN t /\ (s \o t)[i] = t[i - Len(s)]
    BY <1>3, <1>4, <1>6
  <2>2. CASE i \in DOMAIN s /\ (s \o t)[i] = s[i]
    BY <1>2, <2>2
  <2>3. ASSUME NEW j \in DOMAIN t PROVE \E k \in LiveAt(call.block) : t[j] = node[call.block][k]
    BY <1>3, <1>5, <1>6 DEF Lists
  <2> QED
    BY <2>1, <2>2, <2>3
<1> QED
  BY <1>8, <1>9, <1>10 DEF s, t

\* What the page does not show comes after it.
LEMMA AnswerLeavesNothing ==
  ASSUME ReadsAssumption, IInv, CreatedInv, WalkInv, call # None, Told.pinned, ~call.atHead,
         NEW page \in Seq(Version), page = Page(InOrder(Matching(call))),
         NEW e \in Listed(call.query, call.block)
  PROVE  \/ IsTold(e)
         \/ \E i \in 1..Len(page) : Entity(page[i]) = e
         \/ /\ Len(InOrder(Matching(call))) > PageSize
            /\ Earlier(page[Len(page)].created, e.created)
<1> SUFFICES ASSUME ~IsTold(e)
             PROVE  \/ \E i \in 1..Len(page) : Entity(page[i]) = e
                    \/ /\ Len(InOrder(Matching(call))) > PageSize
                       /\ Earlier(page[Len(page)].created, e.created)
  OBVIOUS
<1>1. After(call, e.created) /\ call.block \in 0..projected
  BY ToldIs DEF IInv, ClientInv
<1>2. PICK k \in LiveAt(call.block) :
        /\ e = node[call.block][k]
        /\ call.query = None \/ node[call.block][k].attributes[call.query] # None
  BY DEF Listed
<1>3. PICK i \in DOMAIN versions[k] :
        /\ liveFilter(versions[k][i], call.block, FALSE)
        /\ node[call.block][k] = Entity(versions[k][i])
  BY <1>1, NodeIsLive
<1> DEFINE v == versions[k][i]
<1>4. e = Entity(v) /\ Entity(v).attributes = v.attributes /\ e.created = v.created
  BY <1>2, <1>3 DEF Entity
<1>5. v \in Matching(call)
  <2>1. k \in Keys
    BY DEF LiveAt
  <2>2. v \in UNION {{versions[l][j] : j \in DOMAIN versions[l]} : l \in Keys}
    BY <2>1
  <2>3. liveFilter(v, call.block, call.atHead)
    BY <1>3 DEF liveFilter
  <2> HIDE DEF v
  <2>4. Selected(call.query, v)
    BY <1>2, <1>4 DEF Selected
  <2>5. call.after # None => Earlier(call.after, v.created)
    BY <1>1, <1>4 DEF After
  <2> QED
    BY <2>2, <2>3, <2>4, <2>5 DEF Matching
<1> HIDE DEF v
<1>6. \/ \E j \in 1..Len(page) : page[j] = v
      \/ /\ Len(InOrder(Matching(call))) > PageSize
         /\ Earlier(page[Len(page)].created, v.created)
  BY <1>5, MatchingIs, PageIs
<1> QED
  BY <1>4, <1>6

LEMMA AnswerHolds ==
  ASSUME ReadsAssumption, IInv, CreatedInv, WalkInv, Answer
  PROVE  WalkInv'
<1> DEFINE M == Matching(call)
           rows == InOrder(M)
           page == Page(rows)
           n == Len(page)
           t == AsEntities(page)
           more == Len(rows) > PageSize
<1>1. /\ call # None /\ call' = None /\ UNCHANGED <<node, projected>>
      /\ cursor' = IF more THEN [query |-> call.query, block |-> call.block,
                                 after |-> Last(page).created]
                   ELSE None
  BY AnswerIs
<1>2. /\ page \in Seq(M) /\ Sorted(page) /\ (more => page # << >>)
      /\ \A v \in M : v \in Version
  BY <1>1, MatchingIs, MatchingLists, PageIs
<1>3. page \in Seq(Version) /\ \A i \in 1..n : page[i] \in M
  BY <1>2
<1>4. /\ walk' \in Walk /\ walk'.query = call.query /\ walk'.block = call.block
      /\ walk'.pinned => Told.pinned /\ ~call.atHead
      /\ walk'.seen = Told.seen \o t /\ Sorted(walk'.seen)
      /\ \A i \in DOMAIN walk'.seen : \E k \in LiveAt(call.block) :
           walk'.seen[i] = node[call.block][k]
  <2> HIDE DEF t
  <2> QED
    BY <1>2, <1>3, AnswerTells DEF t
<1>5. /\ t \in Seq(State) /\ Len(t) = n
      /\ \A i \in 1..n : t[i] = Entity(page[i]) /\ t[i].created = page[i].created
  BY <1>2, <1>3, EntitiesAre
<1>6. Told.seen \in Seq(State)
  BY <1>1, ToldIs DEF Walk
<1> HIDE DEF t
<1>7. walk' # None /\ walk'.seen \in Seq(State)
  BY <1>4 DEF Walk, ReadsAssumption
<1>8. /\ \A i \in DOMAIN Told.seen : i \in DOMAIN walk'.seen /\ walk'.seen[i] = Told.seen[i]
      /\ \A i \in 1..n : \E j \in DOMAIN walk'.seen : walk'.seen[j] = t[i]
  <2>1. \A i \in DOMAIN Told.seen : i \in DOMAIN walk'.seen /\ walk'.seen[i] = Told.seen[i]
    BY <1>4, <1>5, <1>6
  <2>2. ASSUME NEW i \in 1..n
        PROVE  Len(Told.seen) + i \in DOMAIN walk'.seen /\ walk'.seen[Len(Told.seen) + i] = t[i]
    BY <1>3, <1>4, <1>5, <1>6
  <2> QED
    BY <2>1, <2>2
<1>9. ASSUME more
      PROVE  /\ cursor' # None /\ cursor' \in Cursor
             /\ cursor'.query = call.query /\ cursor'.block = call.block
             /\ walk'.seen # << >> /\ walk'.seen[Len(walk'.seen)].created = page[n].created
             /\ cursor'.after = page[n].created
  <2>1. n \in 1..n /\ Last(page) = page[n] /\ page[n] \in Version
    BY <1>2, <1>3, <1>9 DEF Last
  <2>2. page[n].created \in Places
    BY <2>1 DEF Version
  <2>3. call.query \in Queries /\ call.block \in Nat
    BY <1>1 DEF WalkInv, Call
  <2>4. cursor' = [query |-> call.query, block |-> call.block, after |-> page[n].created]
    BY <1>1, <1>9, <2>1
  <2>5. cursor' \in Cursor
    BY <2>2, <2>3, <2>4 DEF Cursor
  <2>6. Len(walk'.seen) = Len(Told.seen) + n /\ walk'.seen[Len(walk'.seen)] = t[n]
    <3> HIDE DEF n
    <3>1. n \in Nat /\ Len(t) = n /\ n \in 1..n /\ t \in Seq(State)
      BY <1>5, <2>1
    <3>2. Len(Told.seen \o t) = Len(Told.seen) + n
      BY <1>6, <3>1
    <3>3. (Told.seen \o t)[Len(Told.seen) + n] = t[n]
      BY <1>6, <3>1
    <3> QED
      BY <1>4, <3>2, <3>3
  <2>7. walk'.seen # << >>
    BY <1>4, <1>5, <1>6, <2>1
  <2>8. cursor' # None
    BY <2>5 DEF ReadsAssumption
  <2>9. t[n].created = page[n].created
    BY <1>5, <2>1
  <2> QED
    BY <2>4, <2>5, <2>6, <2>7, <2>8, <2>9
<1>10. cursor' # None => cursor' \in Cursor /\ GoesOn(cursor)'
  <2>1. cursor' # None => more
    BY <1>1
  <2> QED
    BY <1>4, <1>7, <1>9, <2>1 DEF GoesOn
<1>12. \A b : LiveAt(b)' = LiveAt(b)
  BY <1>1 DEF LiveAt
<1>13. \A q, b : Listed(q, b)' = Listed(q, b)
  BY <1>1, <1>12 DEF Listed
<1>14. NothingLeaks'
  BY <1>1, <1>4, <1>12 DEF NothingLeaks, Sorted
<1>15. ASSUME walk'.pinned, NEW e \in Listed(call.query, call.block)
       PROVE  Seen(e)' \/ ToCome(e)'
  <2>1. \/ IsTold(e)
        \/ \E i \in 1..n : Entity(page[i]) = e
        \/ more /\ Earlier(page[n].created, e.created)
    <3>1. Told.pinned /\ ~call.atHead
      BY <1>4, <1>15
    <3> QED
      BY <1>1, <1>3, <3>1, AnswerLeavesNothing
  <2> HIDE DEF page, rows, M
  <2>2. CASE IsTold(e)
    BY <1>8, <2>2 DEF IsTold, Seen
  <2>3. CASE \E i \in 1..n : Entity(page[i]) = e
    BY <1>5, <1>8, <2>3 DEF Seen
  <2>4. CASE more /\ Earlier(page[n].created, e.created)
    BY <1>9, <2>4 DEF ToCome
  <2> QED
    BY <2>1, <2>2, <2>3, <2>4
<1>16. walk'.pinned => \A e \in Listed(walk.query, walk.block)' : Seen(e)' \/ ToCome(e)'
  BY <1>4, <1>13, <1>15
<1> QED
  BY <1>1, <1>4, <1>10, <1>14, <1>16 DEF WalkInv

\* What the pages say is not touched by a new block or by a fold.
LEMMA WalkKeeps ==
  ASSUME ReadsAssumption, IInv, WalkInv, UNCHANGED <<call, cursor, walk>>,
         \A b \in 0..head : node'[b] = node[b]
  PROVE  WalkInv'
<1>1. CASE walk = None
  BY <1>1 DEF WalkInv, GoesOn, NothingLeaks
<1>2. CASE walk # None
  <2> DEFINE b == walk.block
  <2>1. b \in 0..head
    BY <1>2, HeadIs DEF IInv, ClientInv
  <2>2. node'[b] = node[b]
    BY <2>1
  <2>3. LiveAt(walk.block)' = LiveAt(walk.block)
    BY <2>2 DEF LiveAt
  <2>4. Listed(walk.query, walk.block)' = Listed(walk.query, walk.block)
    BY <2>2, <2>3 DEF Listed
  <2>5. NothingLeaks'
    BY <2>2, <2>3 DEF WalkInv, NothingLeaks
  <2>6. \A e : (Seen(e)' <=> Seen(e)) /\ (ToCome(e)' <=> ToCome(e))
    BY DEF Seen, ToCome
  <2>7. /\ call # None => (GoesOn(call)' <=> GoesOn(call))
        /\ cursor # None => (GoesOn(cursor)' <=> GoesOn(cursor))
    BY DEF GoesOn
  <2> QED
    BY <2>4, <2>5, <2>6, <2>7 DEF WalkInv
<1> QED
  BY <1>1, <1>2

LEMMA FirstPageHolds ==
  ASSUME ReadsAssumption, IInv, FirstPage
  PROVE  WalkInv'
<1>1. PICK query \in Queries, requested \in (0..head) \cup {None} : Resolve(query, requested, None)
  BY DEF FirstPage
<1>2. walk' = None /\ cursor' = None
  BY DEF FirstPage
<1>3. \E atHead \in BOOLEAN :
        call' = [query |-> query, block |-> call'.block, atHead |-> atHead, after |-> None]
  <2>1. (requested \in {None, projected}) \in BOOLEAN
    OBVIOUS
  <2> QED
    BY <1>1, <2>1 DEF Resolve
<1>4. call'.block \in 0..projected
  BY <1>1, ResolveIs
<1>5. call' \in Call /\ call'.after = None
  <2>1. call'.block \in Nat
    BY <1>4, HeadIs
  <2> QED
    BY <1>3, <2>1 DEF Call
<1> QED
  BY <1>2, <1>5 DEF WalkInv, NothingLeaks

LEMMA NextPageHolds ==
  ASSUME ReadsAssumption, IInv, WalkInv, NextPage
  PROVE  WalkInv'
<1>1. PICK query \in Queries, block \in 0..head :
        Resumes(query, block) /\ Resolve(query, block, cursor.after)
  BY DEF NextPage
<1>2. cursor' = None /\ UNCHANGED <<node, walk>>
  BY DEF NextPage, chain
<1>3. cursor # None /\ cursor.query = query /\ cursor.block = block
  BY <1>1 DEF Resumes
<1>4. cursor \in Cursor /\ GoesOn(cursor)
  BY <1>3 DEF WalkInv
<1>5. block \in Nat /\ block # None
  BY <1>3, <1>4, ConstantsDiffer DEF Cursor
<1>6. call' = [query |-> query, block |-> block,
               atHead |-> block \in {None, projected}, after |-> cursor.after]
  BY <1>1, <1>5 DEF Resolve
<1>7. cursor.after \in Places /\ cursor.after # None
  BY <1>4 DEF Cursor, ReadsAssumption
<1>8. call' \in Call /\ call'.after # None
  <2>1. (block \in {None, projected}) \in BOOLEAN
    OBVIOUS
  <2> QED
    BY <1>5, <1>6, <1>7, <2>1 DEF Call
<1>9. call' # None
  BY <1>8 DEF ReadsAssumption
<1>10. GoesOn(call)'
  BY <1>2, <1>3, <1>4, <1>6 DEF GoesOn
<1>11. NothingLeaks'
  BY <1>2 DEF WalkInv, NothingLeaks, LiveAt
<1>12. Listed(walk.query, walk.block)' = Listed(walk.query, walk.block)
  BY <1>2 DEF Listed, LiveAt
<1>13. \A e : (Seen(e) => Seen(e)') /\ (ToCome(e) => ToCome(e)')
  BY <1>2, <1>9 DEF Seen, ToCome
<1> QED
  BY <1>2, <1>8, <1>10, <1>11, <1>12, <1>13 DEF WalkInv

LEMMA WalkHolds ==
  ASSUME ReadsAssumption, IInv, CreatedInv, WalkInv, Next
  PROVE  WalkInv'
<1>1. CASE MineBlock
  BY <1>1, MineBlockKeeps, WalkKeeps
<1>2. CASE Fold
  BY <1>2, FoldKeeps, WalkKeeps
<1>3. CASE ReadProgress
  BY <1>3 DEF ReadProgress, WalkInv, NothingLeaks
<1>4. CASE ReadLatest
  BY <1>4, WalkKeeps DEF ReadLatest, chain, paging
<1> QED
  BY <1>1, <1>2, <1>3, <1>4, FirstPageHolds, NextPageHolds, AnswerHolds DEF Next

LEMMA WalkFollows ==
  ASSUME WalkInv
  PROVE  NothingLeaks /\ PinnedComplete
<1>1. ASSUME Finished, walk.pinned PROVE Missing = {}
  <2>1. walk # None /\ \A e : ~ToCome(e)
    BY <1>1 DEF Finished, ToCome
  <2>2. \A e \in Listed(walk.query, walk.block) : Seen(e)
    BY <1>1, <2>1 DEF WalkInv
  <2> QED
    BY <2>2 DEF Missing, Seen
<1> QED
  BY <1>1 DEF WalkInv, PinnedComplete

-----------------------------------------------------------------------------
(* What follows. *)

LEMMA FoldFollows ==
  ASSUME ReadsAssumption, IInv
  PROVE  FoldIsNode
<1> SUFFICES ASSUME NEW block \in 0..projected
             PROVE  UNION {{[key |-> k, entity |-> Entity(v)] : v \in
                        {versions[k][i] : i \in {j \in DOMAIN versions[k] :
                            liveFilter(versions[k][j], block, FALSE)}}} : k \in Keys}
                      = {[key |-> k, entity |-> node[block][k]] : k \in LiveAt(block)}
  BY DEF FoldIsNode
<1> DEFINE live(k) == {j \in DOMAIN versions[k] : liveFilter(versions[k][j], block, FALSE)}
           of(k) == {[key |-> k, entity |-> Entity(v)] : v \in {versions[k][i] : i \in live(k)}}
           had == {[key |-> k, entity |-> node[block][k]] : k \in LiveAt(block)}
<1>1. ASSUME NEW k \in Keys, NEW x \in of(k) PROVE x \in had
  <2>1. PICK i \in live(k) : x = [key |-> k, entity |-> Entity(versions[k][i])]
    OBVIOUS
  <2>2. k \in LiveAt(block) /\ node[block][k] = Entity(versions[k][i])
    BY <2>1, LiveIsNode
  <2> QED
    BY <2>1, <2>2
<1>2. ASSUME NEW x \in had PROVE \E k \in Keys : x \in of(k)
  <2>1. PICK k \in LiveAt(block) : x = [key |-> k, entity |-> node[block][k]]
    OBVIOUS
  <2>2. PICK i \in DOMAIN versions[k] :
          /\ liveFilter(versions[k][i], block, FALSE)
          /\ node[block][k] = Entity(versions[k][i])
    BY NodeIsLive
  <2>3. k \in Keys
    BY DEF LiveAt
  <2> QED
    BY <2>1, <2>2, <2>3
<1> HIDE DEF of, had
<1>3. UNION {of(k) : k \in Keys} = had
  BY <1>1, <1>2
<1> QED
  BY <1>3 DEF of, had

LEMMA EventsFollow ==
  ASSUME ReadsAssumption, IInv
  PROVE  EventsFound
<1> SUFFICES ASSUME NEW t \in DOMAIN txs, txs[t].logs # << >>, NEW i \in DOMAIN txs[t].ops
             PROVE  attachEvents(txs[t], i) = txs[t].logs[i]
  BY DEF EventsFound
<1>1. ChainInv /\ t \in 1..head
  BY DEF IInv, ChainInv
<1>2. txs[t].ops \in Seq(Operation) /\ txs[t].logs = Events(txs[t].ops, t)
  BY <1>1, TransactionIs DEF Mined
<1> QED
  BY <1>2, EventFound

LEMMA TypesFollow ==
  ASSUME ReadsAssumption, IInv
  PROVE  TypeOK
<1>1. ChainInv /\ IndexInv /\ ClientInv
  BY DEF IInv
<1>2. head \in Nat /\ projected \in 0..head /\ \A x \in 0..projected : x \in 0..head
  <2>1. head \in Nat /\ projected \in 0..head
    BY <1>1, SMT DEF ChainInv, IndexInv
  <2> QED
    BY <2>1, SMT
<1>3. ASSUME NEW k \in Keys, NEW i \in DOMAIN versions[k]
      PROVE  /\ versions[k][i].from \in 0..head
             /\ versions[k][i].to \in (0..head) \cup {None}
             /\ versions[k][i].expires \in 0..MaxExpiry
  <2>1. versions[k] \in Seq(Version) /\ i \in 1..Len(versions[k])
    BY <1>1 DEF IndexInv
  <2>2. versions[k][i] \in Version
    BY <2>1
  <2>3. /\ versions[k][i].from \in 0..projected
        /\ IF i = Len(versions[k]) THEN versions[k][i].to = None
                                   ELSE versions[k][i].to \in 0..projected
    BY <1>1, <2>1 DEF IndexInv, Indexed, Tracks
  <2> QED
    BY <1>2, <2>2, <2>3 DEF Version, Expiries
<1>4. DOMAIN node = 0..head
  BY <1>1 DEF ChainInv
<1> QED
  BY <1>1, <1>2, <1>3, <1>4 DEF TypeOK, ChainInv, ClientInv

LEMMA Invariance == ASSUME ReadsAssumption PROVE Spec => []IInv
<1>1. Init => IInv
  BY InitHolds
<1>2. IInv /\ [Next]_vars => IInv'
  BY NextHolds
<1> QED
  BY <1>1, <1>2, PTL DEF Spec

LEMMA IInvImplies ==
  ASSUME ReadsAssumption, IInv PROVE TypeOK /\ FoldIsNode /\ EventsFound
  BY FoldFollows, EventsFollow, TypesFollow

\* At every projected block the versions of the index that are live there are
\* the node's entities, in the state they had, for any entities, attributes and
\* transactions, logs stored or not, and however the chain is cut into folds.
THEOREM FoldsAreTrue == ASSUME ReadsAssumption PROVE Spec => []FoldIsNode
<1>1. IInv => FoldIsNode
  BY IInvImplies
<1> QED
  BY <1>1, Invariance, PTL

\* Where the logs are stored, each operation finds the event that it emitted.
THEOREM EventsAreFound == ASSUME ReadsAssumption PROVE Spec => []EventsFound
<1>1. IInv => EventsFound
  BY IInvImplies
<1> QED
  BY <1>1, Invariance, PTL

\* The variables have their types.
THEOREM TypeCorrect == ASSUME ReadsAssumption PROVE Spec => []TypeOK
<1>1. IInv => TypeOK
  BY IInvImplies
<1> QED
  BY <1>1, Invariance, PTL

LEMMA ReaderInit == ASSUME ReadsAssumption, Init PROVE ReaderInv
<1>1. CreatedInv
  BY InitCreated
<1>2. WalkInv /\ ShownInv
  BY DEF Init, WalkInv, NothingLeaks, ShownInv
<1> QED
  BY <1>1, <1>2 DEF ReaderInv

LEMMA ReaderNext ==
  ASSUME ReadsAssumption, IInv, ReaderInv, [Next]_vars PROVE ReaderInv'
<1>1. CASE Next
  BY <1>1, CreatedHolds, WalkHolds, ShownHolds DEF ReaderInv
<1>2. CASE UNCHANGED vars
  BY <1>2 DEF vars, ReaderInv, CreatedInv, WalkInv, GoesOn, Seen, ToCome, NothingLeaks, LiveAt,
     Listed, ShownInv, Moved
<1> QED
  BY <1>1, <1>2

LEMMA ReaderImplies ==
  ASSUME ReadsAssumption, IInv, ReaderInv PROVE NothingLeaks /\ PinnedComplete /\ StateNotBehind
  BY WalkFollows, ShownFollows DEF ReaderInv

LEMMA ReaderInvariance == ASSUME ReadsAssumption PROVE Spec => [](IInv /\ ReaderInv)
<1>1. Init => IInv /\ ReaderInv
  BY InitHolds, ReaderInit
<1>2. IInv /\ ReaderInv /\ [Next]_vars => (IInv /\ ReaderInv)'
  BY NextHolds, ReaderNext
<1> QED
  BY <1>1, <1>2, PTL DEF Spec

\* Whatever is mined and folded between two pages of a query, what they say was
\* live at the block they name, in the state it had there, and no entity comes
\* twice or out of order; and the pages of a block below the head leave nothing
\* out.
THEOREM WalksAreSound == ASSUME ReadsAssumption PROVE Spec => [](NothingLeaks /\ PinnedComplete)
<1>1. IInv /\ ReaderInv => NothingLeaks /\ PinnedComplete
  BY ReaderImplies
<1> QED
  BY <1>1, ReaderInvariance, PTL

\* The state of one entity is never older than the head it is said to be as of,
\* though the head and the version are read by two statements.
THEOREM StatesAreNotBehind == ASSUME ReadsAssumption PROVE Spec => []StateNotBehind
<1>1. IInv /\ ReaderInv => StateNotBehind
  BY ReaderImplies
<1> QED
  BY <1>1, ReaderInvariance, PTL
=============================================================================
