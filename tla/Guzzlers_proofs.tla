--------------------------- MODULE Guzzlers_proofs ---------------------------
(***************************************************************************)
(* The guzzler board counts right, and a sender that memory has forgotten  *)
(* does not come back, proved for any senders, windows, bucket width, time *)
(* and number of blocks, restarts and broken connections.                  *)
(*                                                                         *)
(* Buckets travel: from memory over the wire into Redis, and back at a     *)
(* restart, old ones over new ones.  Wherever they are they count no more  *)
(* than was recorded for their minute.  In memory, as long as the process  *)
(* lives, they also count no less than what is young enough to matter.     *)
(***************************************************************************)
EXTENDS Guzzlers, FunctionTheorems, FiniteSetTheorems, SequenceTheorems,
        WellFoundedInduction, NaturalsInduction, TLAPS

Bucket == [count : Nat, lastMs : Int]
Buckets == [Minutes -> Bucket]

\* The commands: a put of a sender's buckets, the removal of some senders.
PutCommand == [by : {"scanner", "sweep"}, put : {{s} : s \in Senders}, to : Buckets]
RemovalCommand == [by : {"scanner", "sweep"}, put : {{}}, to : SUBSET Senders]
Commanded == PutCommand \cup RemovalCommand

\* The blocks of history h that sender s had a transaction in, in minute m.
Of(h, s, m) == {i \in DOMAIN h : s \in h[i][2] /\ minuteOf(h[i][1]) = m}
History == Seq(Times \X SUBSET Senders)

\* Buckets of sender s that count no more than was recorded for their minute.
Honest(h, b, s) ==
  /\ b \in Buckets
  /\ \A m \in Minutes :
       /\ b[m].count <= Cardinality(Of(h, s, m))
       /\ b[m].count > 0 => b[m].lastMs \in Times /\ minuteOf(b[m].lastMs) = m
       /\ b[m].count = 0 => b[m] = Empty

\* ... and no less than what is younger than the retention at time t.
Complete(h, b, s, t) ==
  \A m \in Minutes :
    LET young == {i \in Of(h, s, m) : h[i][1] > t - Retention}
    IN  /\ Cardinality(young) <= b[m].count
        /\ \A i \in young : h[i][1] <= b[m].lastMs

Types ==
  /\ now \in Times
  /\ seen \in History /\ Len(seen) <= MaxBlocks
  /\ tracker \in [Senders -> Buckets] /\ redis \in [Senders -> Buckets]
  /\ wire \in Seq(Commanded)
  /\ removing \subseteq Senders
  /\ doubtful \in BOOLEAN /\ faults \in 0..MaxFaults

HonestWire(h, w) == \A i \in DOMAIN w : \A s \in w[i].put : Honest(h, w[i].to, s)

HonestInv ==
  /\ \A s \in Senders : Honest(seen, tracker[s], s) /\ Honest(seen, redis[s], s)
  /\ HonestWire(seen, wire)

CompleteInv == faults = 0 => \A s \in Senders : Complete(seen, tracker[s], s, now)

\* A command that leaves something of sender s in Redis, and one that clears it.
Fills(c, s) == s \in c.put /\ ~Absent(c.to)
Clears(c, s) == c.put = {} /\ s \in c.to

\* What is left of sender s in Redis, or is under way there, is cleared later on.
Settled(r, w, s) ==
  /\ ~Absent(r[s]) => \E i \in DOMAIN w : Clears(w[i], s)
  /\ \A j \in DOMAIN w : Fills(w[j], s) => \E i \in DOMAIN w : i > j /\ Clears(w[i], s)

GhostInv ==
  ~doubtful => \A s \in Senders : Absent(tracker[s]) => s \in removing \/ Settled(redis, wire, s)

IInv == Types /\ HonestInv /\ CompleteInv /\ GhostInv

-----------------------------------------------------------------------------
(* Numbers, and counting. *)

LEMMA IntervalBounds == 1 \in Int /\ \A n \in Nat : n \in Int
  OBVIOUS

LEMMA Constants ==
  ASSUME GuzzlersAssumption
  PROVE  /\ IsFiniteSet(Senders)
         /\ Len(Spans) \in Nat \ {0} /\ DOMAIN Spans = 1..Len(Spans)
         /\ \A i \in DOMAIN Spans : Spans[i] \in Nat \ {0}
         /\ \A i, j \in DOMAIN Spans : i <= j => Spans[i] <= Spans[j]
         /\ Retention \in Nat \ {0}
         /\ \A i \in DOMAIN Spans : Spans[i] <= Retention
         /\ BucketWidth \in Nat \ {0} /\ MaxTime \in Nat /\ MaxBlocks \in Nat /\ MaxFaults \in Nat
<1>1. /\ Spans \in Seq(Nat \ {0}) /\ Spans # << >>
      /\ \A i, j \in DOMAIN Spans : i < j => Spans[i] < Spans[j]
  BY DEF GuzzlersAssumption
<1>2. Len(Spans) \in Nat \ {0} /\ DOMAIN Spans = 1..Len(Spans)
  BY <1>1, EmptySeq, LenProperties
<1>3. \A i \in DOMAIN Spans : Spans[i] \in Nat \ {0}
  BY <1>1, <1>2, ElementOfSeq
<1>4. \A i, j \in DOMAIN Spans : i <= j => Spans[i] <= Spans[j]
  <2> SUFFICES ASSUME NEW i \in DOMAIN Spans, NEW j \in DOMAIN Spans, i <= j
               PROVE  Spans[i] <= Spans[j]
    OBVIOUS
  <2>1. Spans[i] \in Nat /\ Spans[j] \in Nat /\ i \in Nat /\ j \in Nat
    BY <1>2, <1>3, SMT
  <2>2. i = j \/ i < j
    BY <2>1, SMT
  <2> QED
    BY <1>1, <2>1, <2>2, SMT
<1>5. Len(Spans) \in DOMAIN Spans /\ \A i \in DOMAIN Spans : i <= Len(Spans)
  BY <1>2, SMT
<1> QED
  BY <1>2, <1>3, <1>4, <1>5 DEF GuzzlersAssumption, Retention

\* Two times of a minute are less than a bucket apart.
LEMMA WithinMinute ==
  ASSUME GuzzlersAssumption, NEW t \in Nat, NEW u \in Nat, minuteOf(t) = minuteOf(u)
  PROVE  t - u < BucketWidth
<1>1. BucketWidth \in Nat \ {0}
  BY Constants
<1>2. /\ BucketWidth * (t \div BucketWidth) <= t
      /\ t < BucketWidth * (t \div BucketWidth) + BucketWidth
      /\ BucketWidth * (u \div BucketWidth) <= u
      /\ u < BucketWidth * (u \div BucketWidth) + BucketWidth
      /\ t \div BucketWidth \in Nat /\ u \div BucketWidth \in Nat
  BY <1>1, SMT
<1> QED
  BY <1>1, <1>2, SMT DEF minuteOf

LEMMA MinutesAre ==
  ASSUME GuzzlersAssumption
  PROVE  /\ \A t \in Times : minuteOf(t) \in Minutes
         /\ IsFiniteSet(Minutes)
         /\ Times \subseteq Nat
<1>1. IsFiniteSet(Times) /\ Times \subseteq Nat
  BY Constants, FS_Interval, SMT DEF Times
<1>2. [t \in Times |-> minuteOf(t)] \in Surjection(Times, Minutes)
  BY DEF Surjection, Minutes
<1> QED
  BY <1>1, <1>2, FS_Surjection DEF Minutes

\* A set is at least as large as n when it can be numbered up to n, and at most
\* when its members can be numbered within n.
LEMMA Numbering ==
  ASSUME NEW S, IsFiniteSet(S), NEW n \in Nat
  PROVE  /\ n <= Cardinality(S) => \E f \in [1..n -> S] : IsInjective(f)
         /\ Cardinality(S) <= n => \E f \in [S -> 1..n] : IsInjective(f)
<1> DEFINE c == Cardinality(S)
<1>1. c \in Nat /\ ExistsBijection(1..c, S)
  BY FS_CardinalityType
<1>2. PICK h : h \in Bijection(1..c, S)
  BY <1>1 DEF ExistsBijection
<1>3. h \in [1..c -> S] /\ IsInjective(h)
  BY <1>2 DEF Bijection, Injection
<1>4. ASSUME n <= c PROVE \E f \in [1..n -> S] : IsInjective(f)
  <2> DEFINE f == [i \in 1..n |-> h[i]]
  <2>1. \A i \in 1..n : i \in 1..c
    BY <1>1, <1>4, SMT
  <2>2. f \in [1..n -> S] /\ IsInjective(f)
    BY <1>3, <2>1 DEF IsInjective
  <2> QED
    BY <2>2
<1>5. ASSUME c <= n PROVE \E f \in [S -> 1..n] : IsInjective(f)
  <2>1. ExistsBijection(S, 1..c)
    BY <1>1, Fun_ExistsBijSymmetric
  <2>2. PICK f : f \in Bijection(S, 1..c)
    BY <2>1 DEF ExistsBijection
  <2>3. f \in [S -> 1..c] /\ IsInjective(f)
    BY <2>2 DEF Bijection, Injection
  <2>4. \A i \in 1..c : i \in 1..n
    BY <1>1, <1>5, SMT
  <2>5. f \in [S -> 1..n]
    BY <2>3, <2>4
  <2> QED
    BY <2>3, <2>5
<1> QED
  BY <1>4, <1>5

\* What an injection says of two sizes.
LEMMA NoLarger ==
  ASSUME NEW S, NEW T, IsFiniteSet(T), NEW f \in [S -> T], IsInjective(f)
  PROVE  Cardinality(S) <= Cardinality(T)
<1>1. f \in Injection(S, T)
  BY DEF Injection
<1> QED
  BY <1>1, FS_Injection

LEMMA OfIs ==
  ASSUME NEW h \in History, NEW s, NEW m
  PROVE  /\ Of(h, s, m) \subseteq 1..Len(h) /\ IsFiniteSet(Of(h, s, m))
         /\ Cardinality(Of(h, s, m)) \in Nat /\ Cardinality(Of(h, s, m)) <= Len(h)
         /\ \A i \in DOMAIN h : h[i][1] \in Times /\ h[i][2] \in SUBSET Senders
<1>1. Len(h) \in Nat /\ DOMAIN h = 1..Len(h) /\ \A i \in 1..Len(h) : h[i] \in Times \X SUBSET Senders
  BY LenProperties DEF History
<1>2. IsFiniteSet(1..Len(h)) /\ Cardinality(1..Len(h)) = Len(h)
  <2>1. /\ IsFiniteSet(1..Len(h))
        /\ Cardinality(1..Len(h)) = IF 1 > Len(h) THEN 0 ELSE Len(h) - 1 + 1
    BY <1>1, FS_Interval, IntervalBounds
  <2> QED
    BY <1>1, <2>1, SMT
<1>3. Of(h, s, m) \in SUBSET (1..Len(h))
  BY <1>1 DEF Of
<1> QED
  BY <1>1, <1>2, <1>3, FS_Subset, FS_CardinalityType

-----------------------------------------------------------------------------
(* The board.  A bucket counts in the windows that its newest transaction   *)
(* lies in; so what it counts is less than a bucket older than the window,  *)
(* and what lies in the window is in a bucket that counts.                  *)

LEMMA LeastOfNats ==
  ASSUME NEW S \in SUBSET Nat, S # {}
  PROVE  \E m \in S : \A l \in S : m <= l
<1>1. PICK m \in S : \A l \in S : <<l, m>> \notin OpToRel(<, Nat)
  BY WFMin, NatLessThanWellFounded, Zenon
<1>2. \A l, n \in Nat : l < n => <<l, n>> \in OpToRel(<, Nat)
  BY Zenon DEF OpToRel
<1>3. ASSUME NEW l \in S PROVE m <= l
  <2>1. l \in Nat /\ m \in Nat /\ ~(l < m)
    BY <1>1, <1>2
  <2> QED
    BY <2>1, SMT
<1> QED
  BY <1>3

LEMMA FirstWindowIs ==
  ASSUME GuzzlersAssumption, now \in Nat, NEW b, b.lastMs \in Int, NEW w \in DOMAIN Spans
  PROVE  FirstWindow(b) <= w <=> now - b.lastMs < Spans[w]
<1> DEFINE d == now - b.lastMs
           n == Len(Spans)
           In(i) == i = n + 1 \/ Spans[i] > d
           First(i) == In(i) /\ \A j \in 1..(i - 1) : Spans[j] <= d
           ins == {i \in 1..(n + 1) : In(i)}
<1>1. /\ n \in Nat \ {0} /\ DOMAIN Spans = 1..n /\ d \in Int
      /\ \A i \in DOMAIN Spans : Spans[i] \in Nat
      /\ \A i, j \in DOMAIN Spans : i <= j => Spans[i] <= Spans[j]
  BY Constants
<1>2. ins \in SUBSET Nat /\ ins # {}
  <2>1. n + 1 \in 1..(n + 1)
    BY <1>1, SMT
  <2>2. n + 1 \in ins
    BY <2>1
  <2>3. \A i \in 1..(n + 1) : i \in Nat
    BY <1>1, SMT
  <2> QED
    BY <2>2, <2>3
<1>3. PICK m \in ins : \A l \in ins : m <= l
  <2> HIDE DEF ins
  <2> QED
    BY <1>2, LeastOfNats
<1>4. m \in 1..(n + 1) /\ In(m)
  BY <1>3
<1>5. ASSUME NEW j \in 1..(m - 1) PROVE Spans[j] <= d
  <2>1. j \in 1..n /\ j \in 1..(n + 1) /\ ~(m <= j) /\ j # n + 1
    BY <1>1, <1>4, SMT
  <2>2. ~In(j)
    BY <1>3, <2>1
  <2>3. ~(Spans[j] > d) /\ Spans[j] \in Nat
    BY <1>1, <2>1, <2>2
  <2> QED
    BY <1>1, <2>3, SMT
<1>6. \E i \in 1..(n + 1) : First(i)
  BY <1>4, <1>5
<1> DEFINE f == CHOOSE i \in 1..(n + 1) : First(i)
<1>7. f \in 1..(n + 1) /\ First(f)
  <2> HIDE DEF First
  <2> QED
    BY <1>6
<1>8. FirstWindow(b) = f
  BY DEF FirstWindow
<1> HIDE DEF f
<1>9. f \in Nat /\ w \in Nat /\ w \in 1..n /\ Spans[w] \in Nat
  BY <1>1, <1>7, SMT
<1>10. ASSUME f <= w PROVE d < Spans[w]
  <2>1. f \in 1..n /\ f # n + 1
    BY <1>1, <1>7, <1>9, <1>10, SMT
  <2>2. Spans[f] > d /\ Spans[f] <= Spans[w] /\ Spans[f] \in Nat
    BY <1>1, <1>7, <1>9, <1>10, <2>1
  <2> HIDE DEF d
  <2> QED
    BY <1>1, <1>9, <2>2, SMT
<1>11. ASSUME d < Spans[w] PROVE f <= w
  <2>1. CASE w < f
    <3>1. w \in 1..(f - 1)
      BY <1>9, <2>1, SMT
    <3>2. Spans[w] <= d
      BY <1>7, <3>1
    <3> HIDE DEF d
    <3> QED
      BY <1>1, <1>9, <1>11, <3>2, SMT
  <2> QED
    BY <1>9, <2>1, SMT
<1> QED
  BY <1>8, <1>10, <1>11

\* The transactions a board shows, one by one.
Shown(w, s) == UNION {{m} \X (1..tracker[s][m].count) : m \in OnBoard(w, s)}

LEMMA ShownIs ==
  ASSUME GuzzlersAssumption, Types, NEW w, NEW s \in Senders
  PROVE  /\ IsFiniteSet(Shown(w, s))
         /\ \A p \in Shown(w, s) : /\ p = <<p[1], p[2]>> /\ p[1] \in OnBoard(w, s)
                                   /\ p[2] \in 1..tracker[s][p[1]].count
         /\ \A m \in OnBoard(w, s) : \A k \in 1..tracker[s][m].count : <<m, k>> \in Shown(w, s)
         /\ \A m \in Minutes : tracker[s][m].count \in Nat /\ tracker[s][m].lastMs \in Int
         /\ OnBoard(w, s) \subseteq Minutes
<1> DEFINE M == OnBoard(w, s)
           piece == [m \in M |-> {m} \X (1..tracker[s][m].count)]
           all == {{m} \X (1..tracker[s][m].count) : m \in M}
<1>1. \A m \in Minutes : tracker[s][m].count \in Nat /\ tracker[s][m].lastMs \in Int
  BY DEF Types, Buckets, Bucket
<1>2. M \subseteq Minutes
  BY DEF OnBoard
<1>3. IsFiniteSet(M)
  BY <1>2, MinutesAre, FS_Subset
<1>4. piece \in Surjection(M, all)
  BY DEF Surjection
<1>5. IsFiniteSet(all)
  <2> HIDE DEF M, piece, all
  <2> QED
    BY <1>3, <1>4, FS_Surjection
<1>6. \A T \in all : IsFiniteSet(T)
  <2> SUFFICES ASSUME NEW m \in M PROVE IsFiniteSet({m} \X (1..tracker[s][m].count))
    OBVIOUS
  <2>1. IsFiniteSet(1..tracker[s][m].count)
    BY <1>1, <1>2, FS_Interval, IntervalBounds
  <2> QED
    BY <2>1, FS_Singleton, FS_Product
<1>7. IsFiniteSet(UNION all)
  <2> HIDE DEF all
  <2> QED
    BY <1>5, <1>6, FS_UNION
<1> QED
  BY <1>1, <1>2, <1>7 DEF Shown

\* Nothing older than the window by a bucket is shown, and nothing twice.
LEMMA NoMoreShown ==
  ASSUME GuzzlersAssumption, Types, HonestInv, NEW w \in DOMAIN Spans, NEW s \in Senders
  PROVE  Counted(w, s) <= Younger(Spans[w] + BucketWidth, s)
<1> DEFINE Y == {i \in DOMAIN seen : s \in seen[i][2] /\ now - seen[i][1] < Spans[w] + BucketWidth}
           Fits(m, f) == f \in [1..tracker[s][m].count -> Of(seen, s, m)] /\ IsInjective(f)
           place == [m \in Minutes |-> CHOOSE f : Fits(m, f)]
           g == [p \in Shown(w, s) |-> place[p[1]][p[2]]]
<1>1. /\ Spans[w] \in Nat /\ BucketWidth \in Nat /\ now \in Nat /\ seen \in History
      /\ Times \subseteq Nat
  BY Constants, MinutesAre DEF Types
<1>2. \A m \in Minutes : Fits(m, place[m])
  <2> SUFFICES ASSUME NEW m \in Minutes PROVE \E f : Fits(m, f)
    OBVIOUS
  <2>1. tracker[s][m].count <= Cardinality(Of(seen, s, m))
    BY DEF HonestInv, Honest
  <2> QED
    BY <1>1, <2>1, OfIs, ShownIs, Numbering
<1>3. ASSUME NEW m \in OnBoard(w, s), NEW i \in Of(seen, s, m) PROVE i \in Y
  <2>1. /\ m \in Minutes /\ tracker[s][m].count > 0
        /\ FirstWindow(tracker[s][m]) <= w
    BY DEF OnBoard
  <2>2. tracker[s][m].lastMs \in Times /\ minuteOf(tracker[s][m].lastMs) = m
    BY <2>1 DEF HonestInv, Honest
  <2>3. now - tracker[s][m].lastMs < Spans[w]
    BY <1>1, <2>1, FirstWindowIs, ShownIs
  <2>4. /\ i \in DOMAIN seen /\ s \in seen[i][2] /\ minuteOf(seen[i][1]) = m
        /\ seen[i][1] \in Times
    BY <1>1, OfIs DEF Of
  <2>5. tracker[s][m].lastMs - seen[i][1] < BucketWidth
    BY <1>1, <2>2, <2>4, WithinMinute
  <2>6. tracker[s][m].lastMs \in Nat /\ seen[i][1] \in Nat
    BY <1>1, <2>2, <2>4
  <2>7. now - seen[i][1] < Spans[w] + BucketWidth
    BY <1>1, <2>3, <2>5, <2>6, SMT
  <2> QED
    BY <2>4, <2>7
<1>4. \A p \in Shown(w, s) : g[p] \in Of(seen, s, p[1]) /\ p[1] \in OnBoard(w, s) /\ p[1] \in Minutes
  <2> HIDE DEF place
  <2> QED
    BY <1>2, ShownIs
<1>5. g \in [Shown(w, s) -> Y]
  <2> HIDE DEF Y
  <2> QED
    BY <1>3, <1>4
<1>6. IsInjective(g)
  <2> SUFFICES ASSUME NEW p \in Shown(w, s), NEW q \in Shown(w, s), g[p] = g[q] PROVE p = q
    BY DEF IsInjective
  <2>1. p[1] = q[1]
    <3> HIDE DEF g
    <3>1. minuteOf(seen[g[p]][1]) = p[1] /\ minuteOf(seen[g[q]][1]) = q[1]
      BY <1>4 DEF Of
    <3> QED
      BY <3>1
  <2>2. /\ p = <<p[1], p[2]>> /\ q = <<q[1], q[2]>>
        /\ p[2] \in 1..tracker[s][p[1]].count /\ q[2] \in 1..tracker[s][p[1]].count
    BY <2>1, ShownIs
  <2>3. place[p[1]][p[2]] = place[p[1]][q[2]] /\ Fits(p[1], place[p[1]])
    BY <1>2, <1>4, <2>1
  <2>4. p[2] = q[2]
    <3> HIDE DEF place
    <3> QED
      BY <2>2, <2>3 DEF IsInjective
  <2> QED
    BY <2>1, <2>2, <2>4
<1>7. IsFiniteSet(Y)
  <2>1. DOMAIN seen = 1..Len(seen) /\ Len(seen) \in Nat
    BY <1>1, LenProperties DEF History
  <2>2. IsFiniteSet(1..Len(seen)) /\ Y \in SUBSET (1..Len(seen))
    BY <2>1, FS_Interval, IntervalBounds
  <2> HIDE DEF Y
  <2> QED
    BY <2>2, FS_Subset
<1>8. Cardinality(Shown(w, s)) <= Cardinality(Y)
  <2> HIDE DEF Y, g
  <2> QED
    BY <1>5, <1>6, <1>7, NoLarger
<1> QED
  BY <1>8 DEF Counted, Younger, Shown

\* Everything within the window is shown.
LEMMA NoLessShown ==
  ASSUME GuzzlersAssumption, Types, NEW w \in DOMAIN Spans, NEW s \in Senders,
         Complete(seen, tracker[s], s, now)
  PROVE  Younger(Spans[w], s) <= Counted(w, s)
<1> DEFINE Y == {i \in DOMAIN seen : s \in seen[i][2] /\ now - seen[i][1] < Spans[w]}
           young(m) == {i \in Of(seen, s, m) : seen[i][1] > now - Retention}
           Fits(m, f) == f \in [young(m) -> 1..tracker[s][m].count] /\ IsInjective(f)
           rank == [m \in Minutes |-> CHOOSE f : Fits(m, f)]
           at(i) == minuteOf(seen[i][1])
           g == [i \in Y |-> <<at(i), rank[at(i)][i]>>]
<1>1. /\ Spans[w] \in Nat /\ Spans[w] <= Retention /\ Retention \in Nat /\ now \in Nat
      /\ seen \in History /\ Times \subseteq Nat
      /\ \A t \in Times : minuteOf(t) \in Minutes
  BY Constants, MinutesAre DEF Types
<1>2. \A m \in Minutes : /\ IsFiniteSet(young(m)) /\ Cardinality(young(m)) <= tracker[s][m].count
                         /\ \A i \in young(m) : seen[i][1] <= tracker[s][m].lastMs
  <2> SUFFICES ASSUME NEW m \in Minutes
               PROVE  /\ IsFiniteSet(young(m)) /\ Cardinality(young(m)) <= tracker[s][m].count
                      /\ \A i \in young(m) : seen[i][1] <= tracker[s][m].lastMs
    OBVIOUS
  <2>1. young(m) \in SUBSET Of(seen, s, m)
    OBVIOUS
  <2>2. IsFiniteSet(young(m))
    <3> HIDE DEF young
    <3> QED
      BY <1>1, <2>1, OfIs, FS_Subset
  <2> QED
    BY <2>2 DEF Complete
<1>3. \A m \in Minutes : Fits(m, rank[m])
  <2> SUFFICES ASSUME NEW m \in Minutes PROVE \E f : Fits(m, f)
    OBVIOUS
  <2> HIDE DEF young
  <2> QED
    BY <1>2, ShownIs, Numbering
<1>4. ASSUME NEW i \in Y
      PROVE  /\ at(i) \in Minutes /\ i \in young(at(i)) /\ at(i) \in OnBoard(w, s)
             /\ rank[at(i)][i] \in 1..tracker[s][at(i)].count
  <2>1. i \in DOMAIN seen /\ s \in seen[i][2] /\ now - seen[i][1] < Spans[w] /\ seen[i][1] \in Times
    BY <1>1, OfIs
  <2>2. at(i) \in Minutes
    BY <1>1, <2>1
  <2>3. seen[i][1] \in Nat /\ seen[i][1] > now - Retention
    <3>1. seen[i][1] \in Nat
      BY <1>1, <2>1
    <3> QED
      BY <1>1, <2>1, <3>1, SMT
  <2>4. i \in young(at(i))
    BY <2>1, <2>3 DEF Of
  <2>5. rank[at(i)][i] \in 1..tracker[s][at(i)].count
    <3> HIDE DEF rank, young
    <3> QED
      BY <1>3, <2>2, <2>4
  <2>6. tracker[s][at(i)].count \in Nat /\ tracker[s][at(i)].lastMs \in Int
    BY <2>2, ShownIs
  <2>7. tracker[s][at(i)].count > 0
    BY <2>5, <2>6, SMT
  <2>8. now - tracker[s][at(i)].lastMs < Spans[w]
    <3>1. seen[i][1] <= tracker[s][at(i)].lastMs
      BY <1>2, <2>2, <2>4
    <3> QED
      BY <1>1, <2>1, <2>3, <2>6, <3>1, SMT
  <2>9. FirstWindow(tracker[s][at(i)]) <= w
    BY <1>1, <2>6, <2>8, FirstWindowIs
  <2> QED
    BY <2>2, <2>4, <2>5, <2>7, <2>9 DEF OnBoard
<1>5. g \in [Y -> Shown(w, s)]
  <2> HIDE DEF Y, at, rank
  <2> QED
    BY <1>4, ShownIs
<1>6. IsInjective(g)
  <2> SUFFICES ASSUME NEW i \in Y, NEW j \in Y, g[i] = g[j] PROVE i = j
    BY DEF IsInjective
  <2>1. at(i) = at(j) /\ rank[at(i)][i] = rank[at(i)][j]
    <3>1. \A l \in Y : g[l] = <<at(l), rank[at(l)][l]>>
      <4> HIDE DEF Y, at, rank
      <4> QED
        OBVIOUS
    <3> HIDE DEF Y, at, rank, g
    <3>2. <<at(i), rank[at(i)][i]>> = <<at(j), rank[at(j)][j]>>
      BY <3>1
    <3> QED
      BY <3>2
  <2>2. i \in young(at(i)) /\ j \in young(at(i)) /\ at(i) \in Minutes
    BY <1>4, <2>1
  <2>3. Fits(at(i), rank[at(i)])
    BY <1>3, <2>2
  <2> HIDE DEF at, rank, young
  <2> QED
    BY <2>1, <2>2, <2>3 DEF IsInjective
<1>7. IsFiniteSet(Shown(w, s))
  BY ShownIs
<1>8. Cardinality(Y) <= Cardinality(Shown(w, s))
  <2> HIDE DEF Y, g
  <2> QED
    BY <1>5, <1>6, <1>7, NoLarger
<1> QED
  BY <1>8 DEF Counted, Younger, Shown

-----------------------------------------------------------------------------
(* Buckets: what an eviction, a later block and time do to them. *)

LEMMA EmptyIs == Empty \in Bucket /\ Empty.count = 0 /\ Empty.lastMs = -1
  BY SMT DEF Empty, Bucket

\* An eviction drops what is older than the retention.
LEMMA EvictIs ==
  ASSUME GuzzlersAssumption, now \in Nat, NEW h \in History, NEW s, NEW b, Honest(h, b, s)
  PROVE  /\ Honest(h, Evict(b), s)
         /\ Complete(h, b, s, now) => Complete(h, Evict(b), s, now)
         /\ Absent(b) => Evict(b) = b
<1>1. /\ b \in Buckets
      /\ \A m \in Minutes : /\ b[m].count \in Nat /\ b[m].lastMs \in Int
                            /\ b[m].count = 0 => b[m] = Empty
  BY DEF Honest, Buckets, Bucket
<1>2. Evict(b) = [m \in Minutes |-> IF Expired(m, b[m]) THEN Empty ELSE b[m]]
  BY DEF Evict
<1>3. Evict(b) \in Buckets
  BY <1>1, <1>2, EmptyIs DEF Buckets
<1>4. \A m \in Minutes : Cardinality(Of(h, s, m)) \in Nat
  BY OfIs
<1>5. Honest(h, Evict(b), s)
  <2> SUFFICES ASSUME NEW m \in Minutes
               PROVE  LET e == Evict(b)
                      IN  /\ e[m].count <= Cardinality(Of(h, s, m))
                          /\ e[m].count > 0 => e[m].lastMs \in Times /\ minuteOf(e[m].lastMs) = m
                          /\ e[m].count = 0 => e[m] = Empty
    BY <1>3 DEF Honest
  <2>1. CASE Expired(m, b[m])
    <3>1. Evict(b)[m] = Empty
      BY <1>2, <2>1
    <3>2. 0 <= Cardinality(Of(h, s, m)) /\ ~(0 > 0)
      BY <1>4, SMT
    <3> QED
      BY <3>1, <3>2, EmptyIs
  <2>2. CASE ~Expired(m, b[m])
    BY <1>2, <2>2 DEF Honest
  <2> QED
    BY <2>1, <2>2
<1>6. ASSUME Complete(h, b, s, now) PROVE Complete(h, Evict(b), s, now)
  <2> SUFFICES ASSUME NEW m \in Minutes
               PROVE  LET young == {i \in Of(h, s, m) : h[i][1] > now - Retention}
                      IN  /\ Cardinality(young) <= Evict(b)[m].count
                          /\ \A i \in young : h[i][1] <= Evict(b)[m].lastMs
    BY DEF Complete
  <2> DEFINE young == {i \in Of(h, s, m) : h[i][1] > now - Retention}
  <2>1. /\ Cardinality(young) <= b[m].count
        /\ \A i \in young : h[i][1] <= b[m].lastMs
    BY <1>6 DEF Complete
  <2>2. CASE Expired(m, b[m])
    <3>1. ASSUME NEW i \in young PROVE FALSE
      <4>1. h[i][1] > now - Retention /\ h[i][1] <= b[m].lastMs /\ b[m].lastMs <= now - Retention
        BY <2>1, <2>2 DEF Expired
      <4>2. h[i][1] \in Nat /\ b[m].lastMs \in Int /\ Retention \in Nat
        BY <1>1, OfIs, Constants, MinutesAre DEF Of
      <4> QED
        BY <4>1, <4>2, SMT
    <3>2. young = {}
      BY <3>1
    <3>3. Cardinality(young) = 0 /\ Evict(b)[m].count = 0
      BY <1>2, <2>2, <3>2, FS_EmptySet, EmptyIs
    <3> HIDE DEF young
    <3>4. /\ Cardinality(young) <= Evict(b)[m].count
          /\ \A i \in young : h[i][1] <= Evict(b)[m].lastMs
      BY <3>2, <3>3, SMT
    <3> QED
      BY <3>4 DEF young
  <2>3. CASE ~Expired(m, b[m])
    BY <1>2, <2>1, <2>3
  <2> QED
    BY <2>2, <2>3
<1>7. ASSUME Absent(b) PROVE Evict(b) = b
  <2>1. \A m \in Minutes : b[m] = Empty
    BY <1>1, <1>7 DEF Absent
  <2>2. \A m \in Minutes : Evict(b)[m] = b[m]
    BY <1>2, <2>1
  <2> QED
    BY <1>1, <1>3, <2>2 DEF Buckets
<1> QED
  BY <1>5, <1>6, <1>7

\* What one more block adds to the history.
Grown(h, t, S, g) == g = Append(h, <<t, S>>)
Grows(h, t, S, g, s, m) ==
  /\ g \in History /\ Len(g) = Len(h) + 1
  /\ g[Len(h) + 1] = <<t, S>> /\ Len(h) + 1 \notin Of(h, s, m)
  /\ \A i \in Of(h, s, m) : g[i] = h[i]
  /\ s \in S /\ m = minuteOf(t) => Of(g, s, m) = Of(h, s, m) \cup {Len(h) + 1}
  /\ ~(s \in S /\ m = minuteOf(t)) => Of(g, s, m) = Of(h, s, m)

LEMMA GrownIs ==
  ASSUME NEW h \in History, NEW t \in Times, NEW S \in SUBSET Senders, NEW s, NEW m,
         NEW g, Grown(h, t, S, g)
  PROVE  Grows(h, t, S, g, s, m)
<1> DEFINE n == Len(h) + 1
<1>1. Len(h) \in Nat /\ DOMAIN h = 1..Len(h) /\ <<t, S>> \in Times \X SUBSET Senders
  BY LenProperties DEF History
<1>2. /\ g \in History /\ Len(g) = n /\ g[n] = <<t, S>>
      /\ \A i \in 1..Len(h) : g[i] = h[i]
  BY <1>1, AppendProperties DEF History, Grown
<1>3. DOMAIN g = 1..n
  BY <1>2, LenProperties DEF History
<1>4. /\ \A i \in DOMAIN g : i \in DOMAIN h \/ i = n
      /\ \A i \in DOMAIN h : i \in DOMAIN g
      /\ n \in DOMAIN g /\ n \notin DOMAIN h
  BY <1>1, <1>3, SMT
<1> HIDE DEF n
<1>5. \A i \in DOMAIN h : i \in Of(g, s, m) <=> i \in Of(h, s, m)
  BY <1>1, <1>2, <1>4 DEF Of
<1>6. n \in Of(g, s, m) <=> s \in S /\ m = minuteOf(t)
  BY <1>2, <1>4 DEF Of
<1>7. \A i \in Of(g, s, m) : i \in DOMAIN h \/ i = n
  BY <1>4 DEF Of
<1>8. \A i \in Of(h, s, m) : i \in DOMAIN h
  BY DEF Of
<1>9. /\ s \in S /\ m = minuteOf(t) => Of(g, s, m) = Of(h, s, m) \cup {n}
      /\ ~(s \in S /\ m = minuteOf(t)) => Of(g, s, m) = Of(h, s, m)
  BY <1>5, <1>6, <1>7, <1>8
<1>10. n \notin Of(h, s, m) /\ \A i \in Of(h, s, m) : g[i] = h[i]
  BY <1>1, <1>2, <1>4, <1>8
<1> QED
  BY <1>2, <1>9, <1>10 DEF Grows, n

\* A longer history makes no bucket dishonest.
LEMMA GrownHonest ==
  ASSUME NEW h \in History, NEW t \in Times, NEW S \in SUBSET Senders, NEW s, NEW b,
         Honest(h, b, s)
  PROVE  Honest(Append(h, <<t, S>>), b, s)
<1> DEFINE g == Append(h, <<t, S>>)
<1>1. \A m \in Minutes : b[m].count <= Cardinality(Of(g, s, m))
  <2> SUFFICES ASSUME NEW m \in Minutes PROVE b[m].count <= Cardinality(Of(g, s, m))
    OBVIOUS
  <2>0. Grown(h, t, S, g)
    BY DEF Grown
  <2> HIDE DEF g
  <2>1. Grows(h, t, S, g, s, m)
    BY <2>0, GrownIs
  <2>4. g \in History /\ Of(h, s, m) \subseteq Of(g, s, m)
    BY <2>1 DEF Grows
  <2>2. /\ Cardinality(Of(h, s, m)) <= Cardinality(Of(g, s, m))
        /\ Cardinality(Of(h, s, m)) \in Nat /\ Cardinality(Of(g, s, m)) \in Nat
    BY <2>4, OfIs, FS_Subset
  <2>3. b[m].count <= Cardinality(Of(h, s, m)) /\ b[m].count \in Nat
    BY DEF Honest, Buckets, Bucket
  <2> QED
    BY <2>2, <2>3, SMT
<1> QED
  BY <1>1 DEF Honest

\* A block of others, or one that is as old as the retention, is missed nowhere.
LEMMA GrownComplete ==
  ASSUME NEW h \in History, NEW t \in Times, NEW S \in SUBSET Senders, NEW s, NEW b, NEW u,
         Complete(h, b, s, u), s \notin S \/ ~(t > u - Retention)
  PROVE  Complete(Append(h, <<t, S>>), b, s, u)
<1> DEFINE g == Append(h, <<t, S>>)
           n == Len(h) + 1
<1>0. Grown(h, t, S, g)
  BY DEF Grown
<1> HIDE DEF g
<1>1. ASSUME NEW m \in Minutes
      PROVE  {i \in Of(g, s, m) : g[i][1] > u - Retention} =
               {i \in Of(h, s, m) : h[i][1] > u - Retention}
             /\ \A i \in Of(h, s, m) : g[i] = h[i]
  <2>0. Grows(h, t, S, g, s, m)
    BY <1>0, GrownIs
  <2>1. g[n] = <<t, S>> /\ n \notin Of(h, s, m)
    BY <2>0 DEF Grows
  <2>2. \A i \in Of(h, s, m) : g[i] = h[i]
    BY <2>0 DEF Grows
  <2>3. /\ s \in S /\ m = minuteOf(t) => Of(g, s, m) = Of(h, s, m) \cup {n}
        /\ ~(s \in S /\ m = minuteOf(t)) => Of(g, s, m) = Of(h, s, m)
    BY <2>0 DEF Grows
  <2>4. g[n][1] = t
    BY <2>1
  <2> HIDE DEF n
  <2>5. CASE s \in S /\ m = minuteOf(t)
    <3>1. \A i \in Of(g, s, m) : i \in Of(h, s, m) \/ i = n
      BY <2>3, <2>5
    <3>2. \A i \in Of(h, s, m) : i \in Of(g, s, m)
      BY <2>3, <2>5
    <3> QED
      BY <2>2, <2>4, <2>5, <3>1, <3>2
  <2>6. CASE ~(s \in S /\ m = minuteOf(t))
    BY <2>2, <2>3, <2>6
  <2> QED
    BY <2>5, <2>6
<1>2. Complete(g, b, s, u)
  BY <1>1 DEF Complete
<1> QED
  BY <1>2 DEF g

\* A transaction of the sender is counted, and is the newest if no other is newer.
LEMMA FoldedIs ==
  ASSUME GuzzlersAssumption, NEW h \in History, NEW t \in Times, NEW S \in SUBSET Senders,
         NEW s \in S, NEW b, Honest(h, b, s)
  PROVE  /\ Honest(Append(h, <<t, S>>), Folded(b, t), s)
         /\ \A u : Complete(h, b, s, u) => Complete(Append(h, <<t, S>>), Folded(b, t), s, u)
<1> DEFINE g == Append(h, <<t, S>>)
           n == Len(h) + 1
           k == minuteOf(t)
           f == Folded(b, t)
           newest == IF t > b[k].lastMs THEN t ELSE b[k].lastMs
<1>1. /\ k \in Minutes /\ t \in Nat /\ Times \subseteq Nat
      /\ b \in Buckets /\ b[k].count \in Nat /\ b[k].lastMs \in Int
  BY MinutesAre DEF Honest, Buckets, Bucket
<1>2. f = [b EXCEPT ![k] = [count |-> b[k].count + 1, lastMs |-> newest]]
  BY DEF Folded
<1>3. /\ newest \in Int /\ t <= newest /\ b[k].lastMs <= newest
      /\ newest = t \/ (newest = b[k].lastMs /\ b[k].lastMs >= t)
  BY <1>1, SMT
<1>4. b[k].count = 0 => b[k].lastMs = -1
  BY <1>1, EmptyIs DEF Honest
<1>5. newest \in Times /\ minuteOf(newest) = k
  <2>1. CASE newest = t
    BY <2>1
  <2>2. CASE newest = b[k].lastMs /\ b[k].lastMs >= t
    <3>1. b[k].count > 0
      BY <1>1, <1>4, <2>2, SMT
    <3> QED
      BY <1>1, <2>2, <3>1 DEF Honest
  <2> QED
    BY <1>3, <2>1, <2>2
<1> HIDE DEF newest
<1>6. [count |-> b[k].count + 1, lastMs |-> newest] \in Bucket
  BY <1>1, <1>3 DEF Bucket
<1>7. f \in Buckets
  <2> HIDE DEF k
  <2> QED
    BY <1>1, <1>2, <1>6 DEF Buckets
<1>8. /\ f[k].count = b[k].count + 1 /\ f[k].lastMs = newest
      /\ \A m \in Minutes : m # k => f[m] = b[m]
  <2> HIDE DEF k
  <2> QED
    BY <1>1, <1>2 DEF Buckets
<1>0. Grown(h, t, S, g)
  BY DEF Grown
<1> HIDE DEF g
<1>9. /\ g \in History /\ g[n] = <<t, S>>
      /\ \A m : n \notin Of(h, s, m) /\ \A i \in Of(h, s, m) : g[i] = h[i]
      /\ \A m : m # k => Of(g, s, m) = Of(h, s, m)
      /\ Of(g, s, k) = Of(h, s, k) \cup {n}
  <2>0. \A m : Grows(h, t, S, g, s, m)
    BY <1>0, GrownIs
  <2>1. g \in History /\ g[n] = <<t, S>>
    BY <2>0 DEF Grows
  <2>2. \A m : n \notin Of(h, s, m) /\ \A i \in Of(h, s, m) : g[i] = h[i]
    BY <2>0 DEF Grows
  <2>3. \A m : m # k => Of(g, s, m) = Of(h, s, m)
    BY <2>0 DEF Grows
  <2>4. Of(g, s, k) = Of(h, s, k) \cup {n}
    BY <2>0 DEF Grows
  <2> QED
    BY <2>1, <2>2, <2>3, <2>4
<1>10. g[n][1] = t
  BY <1>9
<1> HIDE DEF f, n
<1>11. \A m : IsFiniteSet(Of(h, s, m)) /\ Cardinality(Of(h, s, m)) \in Nat
  BY OfIs
<1>12. Cardinality(Of(g, s, k)) = Cardinality(Of(h, s, k)) + 1
  BY <1>9, <1>11, FS_AddElement
<1>13. Honest(g, f, s)
  <2> SUFFICES ASSUME NEW m \in Minutes
               PROVE  /\ f[m].count <= Cardinality(Of(g, s, m))
                      /\ f[m].count > 0 => f[m].lastMs \in Times /\ minuteOf(f[m].lastMs) = m
                      /\ f[m].count = 0 => f[m] = Empty
    BY <1>7 DEF Honest
  <2>1. CASE m = k
    <3>1. b[k].count <= Cardinality(Of(h, s, k))
      BY <1>1 DEF Honest
    <3>2. f[k].count <= Cardinality(Of(g, s, k)) /\ f[k].count # 0
      BY <1>1, <1>8, <1>11, <1>12, <3>1, SMT
    <3> QED
      BY <1>5, <1>8, <2>1, <3>2
  <2>2. CASE m # k
    BY <1>8, <1>9, <2>2 DEF Honest
  <2> QED
    BY <2>1, <2>2
<1>14. ASSUME NEW u, Complete(h, b, s, u) PROVE Complete(g, f, s, u)
  <2> SUFFICES ASSUME NEW m \in Minutes
               PROVE  LET young == {i \in Of(g, s, m) : g[i][1] > u - Retention}
                      IN  /\ Cardinality(young) <= f[m].count
                          /\ \A i \in young : g[i][1] <= f[m].lastMs
    BY DEF Complete
  <2> DEFINE young == {i \in Of(g, s, m) : g[i][1] > u - Retention}
             before == {i \in Of(h, s, m) : h[i][1] > u - Retention}
  <2>1. /\ Cardinality(before) <= b[m].count
        /\ \A i \in before : h[i][1] <= b[m].lastMs
    BY <1>14 DEF Complete
  <2>2. CASE m # k
    <3>1. young = before /\ \A i \in young : g[i] = h[i]
      BY <1>9, <2>2
    <3> QED
      BY <1>8, <2>1, <2>2, <3>1
  <2>3. CASE m = k
    <3>1. young \subseteq before \cup {n} /\ \A i \in before : g[i] = h[i] /\ n \notin before
      BY <1>9, <2>3
    <3>2. before \subseteq Of(h, s, m)
      OBVIOUS
    <3>3. \A i \in before : h[i][1] \in Nat
      BY <1>1, OfIs DEF Of
    <3> HIDE DEF young, before
    <3>4. IsFiniteSet(before) /\ Cardinality(before) \in Nat
      BY <1>11, <3>2, FS_Subset, FS_CardinalityType
    <3>5. IsFiniteSet(before \cup {n}) /\ Cardinality(before \cup {n}) <= Cardinality(before) + 1
      <4>1. /\ IsFiniteSet(before \cup {n})
            /\ Cardinality(before \cup {n}) = Cardinality(before) + 1
        BY <3>1, <3>4, FS_AddElement
      <4> QED
        BY <3>4, <4>1, SMT
    <3>6. Cardinality(young) <= Cardinality(before \cup {n}) /\ IsFiniteSet(young)
      BY <3>1, <3>5, FS_Subset
    <3>7. Cardinality(young) \in Nat /\ Cardinality(before \cup {n}) \in Nat
      BY <3>5, <3>6, FS_CardinalityType
    <3>8. Cardinality(young) <= f[m].count
      BY <1>1, <1>8, <2>1, <2>3, <3>4, <3>5, <3>6, <3>7, SMT
    <3>9. \A i \in young : g[i][1] <= f[m].lastMs
      <4> SUFFICES ASSUME NEW i \in young PROVE g[i][1] <= newest
        BY <1>8, <2>3
      <4>1. CASE i = n
        BY <1>3, <1>10, <4>1
      <4>2. CASE i \in before
        <5>1. g[i][1] = h[i][1] /\ h[i][1] \in Nat /\ h[i][1] <= b[k].lastMs
          BY <2>1, <2>3, <3>1, <3>3, <4>2
        <5> QED
          BY <1>1, <1>3, <5>1, SMT
      <4> QED
        BY <3>1, <4>1, <4>2
    <3> QED
      BY <3>8, <3>9 DEF young
  <2> QED
    BY <2>2, <2>3
<1> QED
  BY <1>13, <1>14 DEF f, g

\* With time less is young enough to matter.
LEMMA LaterComplete ==
  ASSUME GuzzlersAssumption, NEW h \in History, NEW s, NEW b \in Buckets, NEW u \in Nat,
         Complete(h, b, s, u)
  PROVE  Complete(h, b, s, u + 1)
<1> SUFFICES ASSUME NEW m \in Minutes
             PROVE  LET young == {i \in Of(h, s, m) : h[i][1] > (u + 1) - Retention}
                    IN  /\ Cardinality(young) <= b[m].count
                        /\ \A i \in young : h[i][1] <= b[m].lastMs
  BY Zenon DEF Complete
<1> DEFINE young == {i \in Of(h, s, m) : h[i][1] > (u + 1) - Retention}
           before == {i \in Of(h, s, m) : h[i][1] > u - Retention}
<1>1. /\ Cardinality(before) <= b[m].count
      /\ \A i \in before : h[i][1] <= b[m].lastMs
  BY DEF Complete
<1>2. young \subseteq before /\ before \subseteq Of(h, s, m)
  <2> SUFFICES ASSUME NEW i \in Of(h, s, m), h[i][1] > (u + 1) - Retention
               PROVE  h[i][1] > u - Retention
    OBVIOUS
  <2>1. h[i][1] \in Nat /\ Retention \in Nat
    BY OfIs, Constants, MinutesAre DEF Of
  <2> QED
    BY <2>1, SMT
<1> HIDE DEF young, before
<1>3. /\ Cardinality(young) <= Cardinality(before)
      /\ Cardinality(young) \in Nat /\ Cardinality(before) \in Nat
  <2>1. IsFiniteSet(Of(h, s, m)) /\ before \in SUBSET Of(h, s, m) /\ young \in SUBSET before
    BY <1>2, OfIs
  <2>2. IsFiniteSet(before)
    BY <2>1, FS_Subset
  <2> QED
    BY <2>1, <2>2, FS_Subset, FS_CardinalityType
<1>4. b[m].count \in Nat
  BY DEF Buckets, Bucket
<1> QED
  BY <1>1, <1>2, <1>3, <1>4, SMT DEF young

-----------------------------------------------------------------------------
(* The wire. *)

LEMMA NoBucketsHonest ==
  ASSUME NEW h \in History, NEW s
  PROVE  Honest(h, NoBuckets, s) /\ Absent(NoBuckets) /\ NoBuckets \in Buckets
<1>1. NoBuckets \in Buckets /\ \A m \in Minutes : NoBuckets[m] = Empty
  BY EmptyIs DEF NoBuckets, Buckets
<1>2. \A m \in Minutes : Cardinality(Of(h, s, m)) \in Nat
  BY OfIs
<1>3. \A m \in Minutes : NoBuckets[m].count = 0
  BY <1>1, EmptyIs
<1>4. \A m \in Minutes : NoBuckets[m].count <= Cardinality(Of(h, s, m)) /\ ~(NoBuckets[m].count > 0)
  BY <1>2, <1>3, SMT
<1>5. Honest(h, NoBuckets, s)
  BY <1>1, <1>4 DEF Honest
<1> QED
  BY <1>1, <1>3, <1>5 DEF Absent

LEMMA PutsAre ==
  ASSUME GuzzlersAssumption, NEW by \in {"scanner", "sweep"}, NEW S \in SUBSET Senders,
         NEW t \in [Senders -> Buckets]
  PROVE  /\ Puts(by, S, t) \in Seq(Commanded)
         /\ \A i \in DOMAIN Puts(by, S, t) :
              \E s \in S : Puts(by, S, t)[i] = [by |-> by, put |-> {s}, to |-> t[s]]
<1> DEFINE C == {[by |-> by, put |-> {s}, to |-> t[s]] : s \in S}
           F(f) == f \in [1..Cardinality(C) -> C] /\ IsInjective(f)
           p == CHOOSE f : F(f)
<1>1. [s \in S |-> [by |-> by, put |-> {s}, to |-> t[s]]] \in Surjection(S, C)
  BY DEF Surjection
<1>2. IsFiniteSet(S)
  BY Constants, FS_Subset
<1>3. \A c \in C : c \in PutCommand
  BY DEF PutCommand
<1>4. \A c \in C : \E s \in S : c = [by |-> by, put |-> {s}, to |-> t[s]]
  OBVIOUS
<1>5. Puts(by, S, t) = SetToSeq(C)
  BY DEF Puts
<1> HIDE DEF C
<1>6. IsFiniteSet(C)
  BY <1>1, <1>2, FS_Surjection
<1>7. Cardinality(C) \in Nat /\ Cardinality(C) <= Cardinality(C)
  BY <1>6, FS_CardinalityType, SMT
<1>8. \E f : F(f)
  BY <1>6, <1>7, Numbering
<1>9. F(p)
  BY <1>8
<1>10. SetToSeq(C) = CHOOSE f \in [1..Cardinality(C) -> C] : IsInjective(f)
  BY DEF SetToSeq
<1>11. p = SetToSeq(C)
  BY <1>10
<1> HIDE DEF p
<1>12. p \in [1..Cardinality(C) -> C]
  BY <1>9
<1>13. p \in [1..Cardinality(C) -> Commanded]
  BY <1>3, <1>12 DEF Commanded
<1>14. p \in Seq(Commanded)
  BY <1>7, <1>13, IsASeq
<1> QED
  BY <1>4, <1>5, <1>11, <1>12, <1>14

LEMMA RemovalIs ==
  ASSUME NEW by \in {"scanner", "sweep"}, NEW S \in SUBSET Senders
  PROVE  /\ Removal(by, S) \in Seq(Commanded)
         /\ \A i \in DOMAIN Removal(by, S) : Removal(by, S)[i] = [by |-> by, put |-> {}, to |-> S]
         /\ S # {} => 1 \in DOMAIN Removal(by, S)
<1>1. [by |-> by, put |-> {}, to |-> S] \in Commanded
  BY DEF Commanded, RemovalCommand
<1> DEFINE c == [by |-> by, put |-> {}, to |-> S]
<1>2. CASE S = {}
  BY <1>2, EmptySeq DEF Removal
<1>3. CASE S # {}
  <2>1. Removal(by, S) = <<c>>
    BY <1>3 DEF Removal
  <2> HIDE DEF c
  <2>2. <<c>> \in Seq(Commanded) /\ DOMAIN <<c>> = {1} /\ <<c>>[1] = c
    BY <1>1 DEF c
  <2>3. /\ \A i \in DOMAIN Removal(by, S) : Removal(by, S)[i] = c
        /\ 1 \in DOMAIN Removal(by, S)
    BY <2>1, <2>2
  <2> QED
    BY <2>1, <2>2, <2>3 DEF c
<1> QED
  BY <1>2, <1>3

\* Commands issued later come behind.
LEMMA Behind ==
  ASSUME NEW w \in Seq(Commanded), NEW v \in Seq(Commanded)
  PROVE  /\ w \o v \in Seq(Commanded)
         /\ \A i \in DOMAIN w : i \in DOMAIN (w \o v) /\ (w \o v)[i] = w[i]
         /\ \A j \in DOMAIN v : Len(w) + j \in DOMAIN (w \o v) /\ (w \o v)[Len(w) + j] = v[j]
         /\ \A i \in DOMAIN (w \o v) :
              i \in DOMAIN w \/ \E j \in DOMAIN v : i = Len(w) + j
         /\ \A i \in DOMAIN w, j \in DOMAIN v : Len(w) + j > i
<1> DEFINE u == w \o v
<1>1. /\ u \in Seq(Commanded) /\ Len(u) = Len(w) + Len(v)
      /\ \A i \in 1..(Len(w) + Len(v)) : u[i] = IF i <= Len(w) THEN w[i] ELSE v[i - Len(w)]
  BY ConcatProperties
<1>2. /\ Len(w) \in Nat /\ Len(v) \in Nat
      /\ DOMAIN w = 1..Len(w) /\ DOMAIN v = 1..Len(v)
  BY LenProperties
<1> HIDE DEF u
<1>3. DOMAIN u = 1..(Len(w) + Len(v))
  BY <1>1, LenProperties
<1>4. \A i \in DOMAIN w : i \in DOMAIN u /\ u[i] = w[i]
  <2> SUFFICES ASSUME NEW i \in DOMAIN w PROVE i \in DOMAIN u /\ u[i] = w[i]
    OBVIOUS
  <2>1. i \in 1..(Len(w) + Len(v)) /\ i <= Len(w)
    BY <1>2, SMT
  <2> QED
    BY <1>1, <1>3, <2>1
<1>5. \A j \in DOMAIN v : Len(w) + j \in DOMAIN u /\ u[Len(w) + j] = v[j]
  <2> SUFFICES ASSUME NEW j \in DOMAIN v PROVE Len(w) + j \in DOMAIN u /\ u[Len(w) + j] = v[j]
    OBVIOUS
  <2>1. /\ Len(w) + j \in 1..(Len(w) + Len(v)) /\ ~(Len(w) + j <= Len(w))
        /\ (Len(w) + j) - Len(w) = j
    BY <1>2, SMT
  <2> QED
    BY <1>1, <1>3, <2>1
<1>6. ASSUME NEW i \in DOMAIN u PROVE i \in DOMAIN w \/ \E j \in DOMAIN v : i = Len(w) + j
  <2>1. CASE i <= Len(w)
    BY <1>2, <1>3, <2>1, SMT
  <2>2. CASE ~(i <= Len(w))
    <3>1. i - Len(w) \in DOMAIN v /\ i = Len(w) + (i - Len(w))
      BY <1>2, <1>3, <2>2, SMT
    <3> QED
      BY <3>1
  <2> QED
    BY <2>1, <2>2
<1>7. \A i \in DOMAIN w, j \in DOMAIN v : Len(w) + j > i
  BY <1>2, SMT
<1> QED
  BY <1>1, <1>4, <1>5, <1>6, <1>7 DEF u

LEMMA HonestBehind ==
  ASSUME NEW h, NEW w \in Seq(Commanded), NEW v \in Seq(Commanded),
         HonestWire(h, w), HonestWire(h, v)
  PROVE  HonestWire(h, w \o v)
<1> DEFINE u == w \o v
<1>1. \A i \in DOMAIN u : (\E k \in DOMAIN w : u[i] = w[k]) \/ (\E k \in DOMAIN v : u[i] = v[k])
  BY Behind
<1> HIDE DEF u
<1>2. HonestWire(h, u)
  BY <1>1 DEF HonestWire
<1> QED
  BY <1>2 DEF u

LEMMA HonestPuts ==
  ASSUME GuzzlersAssumption, NEW h, NEW by \in {"scanner", "sweep"}, NEW S \in SUBSET Senders,
         NEW t \in [Senders -> Buckets], \A s \in S : Honest(h, t[s], s)
  PROVE  HonestWire(h, Puts(by, S, t))
<1> SUFFICES ASSUME NEW i \in DOMAIN Puts(by, S, t), NEW s \in Puts(by, S, t)[i].put
             PROVE  Honest(h, Puts(by, S, t)[i].to, s)
  BY DEF HonestWire
<1>0. \A j \in DOMAIN Puts(by, S, t) :
        \E x \in S : Puts(by, S, t)[j] = [by |-> by, put |-> {x}, to |-> t[x]]
  BY PutsAre, Zenon
<1>1. PICK x \in S : Puts(by, S, t)[i] = [by |-> by, put |-> {x}, to |-> t[x]]
  BY <1>0
<1>2. s = x /\ Puts(by, S, t)[i].to = t[x]
  BY <1>1
<1> QED
  BY <1>2

LEMMA HonestRemoval ==
  ASSUME NEW h, NEW by \in {"scanner", "sweep"}, NEW S \in SUBSET Senders
  PROVE  HonestWire(h, Removal(by, S))
<1> SUFFICES ASSUME NEW i \in DOMAIN Removal(by, S) PROVE Removal(by, S)[i].put = {}
  BY DEF HonestWire
<1>1. Removal(by, S)[i] = [by |-> by, put |-> {}, to |-> S]
  BY RemovalIs
<1> QED
  BY <1>1

\* Commands that fill nothing of a sender leave it settled, and settle it when
\* one of them clears it.
Quiet(v, s) == \A j \in DOMAIN v : ~Fills(v[j], s)

LEMMA SettledBehind ==
  ASSUME NEW r, NEW w \in Seq(Commanded), NEW v \in Seq(Commanded), NEW s, Quiet(v, s),
         Settled(r, w, s) \/ \E j \in DOMAIN v : Clears(v[j], s)
  PROVE  Settled(r, w \o v, s)
<1> DEFINE u == w \o v
           n == Len(w)
<1>1. /\ \A i \in DOMAIN w : i \in DOMAIN u /\ u[i] = w[i]
      /\ \A j \in DOMAIN v : n + j \in DOMAIN u /\ u[n + j] = v[j]
      /\ \A i \in DOMAIN u : i \in DOMAIN w \/ \E j \in DOMAIN v : i = n + j
      /\ \A i \in DOMAIN w, j \in DOMAIN v : n + j > i
  BY Behind
<1> HIDE DEF u, n
<1>2. ASSUME NEW i \in DOMAIN u, Fills(u[i], s) PROVE i \in DOMAIN w /\ Fills(w[i], s)
  BY <1>1, <1>2 DEF Quiet
<1>3. CASE Settled(r, w, s)
  <2>1. ~Absent(r[s]) => \E i \in DOMAIN u : Clears(u[i], s)
    BY <1>1, <1>3 DEF Settled
  <2>2. \A j \in DOMAIN u : Fills(u[j], s) => \E i \in DOMAIN u : i > j /\ Clears(u[i], s)
    BY <1>1, <1>2, <1>3 DEF Settled
  <2> QED
    BY <2>1, <2>2 DEF Settled, u
<1>4. CASE \E j \in DOMAIN v : Clears(v[j], s)
  <2>1. PICK k \in DOMAIN v : Clears(v[k], s)
    BY <1>4
  <2>2. n + k \in DOMAIN u /\ Clears(u[n + k], s) /\ \A i \in DOMAIN w : n + k > i
    BY <1>1, <2>1
  <2>3. \A j \in DOMAIN u : Fills(u[j], s) => \E i \in DOMAIN u : i > j /\ Clears(u[i], s)
    BY <1>2, <2>2
  <2> QED
    BY <2>2, <2>3 DEF Settled, u
<1> QED
  BY <1>3, <1>4

LEMMA PutsQuiet ==
  ASSUME GuzzlersAssumption, NEW by \in {"scanner", "sweep"}, NEW S \in SUBSET Senders,
         NEW t \in [Senders -> Buckets], NEW s, s \notin S
  PROVE  Quiet(Puts(by, S, t), s)
<1> SUFFICES ASSUME NEW j \in DOMAIN Puts(by, S, t) PROVE s \notin Puts(by, S, t)[j].put
  BY DEF Quiet, Fills
<1>0. \A i \in DOMAIN Puts(by, S, t) :
        \E x \in S : Puts(by, S, t)[i] = [by |-> by, put |-> {x}, to |-> t[x]]
  BY PutsAre, Zenon
<1>1. PICK x \in S : Puts(by, S, t)[j] = [by |-> by, put |-> {x}, to |-> t[x]]
  BY <1>0
<1>2. Puts(by, S, t)[j].put = {x}
  BY <1>1
<1> QED
  BY <1>2

LEMMA RemovalSettles ==
  ASSUME NEW by \in {"scanner", "sweep"}, NEW S \in SUBSET Senders, NEW s
  PROVE  /\ Quiet(Removal(by, S), s)
         /\ s \in S => \E j \in DOMAIN Removal(by, S) : Clears(Removal(by, S)[j], s)
<1>1. \A j \in DOMAIN Removal(by, S) : Removal(by, S)[j].put = {} /\ Removal(by, S)[j].to = S
  <2> SUFFICES ASSUME NEW j \in DOMAIN Removal(by, S)
               PROVE  Removal(by, S)[j].put = {} /\ Removal(by, S)[j].to = S
    OBVIOUS
  <2>1. Removal(by, S)[j] = [by |-> by, put |-> {}, to |-> S]
    BY RemovalIs
  <2> QED
    BY <2>1
<1>2. S # {} => 1 \in DOMAIN Removal(by, S)
  BY RemovalIs
<1> QED
  BY <1>1, <1>2 DEF Quiet, Fills, Clears

\* What Redis does with the first command.
Executed(r, c) ==
  [s \in Senders |-> IF s \in c.put THEN c.to
                     ELSE IF c.put = {} /\ s \in c.to THEN NoBuckets ELSE r[s]]

LEMMA ExecutedIs ==
  ASSUME NEW h \in History, NEW r \in [Senders -> Buckets], NEW w \in Seq(Commanded), w # << >>,
         HonestWire(h, w), \A s \in Senders : Honest(h, r[s], s)
  PROVE  /\ Executed(r, Head(w)) \in [Senders -> Buckets] /\ Tail(w) \in Seq(Commanded)
         /\ HonestWire(h, Tail(w))
         /\ \A s \in Senders : Honest(h, Executed(r, Head(w))[s], s)
         /\ \A s \in Senders : Settled(r, w, s) => Settled(Executed(r, Head(w)), Tail(w), s)
<1> DEFINE c == Head(w)
           v == Tail(w)
           e == Executed(r, c)
<1>1. Len(w) \in Nat \ {0} /\ DOMAIN w = 1..Len(w) /\ 1 \in DOMAIN w
  BY EmptySeq, LenProperties
<1>2. /\ c = w[1] /\ v \in Seq(Commanded) /\ Len(v) = Len(w) - 1
      /\ \A i \in 1..Len(v) : v[i] = w[i + 1]
  BY <1>1, HeadTailProperties
<1>3. DOMAIN v = 1..Len(v)
  BY <1>2, LenProperties
<1>4. c \in Commanded /\ \A s \in c.put : Honest(h, c.to, s)
  BY <1>1, <1>2, ElementOfSeq DEF HonestWire
<1> HIDE DEF c, v
<1>5. /\ \A i \in DOMAIN v : i + 1 \in DOMAIN w /\ v[i] = w[i + 1] /\ i \in Nat
      /\ \A i \in DOMAIN w : i # 1 => i - 1 \in DOMAIN v /\ v[i - 1] = w[i] /\ i \in Nat
  <2>1. \A i \in DOMAIN v : i + 1 \in DOMAIN w /\ i \in Nat
    BY <1>1, <1>2, <1>3, SMT
  <2>2. \A i \in DOMAIN w : i # 1 => i - 1 \in DOMAIN v /\ (i - 1) + 1 = i /\ i \in Nat
    BY <1>1, <1>2, <1>3, SMT
  <2> QED
    BY <1>2, <1>3, <2>1, <2>2
<1>6. \A s \in Senders : /\ s \in c.put => e[s] = c.to
                         /\ Clears(c, s) => e[s] = NoBuckets
                         /\ s \notin c.put /\ ~Clears(c, s) => e[s] = r[s]
  BY DEF Executed, Clears
<1>7. \A s \in Senders : Honest(h, e[s], s)
  <2> HIDE DEF e
  <2> SUFFICES ASSUME NEW s \in Senders PROVE Honest(h, e[s], s)
    OBVIOUS
  <2> QED
    BY <1>4, <1>6, NoBucketsHonest
<1>8. e \in [Senders -> Buckets]
  <2>1. \A s \in Senders : e[s] \in Buckets
    BY <1>7 DEF Honest
  <2>2. e = [s \in Senders |-> e[s]]
    BY DEF Executed
  <2> HIDE DEF e
  <2> QED
    BY <2>1, <2>2
<1>9. HonestWire(h, v)
  BY <1>5 DEF HonestWire
<1> HIDE DEF e
<1>10. ASSUME NEW s \in Senders, Settled(r, w, s) PROVE Settled(e, v, s)
  <2>1. ASSUME NEW i \in DOMAIN w, Clears(w[i], s), NEW j \in DOMAIN v, i > j + 1
        PROVE  \E k \in DOMAIN v : k > j /\ Clears(v[k], s)
    <3>1. i \in Nat /\ j \in Nat
      BY <1>1, <1>5, SMT
    <3>2. i # 1 /\ i - 1 > j
      BY <2>1, <3>1, SMT
    <3>3. i - 1 \in DOMAIN v /\ Clears(v[i - 1], s)
      BY <1>5, <2>1, <3>2
    <3> QED
      BY <3>2, <3>3
  <2>2. ASSUME NEW j \in DOMAIN v, Fills(v[j], s)
        PROVE  \E k \in DOMAIN v : k > j /\ Clears(v[k], s)
    <3>1. j + 1 \in DOMAIN w /\ Fills(w[j + 1], s)
      BY <1>5, <2>2
    <3>2. PICK i \in DOMAIN w : i > j + 1 /\ Clears(w[i], s)
      BY <1>10, <3>1 DEF Settled
    <3> QED
      BY <2>1, <3>2
  <2>3. ASSUME NEW i \in DOMAIN w, i # 1, Clears(w[i], s)
        PROVE  \E k \in DOMAIN v : Clears(v[k], s)
    BY <1>5, <2>3
  <2>4. ASSUME ~Absent(e[s]) PROVE \E k \in DOMAIN v : Clears(v[k], s)
    <3>1. ~Clears(c, s)
      BY <1>6, <2>4, NoBucketsHonest
    <3>2. CASE s \in c.put
      <4>1. Fills(w[1], s)
        BY <1>2, <1>6, <2>4, <3>2 DEF Fills
      <4>2. PICK i \in DOMAIN w : i > 1 /\ Clears(w[i], s)
        BY <1>1, <1>10, <4>1 DEF Settled
      <4>3. i # 1
        BY <1>1, <4>2, SMT
      <4> QED
        BY <2>3, <4>2, <4>3
    <3>3. CASE s \notin c.put
      <4>1. e[s] = r[s]
        BY <1>6, <3>1, <3>3
      <4>2. PICK i \in DOMAIN w : Clears(w[i], s)
        BY <1>10, <2>4, <4>1 DEF Settled
      <4>3. i # 1
        BY <1>2, <3>1, <4>2
      <4> QED
        BY <2>3, <4>2, <4>3
    <3> QED
      BY <3>2, <3>3
  <2> QED
    BY <2>2, <2>4 DEF Settled
<1> QED
  BY <1>2, <1>7, <1>8, <1>9, <1>10 DEF c, v, e

-----------------------------------------------------------------------------
(* The steps. *)

LEMMA InitHolds ==
  ASSUME GuzzlersAssumption, Init PROVE IInv
<1>1. << >> \in History /\ Len(<< >>) = 0 /\ << >> \in Seq(Commanded)
  BY EmptySeq DEF History
<1>2. 0 \in Times /\ 0 <= MaxBlocks /\ 0 \in 0..MaxFaults
  BY Constants, SMT DEF Times
<1>3. tracker \in [Senders -> Buckets] /\ redis \in [Senders -> Buckets]
  BY <1>1, NoBucketsHonest DEF Init
<1>4. Types
  BY <1>1, <1>2, <1>3 DEF Init, Types
<1>5. HonestWire(seen, wire)
  BY <1>1, EmptySeq DEF Init, HonestWire
<1>6. HonestInv
  BY <1>1, <1>5, NoBucketsHonest DEF Init, HonestInv
<1>7. CompleteInv
  <2> SUFFICES ASSUME NEW s \in Senders, NEW m \in Minutes
               PROVE  LET young == {i \in Of(seen, s, m) : seen[i][1] > now - Retention}
                      IN  /\ Cardinality(young) <= tracker[s][m].count
                          /\ \A i \in young : seen[i][1] <= tracker[s][m].lastMs
    BY DEF CompleteInv, Complete
  <2>1. Of(seen, s, m) = {}
    BY EmptySeq DEF Init, Of
  <2>2. tracker[s][m].count \in Nat
    BY <1>3 DEF Buckets, Bucket
  <2> DEFINE young == {i \in Of(seen, s, m) : seen[i][1] > now - Retention}
  <2>3. young = {}
    BY <2>1
  <2>4. Cardinality(young) = 0
    BY <2>3, FS_EmptySet
  <2> HIDE DEF young
  <2>5. Cardinality(young) <= tracker[s][m].count /\ \A i \in young : seen[i][1] <= tracker[s][m].lastMs
    BY <2>2, <2>3, <2>4, SMT
  <2> QED
    BY <2>5 DEF young
<1>8. GhostInv
  <2>1. \A s \in Senders : Absent(redis[s])
    BY NoBucketsHonest, <1>1 DEF Init
  <2> QED
    BY <2>1, EmptySeq DEF Init, GhostInv, Settled
<1> QED
  BY <1>4, <1>6, <1>7, <1>8 DEF IInv

LEMMA TickHolds ==
  ASSUME GuzzlersAssumption, IInv, Tick PROVE IInv'
<1>1. now \in Nat /\ now' \in Times /\ now' = now + 1
  BY Constants, SMT DEF IInv, Types, Times, Tick
<1>2. Types'
  BY <1>1 DEF IInv, Types, Tick
<1>3. HonestInv'
  BY DEF IInv, HonestInv, Tick
<1>4. CompleteInv'
  <2> SUFFICES ASSUME faults = 0, NEW s \in Senders PROVE Complete(seen, tracker[s], s, now + 1)
    BY <1>1 DEF CompleteInv, Tick
  <2>1. Complete(seen, tracker[s], s, now) /\ tracker[s] \in Buckets /\ seen \in History
    BY DEF IInv, CompleteInv, Types
  <2> QED
    BY <1>1, <2>1, LaterComplete
<1>5. GhostInv'
  BY DEF IInv, GhostInv, Tick
<1> QED
  BY <1>2, <1>3, <1>4, <1>5 DEF IInv

LEMMA RedisExecutesHolds ==
  ASSUME GuzzlersAssumption, IInv, RedisExecutes PROVE IInv'
<1>1. redis' = Executed(redis, Head(wire))
  BY DEF RedisExecutes, Executed
<1>2. /\ wire # << >> /\ wire' = Tail(wire)
      /\ UNCHANGED <<now, tracker, removing, doubtful, faults, seen>>
  BY DEF RedisExecutes
<1>3. /\ seen \in History /\ redis \in [Senders -> Buckets] /\ wire \in Seq(Commanded)
      /\ HonestWire(seen, wire) /\ \A s \in Senders : Honest(seen, redis[s], s)
  BY DEF IInv, Types, HonestInv
<1>4. /\ redis' \in [Senders -> Buckets] /\ wire' \in Seq(Commanded)
      /\ HonestWire(seen, wire')
      /\ \A s \in Senders : Honest(seen, redis'[s], s)
      /\ \A s \in Senders : Settled(redis, wire, s) => Settled(redis', wire', s)
  BY <1>1, <1>2, <1>3, ExecutedIs
<1>5. Types'
  BY <1>2, <1>4 DEF IInv, Types
<1>6. HonestInv'
  BY <1>2, <1>4 DEF IInv, HonestInv
<1>7. CompleteInv'
  BY <1>2 DEF IInv, CompleteInv
<1>8. GhostInv'
  BY <1>2, <1>4 DEF IInv, GhostInv
<1> QED
  BY <1>5, <1>6, <1>7, <1>8 DEF IInv

LEMMA ConnectionBreaksHolds ==
  ASSUME GuzzlersAssumption, IInv, ConnectionBreaks PROVE IInv'
<1>1. /\ wire' = << >> /\ removing' = {} /\ doubtful' = TRUE
      /\ UNCHANGED <<now, tracker, redis, seen>>
  BY DEF ConnectionBreaks
<1>2. faults \in Nat /\ faults' \in 0..MaxFaults /\ faults' # 0
  BY Constants, SMT DEF IInv, Types, ConnectionBreaks
<1>3. wire' \in Seq(Commanded) /\ HonestWire(seen, wire')
  BY <1>1, EmptySeq DEF HonestWire
<1>4. Types'
  BY <1>1, <1>2, <1>3 DEF IInv, Types
<1>5. HonestInv'
  BY <1>1, <1>3 DEF IInv, HonestInv
<1>6. CompleteInv'
  BY <1>2 DEF CompleteInv
<1>7. GhostInv'
  BY <1>1 DEF GhostInv
<1> QED
  BY <1>4, <1>5, <1>6, <1>7 DEF IInv

LEMMA RemoveSendersHolds ==
  ASSUME GuzzlersAssumption, IInv, RemoveSenders PROVE IInv'
<1> DEFINE R == Removal("sweep", removing)
<1>1. /\ wire' = wire \o R /\ removing' = {}
      /\ UNCHANGED <<now, tracker, redis, doubtful, faults, seen>>
  BY DEF RemoveSenders
<1>2. wire \in Seq(Commanded) /\ removing \in SUBSET Senders /\ HonestWire(seen, wire)
  BY DEF IInv, Types, HonestInv
<1>3. R \in Seq(Commanded) /\ HonestWire(seen, R)
  BY <1>2, RemovalIs, HonestRemoval
<1>4. \A s : Quiet(R, s) /\ (s \in removing => \E j \in DOMAIN R : Clears(R[j], s))
  BY <1>2, RemovalSettles
<1> HIDE DEF R
<1>5. wire' \in Seq(Commanded) /\ HonestWire(seen, wire')
  BY <1>1, <1>2, <1>3, Behind, HonestBehind
<1>6. Types'
  BY <1>1, <1>5 DEF IInv, Types
<1>7. HonestInv'
  BY <1>1, <1>5 DEF IInv, HonestInv
<1>8. CompleteInv'
  BY <1>1 DEF IInv, CompleteInv
<1>9. GhostInv'
  <2> SUFFICES ASSUME ~doubtful, NEW s \in Senders, Absent(tracker[s])
               PROVE  Settled(redis, wire', s)
    BY <1>1 DEF GhostInv
  <2>1. s \in removing \/ Settled(redis, wire, s)
    BY DEF IInv, GhostInv
  <2>2. Settled(redis, wire, s) \/ \E j \in DOMAIN R : Clears(R[j], s)
    BY <1>4, <2>1
  <2> QED
    BY <1>1, <1>2, <1>3, <1>4, <2>2, SettledBehind
<1> QED
  BY <1>6, <1>7, <1>8, <1>9 DEF IInv

LEMMA RecordBlockHolds ==
  ASSUME GuzzlersAssumption, IInv,
         NEW ts \in Times, NEW senders \in SUBSET Senders, RecordBlock(ts, senders)
  PROVE  IInv'
<1> DEFINE h == Append(seen, <<ts, senders>>)
           P == Puts("scanner", senders, tracker')
<1>1. /\ Len(seen) < MaxBlocks /\ seen' = h
      /\ UNCHANGED <<now, redis, removing, doubtful, faults>>
  BY DEF RecordBlock
<1>2. /\ now \in Nat /\ ts \in Nat /\ Retention \in Nat /\ Times \subseteq Nat
      /\ seen \in History /\ tracker \in [Senders -> Buckets] /\ wire \in Seq(Commanded)
      /\ HonestWire(seen, wire)
  BY Constants, MinutesAre DEF IInv, Types, HonestInv
<1>3. h \in History /\ Len(h) = Len(seen) + 1 /\ Len(seen) \in Nat
  BY <1>2, AppendProperties, LenProperties DEF History
<1>4. Len(h) <= MaxBlocks
  BY <1>1, <1>3, Constants, SMT
<1>5. \A b, s : Honest(seen, b, s) => Honest(h, b, s)
  BY <1>2, GrownHonest
<1> HIDE DEF h
<1>6. HonestWire(h, wire)
  BY <1>2, <1>5 DEF HonestWire
<1>7. \A s \in Senders : Honest(h, redis[s], s) /\ Honest(h, tracker[s], s)
  BY <1>5 DEF IInv, HonestInv
<1>8. CASE ts <= now - Retention
  <2>1. tracker' = tracker /\ wire' = wire
    BY <1>8 DEF RecordBlock
  <2>2. Types'
    BY <1>1, <1>3, <1>4, <2>1 DEF IInv, Types
  <2>3. HonestInv'
    BY <1>1, <1>6, <1>7, <2>1 DEF HonestInv
  <2>4. CompleteInv'
    <3> SUFFICES ASSUME faults = 0, NEW s \in Senders PROVE Complete(h, tracker[s], s, now)
      BY <1>1, <2>1 DEF CompleteInv
    <3>1. Complete(seen, tracker[s], s, now) /\ ~(ts > now - Retention)
      BY <1>2, <1>8, SMT DEF IInv, CompleteInv
    <3> QED
      BY <1>2, <3>1, GrownComplete DEF h
  <2>5. GhostInv'
    BY <1>1, <2>1 DEF IInv, GhostInv
  <2> QED
    BY <2>2, <2>3, <2>4, <2>5 DEF IInv
<1>9. CASE ~(ts <= now - Retention)
  <2>1. /\ tracker' = [s \in Senders |->
                         IF s \in senders THEN Evict(Folded(tracker[s], ts)) ELSE tracker[s]]
        /\ wire' = wire \o P
    BY <1>9 DEF RecordBlock
  <2>2. ASSUME NEW s \in senders
        PROVE  /\ s \in Senders /\ tracker'[s] = Evict(Folded(tracker[s], ts))
               /\ Honest(h, Folded(tracker[s], ts), s)
               /\ faults = 0 => Complete(h, Folded(tracker[s], ts), s, now)
    <3>1. s \in Senders /\ Honest(seen, tracker[s], s)
      BY DEF IInv, HonestInv
    <3>2. /\ Honest(h, Folded(tracker[s], ts), s)
          /\ Complete(seen, tracker[s], s, now) => Complete(h, Folded(tracker[s], ts), s, now)
      BY <1>2, <3>1, FoldedIs DEF h
    <3> QED
      BY <2>1, <3>1, <3>2 DEF IInv, CompleteInv
  <2>3. ASSUME NEW s \in Senders
        PROVE  Honest(h, tracker'[s], s) /\ (faults = 0 => Complete(h, tracker'[s], s, now))
    <3>1. CASE s \in senders
      BY <1>2, <1>3, <2>2, <3>1, EvictIs
    <3>2. CASE s \notin senders
      <4>1. tracker'[s] = tracker[s]
        BY <2>1, <3>2
      <4>2. faults = 0 => Complete(seen, tracker[s], s, now)
        BY DEF IInv, CompleteInv
      <4>3. faults = 0 => Complete(h, tracker[s], s, now)
        BY <1>2, <3>2, <4>2, GrownComplete DEF h
      <4> QED
        BY <1>7, <4>1, <4>3
    <3> QED
      BY <3>1, <3>2
  <2>4. tracker' \in [Senders -> Buckets]
    <3>1. tracker' = [s \in Senders |-> tracker'[s]]
      BY <2>1
    <3>2. \A s \in Senders : tracker'[s] \in Buckets
      BY <2>3 DEF Honest
    <3> QED
      BY <3>1, <3>2
  <2>5. P \in Seq(Commanded) /\ \A s : s \notin senders => Quiet(P, s)
    BY <2>4, PutsAre, PutsQuiet
  <2>6. HonestWire(h, P)
    BY <2>3, <2>4, HonestPuts
  <2> HIDE DEF P
  <2>7. wire' \in Seq(Commanded) /\ HonestWire(h, wire')
    BY <1>2, <1>6, <2>1, <2>5, <2>6, Behind, HonestBehind
  <2>8. Types'
    BY <1>1, <1>3, <1>4, <2>4, <2>7 DEF IInv, Types
  <2>9. HonestInv'
    BY <1>1, <1>7, <2>3, <2>7 DEF HonestInv
  <2>10. CompleteInv'
    BY <1>1, <2>3 DEF CompleteInv
  <2>11. GhostInv'
    <3> SUFFICES ASSUME ~doubtful, NEW s \in Senders, Absent(tracker'[s])
                 PROVE  s \in removing \/ Settled(redis, wire', s)
      BY <1>1 DEF GhostInv, Absent
    <3>1. s \notin senders
      <4> SUFFICES ASSUME s \in senders PROVE FALSE
        OBVIOUS
      <4> DEFINE k == minuteOf(ts)
                 f == Folded(tracker[s], ts)
      <4>1. k \in Minutes /\ tracker[s] \in Buckets
        BY <1>2, MinutesAre
      <4>2. tracker[s][k].count \in Nat /\ tracker[s][k].lastMs \in Int
        BY <4>1 DEF Buckets, Bucket
      <4>3. f[k] = [count |-> tracker[s][k].count + 1,
                    lastMs |-> IF ts > tracker[s][k].lastMs THEN ts ELSE tracker[s][k].lastMs]
        BY <4>1 DEF Folded, Buckets
      <4>4. f[k].count # 0 /\ f[k].lastMs >= ts /\ f[k].lastMs \in Int
        BY <1>2, <4>2, <4>3, SMT
      <4> HIDE DEF f, k
      <4>5. ~Expired(k, f[k])
        BY <1>2, <1>9, <4>4, SMT DEF Expired
      <4>6. Evict(f)[k] = f[k]
        BY <4>1, <4>5 DEF Evict
      <4>7. tracker'[s] = Evict(f)
        BY <2>2 DEF f
      <4> QED
        BY <4>1, <4>4, <4>6, <4>7 DEF Absent
    <3>2. tracker'[s] = tracker[s]
      BY <2>1, <3>1
    <3>3. s \in removing \/ Settled(redis, wire, s)
      BY <3>2 DEF IInv, GhostInv
    <3> QED
      BY <1>2, <2>1, <2>5, <3>1, <3>3, SettledBehind
  <2> QED
    BY <2>8, <2>9, <2>10, <2>11 DEF IInv
<1> QED
  BY <1>8, <1>9

LEMMA SweepHolds ==
  ASSUME GuzzlersAssumption, IInv, Sweep PROVE IInv'
<1> DEFINE P == Puts("sweep", Updated, tracker')
           R == IF Updated = {} THEN Removal("sweep", Removed) ELSE << >>
<1>1. /\ removing = {}
      /\ tracker' = [s \in Senders |-> Evict(tracker[s])]
      /\ wire' = (wire \o P) \o R
      /\ removing' = IF Updated = {} THEN {} ELSE Removed
      /\ UNCHANGED <<now, redis, doubtful, faults, seen>>
  BY DEF Sweep
<1>2. /\ now \in Nat /\ seen \in History /\ wire \in Seq(Commanded) /\ HonestWire(seen, wire)
      /\ \A s \in Senders : Honest(seen, tracker[s], s)
      /\ Updated \in SUBSET Senders /\ Removed \in SUBSET Senders
  BY MinutesAre DEF IInv, Types, HonestInv, Updated, Removed
<1>3. ASSUME NEW s \in Senders
      PROVE  /\ tracker'[s] = Evict(tracker[s]) /\ Honest(seen, tracker'[s], s)
             /\ Complete(seen, tracker[s], s, now) => Complete(seen, tracker'[s], s, now)
             /\ Absent(tracker[s]) => tracker'[s] = tracker[s]
  <2>1. tracker'[s] = Evict(tracker[s])
    BY <1>1
  <2> QED
    BY <1>2, <2>1, EvictIs
<1>4. tracker' \in [Senders -> Buckets]
  <2>1. \A s \in Senders : tracker'[s] \in Buckets
    BY <1>3 DEF Honest
  <2>2. tracker' = [s \in Senders |-> tracker'[s]]
    BY <1>1
  <2> QED
    BY <2>1, <2>2
<1>5. /\ P \in Seq(Commanded) /\ HonestWire(seen, P)
      /\ \A s : s \notin Updated => Quiet(P, s)
  BY <1>2, <1>3, <1>4, PutsAre, PutsQuiet, HonestPuts
<1>6. /\ R \in Seq(Commanded) /\ HonestWire(seen, R)
      /\ \A s : Quiet(R, s)
      /\ \A s \in Removed : Updated = {} => \E j \in DOMAIN R : Clears(R[j], s)
  <2>1. CASE Updated = {}
    BY <1>2, <2>1, RemovalIs, HonestRemoval, RemovalSettles
  <2>2. CASE Updated # {}
    BY <2>2, EmptySeq DEF HonestWire, Quiet
  <2> QED
    BY <2>1, <2>2
<1> HIDE DEF P, R
<1>7. wire \o P \in Seq(Commanded) /\ HonestWire(seen, wire \o P)
  BY <1>2, <1>5, Behind, HonestBehind
<1>8. wire' \in Seq(Commanded) /\ HonestWire(seen, wire')
  BY <1>1, <1>6, <1>7, Behind, HonestBehind
<1>9. Types'
  BY <1>1, <1>2, <1>4, <1>8 DEF IInv, Types
<1>10. HonestInv'
  BY <1>1, <1>3, <1>8 DEF IInv, HonestInv
<1>11. CompleteInv'
  BY <1>1, <1>3 DEF IInv, CompleteInv
<1>12. GhostInv'
  <2> SUFFICES ASSUME ~doubtful, NEW s \in Senders, Absent(tracker'[s])
               PROVE  s \in removing' \/ Settled(redis, wire', s)
    BY <1>1 DEF GhostInv, Absent
  <2>1. CASE Absent(tracker[s])
    <3>1. Settled(redis, wire, s)
      BY <1>1, <2>1 DEF IInv, GhostInv
    <3>2. s \notin Updated
      BY <1>3, <2>1 DEF Updated
    <3>3. Settled(redis, wire \o P, s)
      BY <1>2, <1>5, <3>1, <3>2, SettledBehind
    <3> QED
      BY <1>1, <1>6, <1>7, <3>3, SettledBehind
  <2>2. CASE ~Absent(tracker[s])
    <3>1. s \in Removed
      BY <1>3, <2>2 DEF Removed
    <3>2. CASE Updated = {}
      BY <1>1, <1>6, <1>7, <3>1, <3>2, SettledBehind
    <3>3. CASE Updated # {}
      BY <1>1, <3>1, <3>3
    <3> QED
      BY <3>2, <3>3
  <2> QED
    BY <2>1, <2>2
<1> QED
  BY <1>9, <1>10, <1>11, <1>12 DEF IInv

LEMMA RestartHolds ==
  ASSUME GuzzlersAssumption, IInv, Restart PROVE IInv'
<1> DEFINE gone == {s \in Senders : ~Absent(redis[s]) /\ Absent(Loaded[s])}
           less == {s \in Senders : Loaded[s] # redis[s]} \ gone
           P == Puts("scanner", less, Loaded)
           R == Removal("scanner", gone)
<1>1. /\ tracker' = Loaded /\ wire' = P \o R /\ removing' = {} /\ doubtful' = FALSE
      /\ UNCHANGED <<now, redis, seen>>
  BY DEF Restart
<1>2. /\ now \in Nat /\ seen \in History /\ \A s \in Senders : Honest(seen, redis[s], s)
      /\ less \in SUBSET Senders /\ gone \in SUBSET Senders
  BY MinutesAre DEF IInv, Types, HonestInv
<1>3. ASSUME NEW s \in Senders
      PROVE  Honest(seen, Loaded[s], s) /\ (Absent(redis[s]) => Loaded[s] = redis[s])
  <2>1. Loaded[s] = Evict(redis[s])
    BY DEF Loaded
  <2> QED
    BY <1>2, <2>1, EvictIs
<1>4. Loaded \in [Senders -> Buckets]
  <2>1. \A s \in Senders : Loaded[s] \in Buckets
    BY <1>3 DEF Honest
  <2>2. Loaded = [s \in Senders |-> Loaded[s]]
    BY DEF Loaded
  <2> QED
    BY <2>1, <2>2
<1>5. \A s \in Senders : Absent(Loaded[s]) => s \in gone \/ (Absent(redis[s]) /\ s \notin less)
  BY <1>3
<1> HIDE DEF gone, less
<1>6. /\ P \in Seq(Commanded) /\ HonestWire(seen, P)
      /\ \A s : s \notin less => Quiet(P, s)
  BY <1>2, <1>3, <1>4, PutsAre, PutsQuiet, HonestPuts
<1>7. /\ R \in Seq(Commanded) /\ HonestWire(seen, R)
      /\ \A s : Quiet(R, s) /\ (s \in gone => \E j \in DOMAIN R : Clears(R[j], s))
  BY <1>2, RemovalIs, HonestRemoval, RemovalSettles
<1> HIDE DEF P, R
<1>8. wire' \in Seq(Commanded) /\ HonestWire(seen, wire')
  BY <1>1, <1>6, <1>7, Behind, HonestBehind
<1>9. faults \in Nat /\ faults' \in 0..MaxFaults /\ faults' # 0
  BY Constants, SMT DEF IInv, Types, Restart
<1>10. Types'
  BY <1>1, <1>4, <1>8, <1>9 DEF IInv, Types
<1>11. HonestInv'
  BY <1>1, <1>2, <1>3, <1>8 DEF HonestInv
<1>12. CompleteInv'
  BY <1>9 DEF CompleteInv
<1>13. GhostInv'
  <2> SUFFICES ASSUME NEW s \in Senders, Absent(Loaded[s]) PROVE Settled(redis, wire', s)
    BY <1>1 DEF GhostInv, Absent
  <2>1. CASE s \in gone
    BY <1>1, <1>6, <1>7, <2>1, SettledBehind
  <2>2. CASE Absent(redis[s]) /\ s \notin less
    <3>1. Settled(redis, P, s)
      BY <1>6, <2>2 DEF Settled, Quiet
    <3> QED
      BY <1>1, <1>6, <1>7, <3>1, SettledBehind
  <2> QED
    BY <1>5, <2>1, <2>2
<1> QED
  BY <1>10, <1>11, <1>12, <1>13 DEF IInv

LEMMA NextHolds ==
  ASSUME GuzzlersAssumption, IInv, [Next]_vars PROVE IInv'
<1>1. CASE UNCHANGED vars
  BY <1>1 DEF vars, IInv, Types, HonestInv, CompleteInv, GhostInv, Absent
<1> QED
  BY <1>1, TickHolds, SweepHolds, RemoveSendersHolds, RedisExecutesHolds, RecordBlockHolds,
     ConnectionBreaksHolds, RestartHolds DEF Next

\* Whatever was recorded, evicted, mirrored, lost and reloaded, buckets count
\* no more than was recorded, those of a process that lives no less, and what
\* memory has forgotten is being cleared from Redis.
THEOREM Invariance == ASSUME GuzzlersAssumption PROVE Spec => []IInv
<1>1. Init => IInv
  BY InitHolds
<1>2. IInv /\ [Next]_vars => IInv'
  BY NextHolds
<1> QED
  BY <1>1, <1>2, PTL DEF Spec

LEMMA TypesFollow ==
  ASSUME GuzzlersAssumption, IInv PROVE TypeOK
<1>1. ASSUME NEW t \in {tracker, redis}, NEW s \in Senders, NEW m \in Minutes
      PROVE  /\ t[s][m].count \in 0..MaxBlocks
             /\ t[s][m].count > 0 => minuteOf(t[s][m].lastMs) = m
             /\ t[s][m].count = 0 => t[s][m] = Empty
  <2>1. Honest(seen, t[s], s) /\ seen \in History /\ Len(seen) <= MaxBlocks
    BY DEF IInv, HonestInv, Types
  <2>2. t[s][m].count \in Nat /\ t[s][m].count <= Cardinality(Of(seen, s, m))
    BY <2>1 DEF Honest, Buckets, Bucket
  <2>3. Cardinality(Of(seen, s, m)) \in Nat /\ Cardinality(Of(seen, s, m)) <= Len(seen)
    BY <2>1, OfIs
  <2>4. Len(seen) \in Nat
    BY <2>1, LenProperties DEF History
  <2>5. t[s][m].count \in 0..MaxBlocks
    BY <2>1, <2>2, <2>3, <2>4, Constants, SMT
  <2> QED
    BY <2>1, <2>5 DEF Honest
<1>2. ASSUME NEW i \in DOMAIN wire
      PROVE  [by |-> wire[i].by, put |-> wire[i].put] \in Commands
  <2>1. wire[i] \in Commanded
    BY ElementOfSeq, LenProperties DEF IInv, Types
  <2>2. wire[i].by \in {"scanner", "sweep"} /\ wire[i].put \in SUBSET Senders
    BY <2>1 DEF Commanded, PutCommand, RemovalCommand
  <2> QED
    BY <2>2 DEF Commands
<1> QED
  BY <1>1, <1>2 DEF IInv, Types, TypeOK

LEMMA BoardFollows ==
  ASSUME GuzzlersAssumption, IInv PROVE BoardHonest
<1> SUFFICES ASSUME NEW w \in DOMAIN Spans, NEW s \in Senders
             PROVE  /\ Counted(w, s) <= Younger(Spans[w] + BucketWidth, s)
                    /\ faults = 0 => Counted(w, s) >= Younger(Spans[w], s)
  BY DEF BoardHonest
<1>1. Types /\ HonestInv /\ (faults = 0 => Complete(seen, tracker[s], s, now))
  BY DEF IInv, CompleteInv
<1>2. Counted(w, s) <= Younger(Spans[w] + BucketWidth, s)
  BY <1>1, NoMoreShown
<1>3. faults = 0 => Younger(Spans[w], s) <= Counted(w, s)
  BY <1>1, NoLessShown
<1>4. \A a, b : a <= b <=> b >= a
  OBVIOUS
<1> QED
  BY <1>2, <1>3, <1>4

LEMMA IInvImplies ==
  ASSUME GuzzlersAssumption, IInv PROVE TypeOK /\ BoardHonest /\ NoGhosts
<1>1. NoGhosts
  BY EmptySeq DEF IInv, GhostInv, NoGhosts, Settled
<1> QED
  BY <1>1, TypesFollow, BoardFollows

\* The board of a window counts no transaction that is older than the window
\* by a bucket, and none twice, however often buckets were reloaded; and while
\* the process lives it misses none within the window.
THEOREM HonestBoard == ASSUME GuzzlersAssumption PROVE Spec => []BoardHonest
<1>1. IInv => BoardHonest
  BY IInvImplies
<1> QED
  BY <1>1, Invariance, PTL

\* Unless a command failed, nothing is left in Redis of a sender that memory
\* has forgotten once all commands are answered.
THEOREM GhostsGone == ASSUME GuzzlersAssumption PROVE Spec => []NoGhosts
<1>1. IInv => NoGhosts
  BY IInvImplies
<1> QED
  BY <1>1, Invariance, PTL

THEOREM TypeCorrect == ASSUME GuzzlersAssumption PROVE Spec => []TypeOK
<1>1. IInv => TypeOK
  BY IInvImplies
<1> QED
  BY <1>1, Invariance, PTL
=============================================================================
