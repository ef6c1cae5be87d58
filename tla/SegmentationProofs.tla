------------------------- MODULE SegmentationProofs -------------------------
(***************************************************************************)
(* Proofs about Segmentation, for bodies of any length and any capacities: *)
(* a body is cut in the fewest parts that hold it, and nothing is lost.    *)
(*                                                                         *)
(* They go by induction on places of the body. A set of numbers takes the  *)
(* part of the property, so that no operator is a parameter.               *)
(***************************************************************************)
EXTENDS Segmentation, FiniteSetTheorems, WellFoundedInduction, TLAPS

-----------------------------------------------------------------------------
(* Induction. The library's theorems take the property as an operator; here *)
(* it is the set of the numbers that have it.                               *)

LEMMA LeastNumber ==
  ASSUME NEW T \in SUBSET Nat, T # {}
  PROVE  \E m \in T : \A k \in T : m <= k
<1> DEFINE R == {ss \in Nat \X Nat : ss[1] < ss[2]}
<1>1. IsWellFoundedOn(R, Nat)
  BY NatLessThanWellFounded, Zenon DEF OpToRel
<1>2. \A x, y \in Nat : <<y, x>> \in R <=> y < x
  OBVIOUS
<1> HIDE DEF R
<1>3. \E x \in T : \A y \in T : ~ (<<y, x>> \in R)
  BY <1>1, WFMin
<1>4. \A x, y \in T : ~ (<<y, x>> \in R) => x <= y
  BY <1>2
<1> QED BY <1>3, <1>4

LEMMA Induction ==
  ASSUME NEW n \in Nat, NEW T, 0 \in T, \A k \in 1..n : k - 1 \in T => k \in T
  PROVE  0..n \subseteq T
<1> SUFFICES ASSUME NEW x \in 0..n, x \notin T PROVE FALSE
  OBVIOUS
<1> DEFINE Out == {k \in 0..n : k \notin T}
<1>1. Out \in SUBSET Nat /\ Out # {}
  OBVIOUS
<1> HIDE DEF Out
<1>2. PICK m \in Out : \A k \in Out : m <= k
  BY <1>1, LeastNumber
<1> USE DEF Out
<1>3. m \in 1..n
  OBVIOUS
<1>4. m - 1 \in 0..n /\ m - 1 \notin Out
  BY <1>2, <1>3
<1> QED BY <1>3, <1>4

LEMMA MinIs ==
  ASSUME NEW T \in SUBSET Nat, T # {}
  PROVE  Min(T) \in T /\ \A k \in T : Min(T) <= k
BY LeastNumber DEF Min

LEMMA GreatestNumber ==
  ASSUME NEW n \in Nat, NEW T \in SUBSET (0..n), T # {}
  PROVE  \E m \in T : \A k \in T : k <= m
<1> DEFINE D == {x \in 0..n : n - x \in T}
<1>1. D \in SUBSET Nat
  OBVIOUS
<1>2. D # {}
  <2>1. PICK t \in T : TRUE
    OBVIOUS
  <2>2. n - t \in 0..n /\ n - (n - t) = t
    OBVIOUS
  <2> QED BY <2>2
<1> HIDE DEF D
<1>3. PICK d \in D : \A k \in D : d <= k
  BY <1>1, <1>2, LeastNumber
<1> USE DEF D
<1>4. n - d \in T
  OBVIOUS
<1>5. ASSUME NEW k \in T PROVE k <= n - d
  <2>1. n - k \in D
    <3>1. n - k \in 0..n /\ n - (n - k) = k
      OBVIOUS
    <3> QED BY <3>1
  <2> QED BY <1>3, <2>1
<1> QED BY <1>4, <1>5

\* There is a function that goes on from each value to the next as it should.
Recurs(f, m, A, a, step) ==
  /\ f \in [0..m -> A] /\ f[0] = a
  /\ \A k \in 1..m : f[k] = step[f[k - 1]][k]

LEMMA Recursion ==
  ASSUME NEW n \in Nat, NEW A, NEW a \in A, NEW step \in [A -> [1..n -> A]]
  PROVE  \E f : Recurs(f, n, A, a, step)
<1> DEFINE T == {m \in 0..n : \E f : Recurs(f, m, A, a, step)}
<1>1. 0 \in T
  <2>1. Recurs([k \in 0..0 |-> a], 0, A, a, step)
    BY DEF Recurs
  <2> QED BY <2>1
<1>2. ASSUME NEW m \in 1..n, m - 1 \in T PROVE m \in T
  <2>1. PICK f : Recurs(f, m - 1, A, a, step)
    BY <1>2
  <2> DEFINE g == [k \in 0..m |-> IF k = m THEN step[f[m - 1]][m] ELSE f[k]]
  <2>2. f \in [0..(m - 1) -> A] /\ m - 1 \in 0..(m - 1)
    BY <2>1 DEF Recurs
  <2>3. step[f[m - 1]][m] \in A
    BY <2>2
  <2>4. g \in [0..m -> A] /\ g[0] = a /\ g[m] = step[f[m - 1]][m]
    BY <2>1, <2>2, <2>3 DEF Recurs
  <2>5. \A k \in 0..(m - 1) : g[k] = f[k]
    OBVIOUS
  <2>6. ASSUME NEW k \in 1..m PROVE g[k] = step[g[k - 1]][k]
    <3>1. k - 1 \in 0..(m - 1) /\ g[k - 1] = f[k - 1]
      BY <2>5
    <3>2. CASE k = m
      BY <2>4, <3>1, <3>2
    <3>3. CASE k # m
      <4>1. k \in 1..(m - 1)
        BY <3>3
      <4> QED BY <2>1, <2>5, <3>1, <4>1 DEF Recurs
    <3> QED BY <3>2, <3>3
  <2> HIDE DEF g
  <2>7. Recurs(g, m, A, a, step)
    BY <2>4, <2>6 DEF Recurs
  <2>8. m \in 0..n
    OBVIOUS
  <2> QED BY <2>7, <2>8
<1> HIDE DEF T
<1>3. 0..n \subseteq T
  BY <1>1, <1>2, Induction
<1>4. n \in 0..n
  OBVIOUS
<1> QED BY <1>3, <1>4 DEF T

-----------------------------------------------------------------------------
(* What the parts of a body cost.                                           *)

LEMMA CostIs ==
  ASSUME NEW e, NEW c PROVE Cost(e, c) \in 1..2
BY DEF Cost

LEMMA SumsIs ==
  ASSUME NEW e \in Encodings, NEW s \in Seq(Chars)
  PROVE  /\ Sums(e, s) \in [0..Len(s) -> Nat] /\ Sums(e, s)[0] = 0
         /\ \A k \in 1..Len(s) : Sums(e, s)[k] = Sums(e, s)[k - 1] + Cost(e, s[k])
<1> DEFINE N == Len(s)
           step == [v \in Nat |-> [k \in 1..N |-> v + Cost(e, s[k])]]
<1>0. N \in Nat
  OBVIOUS
<1>1. step \in [Nat -> [1..N -> Nat]]
  BY CostIs
<1> HIDE DEF N, step
<1>2. PICK f : Recurs(f, N, Nat, 0, step)
  BY <1>0, <1>1, Recursion
<1>3. f \in [0..N -> Nat] /\ f[0] = 0
  BY <1>2 DEF Recurs
<1>4. ASSUME NEW k \in 1..N PROVE f[k] = f[k - 1] + Cost(e, s[k])
  <2>1. k - 1 \in 0..N /\ f[k - 1] \in Nat
    BY <1>0, <1>3
  <2>2. f[k] = step[f[k - 1]][k]
    BY <1>2 DEF Recurs
  <2> QED BY <2>1, <2>2 DEF step
<1> DEFINE Rec(h, n) == IF n = 0 THEN 0 ELSE h[n - 1] + Cost(e, s[n])
<1>5. f = [n \in 0..N |-> Rec(f, n)]
  <2>1. \A n \in 0..N : f[n] = Rec(f, n)
    BY <1>0, <1>3, <1>4
  <2> HIDE DEF Rec
  <2> QED BY <1>3, <2>1
<1>6. Sums(e, s) = [n \in 0..N |-> Rec(Sums(e, s), n)]
  BY <1>5, Zenon DEF Sums, N, Rec
<1> DEFINE S == Sums(e, s)
<1> HIDE DEF S, Rec
<1>7. S = [n \in 0..N |-> Rec(S, n)]
  BY <1>6 DEF S
<1>8. S[0] = 0 /\ \A k \in 1..N : S[k] = S[k - 1] + Cost(e, s[k])
  <2>1. \A n \in 0..N : S[n] = Rec(S, n)
    BY <1>7
  <2>2. 0 \in 0..N /\ \A k \in 1..N : k \in 0..N /\ k # 0
    BY <1>0
  <2> QED BY <2>1, <2>2 DEF Rec
<1> DEFINE T == {k \in 0..N : S[k] \in Nat}
<1>9. 0..N \subseteq T
  <2>1. 0 \in T
    BY <1>0, <1>8
  <2>2. ASSUME NEW k \in 1..N, k - 1 \in T PROVE k \in T
    <3>1. S[k] = S[k - 1] + Cost(e, s[k]) /\ Cost(e, s[k]) \in 1..2 /\ S[k - 1] \in Nat
      BY <1>8, <2>2, CostIs
    <3> QED BY <1>0, <3>1
  <2> HIDE DEF T
  <2> QED BY <1>0, <2>1, <2>2, Induction
<1>10. S \in [0..N -> Nat]
  <2>1. \A k \in 0..N : S[k] \in Nat
    BY <1>9
  <2>2. DOMAIN S = 0..N /\ S = [n \in 0..N |-> S[n]]
    BY <1>7
  <2> QED BY <2>1, <2>2
<1> QED BY <1>8, <1>10 DEF S, N

\* What a stretch of the body costs, from after character a up to character b.
Run(e, s, a, b) == Sums(e, s)[b] - Sums(e, s)[a]

LEMMA RunIs ==
  ASSUME NEW e \in Encodings, NEW s \in Seq(Chars),
         NEW a \in 0..Len(s), NEW b \in a..Len(s)
  PROVE  /\ SubSeq(s, a + 1, b) \in Seq(Chars)
         /\ Len(SubSeq(s, a + 1, b)) = b - a
         /\ Length(e, SubSeq(s, a + 1, b)) = Run(e, s, a, b)
<1> DEFINE q == SubSeq(s, a + 1, b)
           S == Sums(e, s)
           Q == Sums(e, q)
           T == {k \in 0..(b - a) : Q[k] = S[a + k] - S[a]}
<1>1. /\ q \in Seq(Chars) /\ Len(q) = b - a /\ b - a \in Nat
      /\ \A k \in 1..(b - a) : q[k] = s[a + k]
  BY SMTT(20)
<1> HIDE DEF q
<1>2. /\ S \in [0..Len(s) -> Nat]
      /\ \A k \in 1..Len(s) : S[k] = S[k - 1] + Cost(e, s[k])
  BY SumsIs
<1>3. /\ Q \in [0..(b - a) -> Nat] /\ Q[0] = 0
      /\ \A k \in 1..(b - a) : Q[k] = Q[k - 1] + Cost(e, q[k])
  BY <1>1, SumsIs
<1> HIDE DEF S, Q
<1>4. 0 \in T
  BY <1>1, <1>2, <1>3
<1>5. ASSUME NEW k \in 1..(b - a), k - 1 \in T PROVE k \in T
  <2>1. a + k \in 1..Len(s) /\ (a + k) - 1 = a + (k - 1) /\ a + (k - 1) \in 0..Len(s)
    OBVIOUS
  <2>2. S[a + k] = S[a + (k - 1)] + Cost(e, s[a + k])
    BY <1>2, <2>1
  <2>3. Q[k] = Q[k - 1] + Cost(e, s[a + k])
    BY <1>1, <1>3
  <2>4. S[a + (k - 1)] \in Nat /\ S[a] \in Nat /\ Cost(e, s[a + k]) \in 1..2
    BY <1>2, <2>1, CostIs
  <2> QED BY <1>5, <2>2, <2>3, <2>4
<1> HIDE DEF T
<1>6. b - a \in T
  <2>1. 0..(b - a) \subseteq T
    BY <1>1, <1>4, <1>5, Induction
  <2> QED BY <1>1, <2>1
<1>7. a + (b - a) = b
  OBVIOUS
<1> QED BY <1>1, <1>6, <1>7 DEF T, q, S, Q, Length, Run

\* The further, the dearer.
LEMMA Dearer ==
  ASSUME NEW e \in Encodings, NEW s \in Seq(Chars),
         NEW a \in 0..Len(s), NEW b \in a..Len(s)
  PROVE  Sums(e, s)[b] >= Sums(e, s)[a] + (b - a)
<1> DEFINE S == Sums(e, s)
           T == {k \in 0..(b - a) : S[a + k] >= S[a] + k}
<1>1. /\ S \in [0..Len(s) -> Nat] /\ b - a \in Nat
      /\ \A k \in 1..Len(s) : S[k] = S[k - 1] + Cost(e, s[k])
  BY SumsIs
<1> HIDE DEF S
<1>2. 0 \in T
  BY <1>1
<1>3. ASSUME NEW k \in 1..(b - a), k - 1 \in T PROVE k \in T
  <2>1. a + k \in 1..Len(s) /\ (a + k) - 1 = a + (k - 1) /\ a + (k - 1) \in 0..Len(s)
    OBVIOUS
  <2>2. S[a + k] = S[a + (k - 1)] + Cost(e, s[a + k])
    BY <1>1, <2>1
  <2>3. S[a + (k - 1)] \in Nat /\ S[a] \in Nat /\ Cost(e, s[a + k]) \in 1..2
    BY <1>1, <2>1, CostIs
  <2> QED BY <1>3, <2>2, <2>3
<1> HIDE DEF T
<1>4. b - a \in T
  <2>1. 0..(b - a) \subseteq T
    BY <1>1, <1>2, <1>3, Induction
  <2> QED BY <1>1, <2>1
<1>5. a + (b - a) = b
  OBVIOUS
<1> QED BY <1>4, <1>5 DEF T, S

-----------------------------------------------------------------------------
(* The fewest parts. Filling each part before the next is begun is best:    *)
(* whatever the other cut, its first i ends are within the first i parts.   *)

\* p[i] is where part i of n ends: none is over the capacity, and none could
\* have taken the next character too.
Greedy(e, s, n, p) ==
  /\ n \in Nat \ {0} /\ p \in [0..n -> 0..Len(s)]
  /\ p[0] = 0 /\ p[n] = Len(s)
  /\ \A i \in 1..n : p[i - 1] < p[i] /\ Run(e, s, p[i - 1], p[i]) <= Multi[e]
  /\ \A i \in 1..(n - 1) : Run(e, s, p[i - 1], p[i] + 1) > Multi[e]

LEMMA Increasing ==
  ASSUME NEW e, NEW s \in Seq(Chars), NEW n, NEW p, Greedy(e, s, n, p),
         NEW i \in 0..n, NEW j \in 0..n, i < j
  PROVE  p[i] < p[j]
<1> DEFINE T == {k \in 0..(j - i - 1) : p[i] < p[i + 1 + k]}
<1>0. n \in Nat /\ j - i - 1 \in Nat
  BY DEF Greedy
<1>1. p \in [0..n -> 0..Len(s)] /\ \A k \in 1..n : p[k - 1] < p[k]
  BY DEF Greedy
<1>2. 0 \in T
  <2>1. i + 1 \in 1..n /\ (i + 1) - 1 = i /\ i + 1 + 0 = i + 1
    BY <1>0
  <2> QED BY <1>0, <1>1, <2>1
<1>3. ASSUME NEW k \in 1..(j - i - 1), k - 1 \in T PROVE k \in T
  <2>1. i + 1 + k \in 1..n /\ (i + 1 + k) - 1 = i + 1 + (k - 1) /\ i + 1 + (k - 1) \in 0..n
    BY <1>0
  <2>2. p[i + 1 + (k - 1)] < p[i + 1 + k]
    BY <1>1, <2>1
  <2>3. p[i] \in 0..Len(s) /\ p[i + 1 + (k - 1)] \in 0..Len(s) /\ p[i + 1 + k] \in 0..Len(s)
    BY <1>1, <2>1
  <2> QED BY <1>3, <2>2, <2>3
<1> HIDE DEF T
<1>4. j - i - 1 \in T
  <2>1. 0..(j - i - 1) \subseteq T
    BY <1>0, <1>2, <1>3, Induction
  <2> QED BY <1>0, <2>1
<1>5. i + 1 + (j - i - 1) = j
  BY <1>0
<1> QED BY <1>4, <1>5 DEF T

\* Where the part that begins after character i ends, given where parts end.
EndAfter(s, ends, i) == Min({j \in ends \union {Len(s)} : j > i})

LEMMA EndAfterIs ==
  ASSUME NEW s \in Seq(Chars), NEW ends \in SUBSET (1..(Len(s) - 1)),
         NEW i \in {0} \union ends, s # <<>>
  PROVE  /\ i \in 0..(Len(s) - 1) /\ EndAfter(s, ends, i) \in ends \union {Len(s)}
         /\ EndAfter(s, ends, i) \in 1..Len(s) /\ i < EndAfter(s, ends, i)
         /\ \A j \in ends \union {Len(s)} : j > i => EndAfter(s, ends, i) <= j
<1> DEFINE N == Len(s)
           R == {j \in ends \union {N} : j > i}
<1>1. N \in Nat \ {0}
  OBVIOUS
<1>2. ends \in SUBSET (1..(N - 1)) /\ EndAfter(s, ends, i) = Min(R)
  BY DEF EndAfter
<1> HIDE DEF N
<1>3. \A k \in ends : k \in 1..(N - 1) /\ k \in Nat
  BY <1>1, <1>2
<1>4. i \in 0..(N - 1) /\ R \in SUBSET Nat /\ N \in R
  <2>1. i \in 0..(N - 1) /\ i < N
    BY <1>1, <1>3
  <2>2. \A k \in R : k \in Nat
    BY <1>1, <1>3
  <2> QED BY <2>1, <2>2
<1>5. Min(R) \in R /\ \A k \in R : Min(R) <= k
  <2> HIDE DEF R
  <2> QED BY <1>4, MinIs
<1>6. \A k \in R : k \in ends \union {N} /\ k \in 1..N /\ i < k
  BY <1>1, <1>3, <1>4
<1>7. \A k \in ends \union {N} : k > i => k \in R
  OBVIOUS
<1> HIDE DEF R
<1> QED BY <1>2, <1>4, <1>5, <1>6, <1>7 DEF N

LEMMA Optimal ==
  ASSUME NEW e \in Encodings, NEW s \in Seq(Chars), s # <<>>, NEW n, NEW p,
         Greedy(e, s, n, p), NEW ends \in SUBSET (1..(Len(s) - 1)),
         \A i \in {0} \union ends : Run(e, s, i, EndAfter(s, ends, i)) <= Multi[e]
  PROVE  IsFiniteSet(ends) /\ Cardinality(ends) >= n - 1
<1> DEFINE N == Len(s)
           S == Sums(e, s)
           Upto(k) == {x \in ends : x <= k}
           T == {i \in 0..(n - 1) : Cardinality(Upto(p[i])) >= i}
<1>1. /\ n \in Nat \ {0} /\ p \in [0..n -> 0..N] /\ p[0] = 0 /\ p[n] = N
      /\ \A i \in 1..(n - 1) : Run(e, s, p[i - 1], p[i] + 1) > Multi[e]
  BY DEF Greedy
<1>2. N \in Nat \ {0} /\ S \in [0..N -> Nat] /\ Multi[e] \in Nat
  BY SumsIs, SegmentationAssumption
<1>3. IsFiniteSet(ends)
  <2>1. IsFiniteSet(1..(N - 1))
    BY <1>2, FS_Interval
  <2> QED BY <2>1, FS_Subset
<1>4. \A k : IsFiniteSet(Upto(k)) /\ Cardinality(Upto(k)) \in Nat
  <2>1. \A k : Upto(k) \subseteq ends
    OBVIOUS
  <2> HIDE DEF Upto
  <2> QED BY <1>3, <2>1, FS_Subset, FS_CardinalityType
<1>x. \A x \in ends : x \in 0..N /\ x \in Nat
  BY <1>2
<1> HIDE DEF N, S, Upto
<1>5. 0 \in T
  BY <1>1, <1>4
<1>6. ASSUME NEW i \in 1..(n - 1), i - 1 \in T PROVE i \in T
  <2> DEFINE a == p[i - 1]  b == p[i]
  <2>1. a \in 0..N /\ b \in 0..N /\ a < b /\ b < N /\ i - 1 \in 0..n /\ i \in 0..n /\ n \in 0..n
    <3>1. i - 1 \in 0..n /\ i \in 0..n /\ n \in 0..n /\ i - 1 < i /\ i < n
      BY <1>1
    <3> QED BY <1>1, <3>1, Increasing
  <2>2. S[b + 1] - S[a] > Multi[e]
    BY <1>1 DEF Run, S
  <2> HIDE DEF a, b
  <2>3. \E x \in ends : a < x /\ x <= b
    <3> SUFFICES ASSUME \A x \in ends : a < x => b < x PROVE FALSE
      BY <2>1, <1>2 DEF N
    <3> DEFINE L == {0} \union Upto(a)
    <3>1. L \in SUBSET (0..N) /\ L # {} /\ N \in Nat
      <4>1. \A x \in L : x \in 0..N
        BY <1>2, <1>x DEF Upto
      <4> QED BY <1>2, <4>1
    <3> HIDE DEF L
    <3>2. PICK l \in L : \A x \in L : x <= l
      BY <3>1, GreatestNumber
    <3>3. l \in {0} \union ends /\ l \in 0..N /\ l <= a
      BY <2>1, <3>1, <3>2 DEF L, Upto
    <3> DEFINE q == EndAfter(s, ends, l)
    <3>4. /\ q \in ends \union {N} /\ q \in 1..N /\ l < q
      BY <1>2, <3>3, EndAfterIs DEF N
    <3>5. S[q] - S[l] <= Multi[e]
      BY <3>3 DEF Run, S
    <3> HIDE DEF q
    <3>6. b + 1 <= q
      <4>1. CASE q = N
        BY <1>2, <2>1, <4>1
      <4>2. CASE q # N /\ a < q
        BY <2>1, <3>4, <4>2
      <4>3. CASE q # N /\ ~ (a < q)
        <5>1. q \in L
          BY <2>1, <3>4, <4>3 DEF L, Upto
        <5> QED BY <3>2, <3>3, <3>4, <5>1
      <4> QED BY <4>1, <4>2, <4>3
    <3>7. S[q] >= S[b + 1] /\ S[a] >= S[l]
      <4>1. b + 1 \in 0..N /\ q \in (b + 1)..N /\ a \in l..N
        BY <1>2, <2>1, <3>3, <3>4, <3>6
      <4>2. S[q] >= S[b + 1] + (q - (b + 1)) /\ S[a] >= S[l] + (a - l)
        BY <3>3, <4>1, Dearer DEF N, S
      <4>3. S[b + 1] \in Nat /\ S[l] \in Nat
        BY <1>2, <3>3, <4>1
      <4>4. q - (b + 1) \in Nat /\ a - l \in Nat
        BY <1>2, <2>1, <3>3, <4>1
      <4>5. S[q] \in Nat /\ S[a] \in Nat
        BY <1>2, <2>1, <3>4
      <4> QED BY <4>2, <4>3, <4>4, <4>5
    <3>8. S[q] \in Nat /\ S[l] \in Nat /\ S[a] \in Nat /\ S[b + 1] \in Nat
      <4>1. b + 1 \in 0..N /\ q \in 0..N
        BY <1>2, <2>1, <3>4
      <4> QED BY <1>2, <2>1, <3>3, <4>1
    <3>9. Multi[e] \in Nat
      BY <1>2
    <3> QED BY <2>2, <3>5, <3>7, <3>8, <3>9
  <2>4. PICK x \in ends : a < x /\ x <= b
    BY <2>3
  <2>5. Upto(a) \union {x} \subseteq Upto(b) /\ x \notin Upto(a)
    <3>1. \A y \in ends : y <= a => y <= b
      BY <1>2, <1>x, <2>1
    <3>2. ~ (x <= a)
      BY <1>2, <1>x, <2>1, <2>4
    <3> QED BY <2>4, <3>1, <3>2 DEF Upto
  <2>6. Cardinality(Upto(a) \union {x}) = Cardinality(Upto(a)) + 1
    BY <1>4, <2>5, FS_AddElement
  <2>7. Cardinality(Upto(a) \union {x}) <= Cardinality(Upto(b))
    BY <1>4, <2>5, FS_Subset
  <2>8. Cardinality(Upto(a)) >= i - 1
    BY <1>6 DEF a
  <2>9. Cardinality(Upto(b)) >= i
    BY <1>1, <1>4, <2>6, <2>7, <2>8
  <2> QED BY <1>1, <2>9 DEF b
<1> HIDE DEF T
<1>7. n - 1 \in T
  <2>1. n - 1 \in Nat
    BY <1>1
  <2>2. 0..(n - 1) \subseteq T
    BY <1>5, <1>6, <2>1, Induction
  <2> QED BY <2>1, <2>2
<1>8. Cardinality(Upto(p[n - 1])) >= n - 1
  BY <1>7 DEF T
<1>9. Cardinality(Upto(p[n - 1])) <= Cardinality(ends)
  <2>1. Upto(p[n - 1]) \subseteq ends
    BY DEF Upto
  <2> QED BY <1>3, <2>1, FS_Subset
<1>10. Cardinality(ends) \in Nat
  BY <1>3, FS_CardinalityType
<1> QED BY <1>1, <1>3, <1>4, <1>8, <1>9, <1>10

LEMMA WholeIs ==
  ASSUME NEW e \in Encodings, NEW s \in Seq(Chars), s # <<>>
  PROVE  /\ Length(e, s) = Run(e, s, 0, Len(s)) /\ Length(e, s) \in Nat
         /\ SubSeq(s, 1, Len(s)) = s /\ Len(s) \in Nat \ {0}
<1>1. SubSeq(s, 1, Len(s)) = s /\ Len(s) \in Nat \ {0}
  OBVIOUS
<1>2. Length(e, SubSeq(s, 1, Len(s))) = Run(e, s, 0, Len(s))
  <2>1. 0 \in 0..Len(s) /\ Len(s) \in 0..Len(s) /\ 0 + 1 = 1
    BY <1>1
  <2>2. Length(e, SubSeq(s, 0 + 1, Len(s))) = Run(e, s, 0, Len(s))
    BY <2>1, RunIs
  <2> QED BY <2>1, <2>2
<1>3. Length(e, s) \in Nat
  <2>1. Len(s) \in 0..Len(s) /\ Sums(e, s) \in [0..Len(s) -> Nat]
    BY <1>1, SumsIs
  <2> QED BY <2>1 DEF Length
<1> QED BY <1>1, <1>2, <1>3

\* Fits, with what the parts cost taken from the body.
LEMMA FitsIs ==
  ASSUME NEW e \in Encodings, NEW s \in Seq(Chars), s # <<>>,
         NEW ends \in SUBSET (1..(Len(s) - 1))
  PROVE  Fits(e, s, ends) <=>
           \A i \in {0} \union ends :
             Run(e, s, i, EndAfter(s, ends, i))
               <= IF ends = {} THEN Single[e] ELSE Multi[e]
<1>1. ASSUME NEW i \in {0} \union ends
      PROVE  Length(e, SubSeq(s, i + 1, EndAfter(s, ends, i)))
               = Run(e, s, i, EndAfter(s, ends, i))
  <2>1. i \in 0..Len(s) /\ EndAfter(s, ends, i) \in i..Len(s)
    BY EndAfterIs
  <2> QED BY <2>1, RunIs
<1>2. Fits(e, s, ends) <=>
        \A i \in {0} \union ends :
          Length(e, SubSeq(s, i + 1, EndAfter(s, ends, i)))
            <= IF ends = {} THEN Single[e] ELSE Multi[e]
  BY Zenon DEF Fits, EndAfter
<1> QED BY <1>1, <1>2

LEMMA GreedyFits ==
  ASSUME NEW e \in Encodings, NEW s \in Seq(Chars), s # <<>>, NEW n, NEW p,
         Greedy(e, s, n, p), n # 1
  PROVE  \E ends \in Cuts(s, n) : Fits(e, s, ends)
<1> DEFINE N == Len(s)
           Dom == 1..(n - 1)
           ends == {p[i] : i \in Dom}
<1>1. /\ n \in Nat /\ n - 1 \in Nat \ {0} /\ p \in [0..n -> 0..N] /\ p[0] = 0 /\ p[n] = N
      /\ \A i \in 1..n : Run(e, s, p[i - 1], p[i]) <= Multi[e]
  BY DEF Greedy
<1>2. N \in Nat \ {0}
  OBVIOUS
<1> HIDE DEF N
<1>3. ASSUME NEW i \in 0..n, NEW j \in 0..n, i < j PROVE p[i] < p[j]
  BY <1>3, Increasing
<1>4. \A i \in Dom : p[i] \in 1..(N - 1)
  <2> SUFFICES ASSUME NEW i \in Dom PROVE p[i] \in 1..(N - 1)
    OBVIOUS
  <2>1. 0 \in 0..n /\ i \in 0..n /\ n \in 0..n /\ 0 < i /\ i < n
    BY <1>1
  <2>2. p[0] < p[i] /\ p[i] < p[n] /\ p[i] \in 0..N
    BY <1>1, <1>3, <2>1
  <2> QED BY <1>1, <1>2, <2>2
<1>5. Cardinality(ends) = n - 1
  <2> DEFINE f == [i \in Dom |-> p[i]]
  <2>1. \A i, j \in Dom : f[i] = f[j] => i = j
    <3> SUFFICES ASSUME NEW i \in Dom, NEW j \in Dom, i < j PROVE p[i] # p[j]
      BY <1>1
    <3>1. i \in 0..n /\ j \in 0..n
      BY <1>1
    <3>2. p[i] < p[j] /\ p[i] \in 0..N /\ p[j] \in 0..N
      BY <1>1, <1>3, <3>1
    <3> QED BY <1>2, <3>2
  <2>2. f \in Bijection(Dom, ends)
    <3>1. f \in [Dom -> ends] /\ \A y \in ends : \E i \in Dom : f[i] = y
      OBVIOUS
    <3> HIDE DEF f, Dom, ends
    <3> QED BY <2>1, <3>1 DEF Bijection, Injection, IsInjective, Surjection
  <2>3. ExistsBijection(Dom, ends)
    BY <2>2, Zenon DEF ExistsBijection
  <2>4. IsFiniteSet(Dom) /\ Cardinality(Dom) = n - 1
    BY <1>1, FS_Interval
  <2> HIDE DEF ends, f, Dom
  <2> QED BY <2>3, <2>4, FS_Bijection
<1>6. ends \in Cuts(s, n) /\ ends # {}
  <2>1. 1 \in Dom
    BY <1>1
  <2> QED BY <1>4, <1>5, <2>1 DEF Cuts, N
<1>7. ASSUME NEW i \in {0} \union ends
      PROVE  Run(e, s, i, EndAfter(s, ends, i)) <= Multi[e]
  <2>1. PICK j \in 0..(n - 1) : i = p[j]
    <3>1. CASE i = 0
      <4>1. 0 \in 0..(n - 1)
        BY <1>1
      <4> QED BY <1>1, <3>1, <4>1
    <3>2. CASE i \in ends
      <4>1. PICK j \in Dom : i = p[j]
        BY <3>2
      <4>2. j \in 0..(n - 1)
        BY <1>1
      <4> QED BY <4>1, <4>2
    <3> QED BY <3>1, <3>2
  <2>2. j + 1 \in 1..n /\ j \in 0..n /\ j + 1 \in 0..n /\ j < j + 1 /\ (j + 1) - 1 = j
    BY <1>1
  <2>3. p[j + 1] \in ends \union {N} /\ p[j + 1] > i
    <3>1. CASE j + 1 = n
      BY <1>1, <1>3, <2>1, <2>2, <3>1
    <3>2. CASE j + 1 # n
      <4>1. j + 1 \in Dom
        BY <1>1, <2>2, <3>2
      <4> QED BY <1>1, <1>3, <2>1, <2>2, <4>1
    <3> QED BY <3>1, <3>2
  <2> DEFINE q == EndAfter(s, ends, i)
  <2>4. q \in ends \union {N} /\ i < q /\ q <= p[j + 1]
    <3>1. ends \in SUBSET (1..(Len(s) - 1))
      BY <1>6 DEF Cuts
    <3> HIDE DEF ends
    <3> QED BY <2>3, <3>1, EndAfterIs DEF N
  <2> HIDE DEF q
  <2>5. q = p[j + 1]
    <3>1. PICK k \in 1..n : q = p[k]
      <4>1. CASE q = N
        <5>1. n \in 1..n
          BY <1>1
        <5> QED BY <1>1, <4>1, <5>1
      <4>2. CASE q \in ends
        <5>1. PICK k \in Dom : q = p[k]
          BY <4>2
        <5>2. k \in 1..n
          BY <1>1
        <5> QED BY <5>1, <5>2
      <4> QED BY <2>4, <4>1, <4>2
    <3>2. k \in 0..n /\ p[k] \in 0..N /\ p[j] \in 0..N /\ p[j + 1] \in 0..N
      BY <1>1, <2>2
    <3>3. ~ (k < j + 1)
      <4>1. ASSUME k < j PROVE FALSE
        BY <1>2, <1>3, <2>1, <2>2, <2>4, <3>1, <3>2, <4>1
      <4>2. k # j
        BY <1>2, <2>1, <2>4, <3>1, <3>2
      <4> QED BY <1>1, <2>2, <3>2, <4>1, <4>2
    <3>4. ~ (j + 1 < k)
      BY <1>2, <1>3, <2>2, <2>4, <3>1, <3>2
    <3>5. k = j + 1
      <4>1. j + 1 \in Nat /\ k \in Nat
        BY <1>1, <2>2, <3>2
      <4> QED BY <3>3, <3>4, <4>1
    <3> QED BY <3>1, <3>5
  <2>6. Run(e, s, p[j], p[j + 1]) <= Multi[e]
    BY <1>1, <2>2
  <2> QED BY <2>1, <2>5, <2>6 DEF q
<1>8. ends \in SUBSET (1..(Len(s) - 1))
  BY <1>6 DEF Cuts
<1> HIDE DEF ends
<1>9. Fits(e, s, ends)
  BY <1>6, <1>7, <1>8, FitsIs
<1> QED BY <1>6, <1>9

\* The count is the number of greedy parts, or one if a single SMS holds the body.
LEMMA FewestIs ==
  ASSUME NEW s \in Seq(Chars), s # <<>>, NEW n, NEW p, Greedy(Encoding(s), s, n, p)
  PROVE  Fewest(s) = IF Length(Encoding(s), s) <= Single[Encoding(s)] THEN 1 ELSE n
<1> DEFINE e == Encoding(s)
           N == Len(s)
           W == {k \in 1..N : \E ends \in Cuts(s, k) : Fits(e, s, ends)}
<1>1. e \in Encodings /\ Fewest(s) = Min(W)
  BY DEF Encoding, Encodings, Fewest
<1>2. N \in Nat \ {0} /\ W \in SUBSET Nat /\ Length(e, s) \in Nat
  BY <1>1, WholeIs
<1>a. Single[e] \in Nat /\ Multi[e] \in Nat /\ Multi[e] <= Single[e]
  BY <1>1, SegmentationAssumption
<1> HIDE DEF e, N
<1>b. Greedy(e, s, n, p)
  BY DEF e
<1>3. ASSUME NEW m \in W, \A k \in W : m <= k PROVE Fewest(s) = m
  <2>0. W \in SUBSET Nat /\ W # {}
    BY <1>2
  <2>1. Min(W) \in W /\ \A k \in W : Min(W) <= k
    <3> HIDE DEF W
    <3> QED BY <2>0, MinIs
  <2> HIDE DEF W
  <2>2. m \in W /\ m \in Nat /\ Min(W) \in Nat
    BY <1>3, <2>0, <2>1
  <2>3. m <= Min(W) /\ Min(W) <= m
    BY <1>3, <2>1, <2>2
  <2>4. m = Min(W)
    BY <2>2, <2>3
  <2> QED BY <1>1, <2>4 DEF W
<1>4. CASE Length(e, s) <= Single[e]
  <2>1. {} \in Cuts(s, 1)
    BY FS_EmptySet DEF Cuts
  <2>2. EndAfter(s, {}, 0) = N
    <3>1. {} \in SUBSET (1..(Len(s) - 1)) /\ 0 \in {0} \union {}
      OBVIOUS
    <3> QED BY <3>1, EndAfterIs DEF N
  <2>3. Run(e, s, 0, N) <= Single[e]
    BY <1>1, <1>4, WholeIs DEF N
  <2>4. Fits(e, s, {})
    BY <1>1, <2>2, <2>3, FitsIs
  <2>5. 1 \in W /\ \A k \in W : 1 <= k
    BY <1>2, <2>1, <2>4
  <2> QED BY <1>3, <1>4, <2>5 DEF e
<1>5. CASE ~ (Length(e, s) <= Single[e])
  <2>1. n \in Nat \ {0} /\ p \in [0..n -> 0..N] /\ p[0] = 0 /\ p[n] = N
        /\ \A i \in 1..n : Run(e, s, p[i - 1], p[i]) <= Multi[e]
    BY <1>b DEF Greedy, N
  <2>2. Run(e, s, 0, N) > Single[e]
    <3>1. Length(e, s) = Run(e, s, 0, N)
      BY <1>1, WholeIs DEF N
    <3> QED BY <1>2, <1>a, <1>5, <3>1
  <2>3. n # 1
    <3> SUFFICES ASSUME n = 1 PROVE FALSE
      OBVIOUS
    <3>1. Run(e, s, 0, N) <= Multi[e]
      <4>1. 1 \in 1..n /\ 1 - 1 = 0
        BY <2>1
      <4>2. p[1 - 1] = 0 /\ p[1] = N
        BY <2>1
      <4> QED BY <2>1, <4>1, <4>2
    <3>2. Run(e, s, 0, N) \in Nat
      BY <1>1, <1>2, WholeIs DEF N
    <3> QED BY <1>a, <2>2, <3>1, <3>2
  <2>4. ASSUME NEW k \in W PROVE n <= k
    <3>1. PICK ends \in Cuts(s, k) : Fits(e, s, ends)
      OBVIOUS
    <3>2. ends \in SUBSET (1..(Len(s) - 1)) /\ Cardinality(ends) = k - 1 /\ k \in 1..N
      BY DEF Cuts
    <3>3. \A i \in {0} \union ends :
            Run(e, s, i, EndAfter(s, ends, i)) <= IF ends = {} THEN Single[e] ELSE Multi[e]
      BY <1>1, <3>1, <3>2, FitsIs
    <3>4. ends # {}
      <4> SUFFICES ASSUME ends = {} PROVE FALSE
        OBVIOUS
      <4>1. EndAfter(s, ends, 0) = N
        BY <3>2, EndAfterIs DEF N
      <4>2. Run(e, s, 0, N) <= Single[e]
        BY <3>3, <4>1
      <4>3. Run(e, s, 0, N) \in Nat
        BY <1>1, <1>2, WholeIs DEF N
      <4> QED BY <1>a, <2>2, <4>2, <4>3
    <3>5. Cardinality(ends) >= n - 1
      BY <1>1, <1>b, <3>2, <3>3, <3>4, Optimal
    <3> QED BY <1>2, <2>1, <3>2, <3>5
  <2>5. n \in W
    <3>1. \E ends \in Cuts(s, n) : Fits(e, s, ends)
      BY <1>1, <1>b, <2>3, GreedyFits
    <3>2. PICK ends \in Cuts(s, n) : Fits(e, s, ends)
      BY <3>1
    <3>3. ends \in SUBSET (1..(N - 1)) /\ Cardinality(ends) = n - 1
      BY DEF Cuts, N
    <3>4. n <= N
      <4>0. 1 \in Int /\ N - 1 \in Int /\ N - 1 \in Nat
        BY <1>2
      <4>1. IsFiniteSet(1..(N - 1)) /\ Cardinality(1..(N - 1)) = N - 1
        <5> DEFINE m == N - 1
        <5> HIDE DEF m
        <5>1. m \in Nat /\ m \in Int /\ 1 \in Int
          BY <4>0 DEF m
        <5>2. IsFiniteSet(1..m) /\ Cardinality(1..m) = m
          BY <5>1, FS_Interval
        <5> QED BY <5>2 DEF m
      <4>2. Cardinality(ends) <= Cardinality(1..(N - 1))
        BY <3>3, <4>1, FS_Subset
      <4> QED BY <1>2, <2>1, <3>3, <4>1, <4>2
    <3> QED BY <2>1, <1>2, <3>1, <3>4
  <2> HIDE DEF W
  <2> QED BY <1>3, <1>5, <2>4, <2>5 DEF e
<1> QED BY <1>4, <1>5

-----------------------------------------------------------------------------
(* The loop cuts greedily.                                                  *)

Accs == [done : Seq(Seq(Chars)), open : Seq(Chars), used : Nat]

LEMMA PutIs ==
  ASSUME NEW e \in Encodings, NEW acc \in Accs, NEW c \in Chars
  PROVE  Put(e, acc, c) \in Accs
<1>1. Cost(e, c) \in Nat
  BY CostIs
<1>2. /\ Append(acc.done, acc.open) \in Seq(Seq(Chars))
      /\ Append(acc.open, c) \in Seq(Chars) /\ <<c>> \in Seq(Chars)
  BY DEF Accs
<1>3. acc.used + Cost(e, c) \in Nat
  BY <1>1 DEF Accs
<1> QED BY <1>1, <1>2, <1>3 DEF Put, Accs

LEMMA LoopIs ==
  ASSUME NEW e \in Encodings, NEW s \in Seq(Chars)
  PROVE  /\ Loop(e, s) \in [0..Len(s) -> Accs] /\ Loop(e, s)[0] = NoPart
         /\ \A k \in 1..Len(s) : Loop(e, s)[k] = Put(e, Loop(e, s)[k - 1], s[k])
<1> DEFINE N == Len(s)
           step == [v \in Accs |-> [k \in 1..N |-> Put(e, v, s[k])]]
<1>0. N \in Nat /\ \A k \in 1..N : s[k] \in Chars
  OBVIOUS
<1>1. step \in [Accs -> [1..N -> Accs]]
  <2> HIDE DEF N
  <2> QED BY <1>0, PutIs
<1>z. NoPart \in Accs
  BY DEF NoPart, Accs
<1> HIDE DEF N, step
<1>2. PICK f : Recurs(f, N, Accs, NoPart, step)
  BY <1>0, <1>1, <1>z, Recursion
<1>3. f \in [0..N -> Accs] /\ f[0] = NoPart
  BY <1>2 DEF Recurs
<1>4. ASSUME NEW k \in 1..N PROVE f[k] = Put(e, f[k - 1], s[k])
  <2>1. k - 1 \in 0..N /\ f[k - 1] \in Accs
    BY <1>0, <1>3
  <2>2. f[k] = step[f[k - 1]][k]
    BY <1>2 DEF Recurs
  <2> QED BY <2>1, <2>2 DEF step
<1> DEFINE Rec(h, n) == IF n = 0 THEN NoPart ELSE Put(e, h[n - 1], s[n])
<1>5. f = [n \in 0..N |-> Rec(f, n)]
  <2>1. \A n \in 0..N : f[n] = Rec(f, n)
    BY <1>0, <1>3, <1>4
  <2> HIDE DEF Rec
  <2> QED BY <1>3, <2>1
<1>6. Loop(e, s) = [n \in 0..N |-> Rec(Loop(e, s), n)]
  BY <1>5, Zenon DEF Loop, N, Rec
<1> DEFINE S == Loop(e, s)
<1> HIDE DEF S, Rec
<1>7. S = [n \in 0..N |-> Rec(S, n)]
  BY <1>6 DEF S
<1>8. S[0] = NoPart /\ \A k \in 1..N : S[k] = Put(e, S[k - 1], s[k])
  <2>1. \A n \in 0..N : S[n] = Rec(S, n)
    BY <1>7
  <2>2. 0 \in 0..N /\ \A k \in 1..N : k \in 0..N /\ k # 0
    BY <1>0
  <2> QED BY <2>1, <2>2 DEF Rec
<1> DEFINE T == {k \in 0..N : S[k] \in Accs}
<1>9. 0..N \subseteq T
  <2>1. 0 \in T
    BY <1>0, <1>8, <1>z
  <2>2. ASSUME NEW k \in 1..N, k - 1 \in T PROVE k \in T
    <3>1. S[k] = Put(e, S[k - 1], s[k]) /\ S[k - 1] \in Accs /\ s[k] \in Chars
      BY <1>0, <1>8, <2>2
    <3>2. S[k] \in Accs
      BY <3>1, PutIs
    <3> QED BY <1>0, <3>2
  <2> HIDE DEF T
  <2> QED BY <1>0, <2>1, <2>2, Induction
<1>10. S \in [0..N -> Accs]
  <2>1. \A k \in 0..N : S[k] \in Accs
    BY <1>9
  <2>2. DOMAIN S = 0..N /\ S = [n \in 0..N |-> S[n]]
    BY <1>7
  <2> QED BY <2>1, <2>2
<1> QED BY <1>8, <1>10 DEF S, N

\* Every part but the last could not take the next character; the parts are the
\* stretches between the places p.
Filled(e, s, n, p) ==
  /\ p \in [0..n -> 0..Len(s)] /\ p[0] = 0
  /\ \A i \in 1..n : /\ p[i - 1] < p[i] /\ Run(e, s, p[i - 1], p[i]) <= Multi[e]
                     /\ Run(e, s, p[i - 1], p[i] + 1) > Multi[e]
PartsAre(s, n, p, parts) ==
  /\ parts \in Seq(Seq(Chars)) /\ Len(parts) = n
  /\ \A i \in 1..n : parts[i] = SubSeq(s, p[i - 1] + 1, p[i])

\* What the loop holds after k characters.
Holds(e, s, k, acc, n, p) ==
  /\ n \in Nat /\ Filled(e, s, n, p) /\ PartsAre(s, n, p, acc.done)
  /\ p[n] < k /\ acc.open = SubSeq(s, p[n] + 1, k)
  /\ acc.used = Run(e, s, p[n], k) /\ acc.used <= Multi[e]

LEMMA RunOn ==
  ASSUME NEW e \in Encodings, NEW s \in Seq(Chars),
         NEW a \in 0..Len(s), NEW k \in 1..Len(s)
  PROVE  /\ Run(e, s, a, k) = Run(e, s, a, k - 1) + Cost(e, s[k])
         /\ Run(e, s, a, k) \in Int /\ Run(e, s, a, k - 1) \in Int
         /\ Run(e, s, k - 1, k) = Cost(e, s[k]) /\ Cost(e, s[k]) \in 1..2
<1> DEFINE S == Sums(e, s)
<1>1. /\ S \in [0..Len(s) -> Nat]
      /\ \A i \in 1..Len(s) : S[i] = S[i - 1] + Cost(e, s[i])
  BY SumsIs
<1>2. Cost(e, s[k]) \in 1..2
  BY CostIs
<1> HIDE DEF S
<1>3. k - 1 \in 0..Len(s) /\ k \in 0..Len(s)
  OBVIOUS
<1>4. S[k] = S[k - 1] + Cost(e, s[k]) /\ S[k - 1] \in Nat /\ S[k] \in Nat /\ S[a] \in Nat
  BY <1>1, <1>3
<1>5. /\ Run(e, s, a, k) = S[k] - S[a] /\ Run(e, s, a, k - 1) = S[k - 1] - S[a]
      /\ Run(e, s, k - 1, k) = S[k] - S[k - 1]
  BY DEF Run, S
<1>6. /\ Run(e, s, a, k) = Run(e, s, a, k - 1) + Cost(e, s[k])
      /\ Run(e, s, a, k) \in Int /\ Run(e, s, a, k - 1) \in Int
  BY <1>2, <1>4, <1>5
<1>7. Run(e, s, k - 1, k) = Cost(e, s[k])
  BY <1>2, <1>4, <1>5
<1> QED BY <1>2, <1>6, <1>7

LEMMA Opened ==
  ASSUME NEW s \in Seq(Chars), NEW k \in 1..Len(s)
  PROVE  <<s[k]>> = SubSeq(s, k, k) /\ <<s[k]>> \in Seq(Chars)
<1> DEFINE q == SubSeq(s, k, k)
           r == <<s[k]>>
<1>1. q \in Seq(Chars) /\ Len(q) = 1 /\ q[1] = s[k]
  OBVIOUS
<1>2. r \in Seq(Chars) /\ Len(r) = 1 /\ r[1] = s[k]
  OBVIOUS
<1> HIDE DEF q, r
<1>3. \A i \in 1..1 : r[i] = q[i]
  BY <1>1, <1>2
<1>4. r = q
  BY <1>1, <1>2, <1>3
<1> QED BY <1>2, <1>4 DEF q, r

LEMMA Extended ==
  ASSUME NEW s \in Seq(Chars), NEW k \in 1..Len(s), NEW a \in 0..(k - 1)
  PROVE  Append(SubSeq(s, a + 1, k - 1), s[k]) = SubSeq(s, a + 1, k)
<1> DEFINE q == SubSeq(s, a + 1, k - 1)
           r == SubSeq(s, a + 1, k)
<1>1. q \in Seq(Chars) /\ Len(q) = k - 1 - a /\ \A i \in 1..(k - 1 - a) : q[i] = s[a + i]
  OBVIOUS
<1>2. r \in Seq(Chars) /\ Len(r) = k - a /\ \A i \in 1..(k - a) : r[i] = s[a + i]
  OBVIOUS
<1>3. s[k] \in Chars /\ k - 1 - a \in Nat
  OBVIOUS
<1> HIDE DEF q, r
<1>4. /\ Append(q, s[k]) \in Seq(Chars) /\ Len(Append(q, s[k])) = k - a
      /\ \A i \in 1..(k - 1 - a) : Append(q, s[k])[i] = q[i]
      /\ Append(q, s[k])[k - a] = s[k]
  BY <1>1, <1>3
<1>5. ASSUME NEW i \in 1..(k - a) PROVE Append(q, s[k])[i] = r[i]
  <2>1. CASE i = k - a
    <3>1. a + i = k
      BY <2>1
    <3> QED BY <1>2, <1>4, <2>1, <3>1
  <2>2. CASE i # k - a
    <3>1. i \in 1..(k - 1 - a)
      BY <2>2
    <3> QED BY <1>1, <1>2, <1>4, <3>1
  <2> QED BY <2>1, <2>2
<1>6. Append(q, s[k]) = r
  BY <1>2, <1>4, <1>5
<1> QED BY <1>6 DEF q, r

\* A part more, that ends before character k.
LEMMA PartMore ==
  ASSUME NEW e \in Encodings, NEW s \in Seq(Chars), NEW k \in 1..Len(s), NEW n \in Nat, NEW p,
         NEW parts, Filled(e, s, n, p), PartsAre(s, n, p, parts), p[n] < k - 1,
         Run(e, s, p[n], k - 1) <= Multi[e], Run(e, s, p[n], k) > Multi[e]
  PROVE  \E q : /\ q[n + 1] = k - 1 /\ Filled(e, s, n + 1, q)
                /\ PartsAre(s, n + 1, q, Append(parts, SubSeq(s, p[n] + 1, k - 1)))
<1> DEFINE q == [i \in 0..(n + 1) |-> IF i = n + 1 THEN k - 1 ELSE p[i]]
           more == Append(parts, SubSeq(s, p[n] + 1, k - 1))
<1>1. p \in [0..n -> 0..Len(s)] /\ p[0] = 0 /\ parts \in Seq(Seq(Chars)) /\ Len(parts) = n
  BY DEF Filled, PartsAre
<1>2. k - 1 \in 0..Len(s) /\ p[n] \in 0..Len(s) /\ (k - 1) + 1 = k /\ (n + 1) - 1 = n
  BY <1>1
<1>3. SubSeq(s, p[n] + 1, k - 1) \in Seq(Chars)
  <2>1. k - 1 \in p[n]..Len(s)
    BY <1>2
  <2> QED BY <1>2, <2>1, RunIs
<1>4. /\ more \in Seq(Seq(Chars)) /\ Len(more) = n + 1
      /\ more[n + 1] = SubSeq(s, p[n] + 1, k - 1)
      /\ \A i \in 1..n : more[i] = parts[i]
  BY SMTT(20), <1>1, <1>3
<1>5. q \in [0..(n + 1) -> 0..Len(s)] /\ q[n + 1] = k - 1 /\ \A i \in 0..n : q[i] = p[i]
  BY <1>1, <1>2
<1> HIDE DEF q, more
<1>6. ASSUME NEW i \in 1..(n + 1)
      PROVE  /\ q[i - 1] < q[i] /\ Run(e, s, q[i - 1], q[i]) <= Multi[e]
             /\ Run(e, s, q[i - 1], q[i] + 1) > Multi[e]
             /\ more[i] = SubSeq(s, q[i - 1] + 1, q[i])
  <2>1. CASE i = n + 1
    <3>1. q[i - 1] = p[n] /\ q[i] = k - 1
      BY <1>2, <1>5, <2>1
    <3> QED BY <1>2, <1>4, <2>1, <3>1
  <2>2. CASE i # n + 1
    <3>1. i \in 1..n /\ i \in 0..n /\ i - 1 \in 0..n
      BY <2>2
    <3>2. q[i - 1] = p[i - 1] /\ q[i] = p[i]
      BY <1>5, <3>1
    <3> QED BY <1>4, <3>1, <3>2 DEF Filled, PartsAre
  <2> QED BY <2>1, <2>2
<1>7. q[0] = 0
  BY <1>1, <1>5
<1>8. Filled(e, s, n + 1, q) /\ PartsAre(s, n + 1, q, more)
  BY <1>4, <1>5, <1>6, <1>7 DEF Filled, PartsAre
<1> QED BY <1>5, <1>8 DEF more

LEMMA PutHolds ==
  ASSUME NEW e \in Encodings, NEW s \in Seq(Chars), NEW k \in 2..Len(s),
         NEW acc \in Accs, NEW n, NEW p, Holds(e, s, k - 1, acc, n, p)
  PROVE  \E m, q : Holds(e, s, k, Put(e, acc, s[k]), m, q)
<1>1. /\ n \in Nat /\ Filled(e, s, n, p) /\ PartsAre(s, n, p, acc.done)
      /\ p[n] < k - 1 /\ acc.open = SubSeq(s, p[n] + 1, k - 1)
      /\ acc.used = Run(e, s, p[n], k - 1) /\ acc.used <= Multi[e]
  BY DEF Holds
<1>2. k \in 1..Len(s) /\ p[n] \in 0..Len(s) /\ p[n] \in 0..(k - 1)
  BY <1>1 DEF Filled
<1>3. /\ Run(e, s, p[n], k) = acc.used + Cost(e, s[k])
      /\ Run(e, s, k - 1, k) = Cost(e, s[k]) /\ Cost(e, s[k]) \in 1..2
  BY <1>1, <1>2, RunOn
<1>4. Multi[e] \in Nat /\ 2 <= Multi[e] /\ acc.used \in Nat
  BY SegmentationAssumption DEF Accs
<1>5. CASE acc.used + Cost(e, s[k]) > Multi[e]
  <2>1. PICK q : /\ q[n + 1] = k - 1 /\ Filled(e, s, n + 1, q)
                 /\ PartsAre(s, n + 1, q, Append(acc.done, acc.open))
    BY <1>1, <1>2, <1>3, <1>5, PartMore
  <2> DEFINE now == Put(e, acc, s[k])
  <2>2. /\ now.done = Append(acc.done, acc.open) /\ now.open = <<s[k]>>
        /\ now.used = Cost(e, s[k])
    BY <1>5 DEF Put
  <2>3. now.open = SubSeq(s, q[n + 1] + 1, k) /\ q[n + 1] < k
    <3>1. q[n + 1] + 1 = k
      BY <2>1
    <3> QED BY <1>2, <2>1, <2>2, <3>1, Opened
  <2>4. now.used = Run(e, s, q[n + 1], k) /\ now.used <= Multi[e]
    BY <1>3, <1>4, <2>1, <2>2
  <2> HIDE DEF now
  <2>5. Holds(e, s, k, now, n + 1, q)
    BY <1>1, <2>1, <2>2, <2>3, <2>4 DEF Holds
  <2> QED BY <2>5 DEF now
<1>6. CASE ~ (acc.used + Cost(e, s[k]) > Multi[e])
  <2> DEFINE now == Put(e, acc, s[k])
  <2>1. /\ now.done = acc.done /\ now.open = Append(acc.open, s[k])
        /\ now.used = acc.used + Cost(e, s[k])
    BY <1>6 DEF Put, Accs
  <2>2. now.open = SubSeq(s, p[n] + 1, k)
    BY <1>1, <1>2, <2>1, Extended
  <2>3. now.used <= Multi[e]
    BY <1>3, <1>4, <1>6, <2>1
  <2>5. p[n] < k /\ now.used = Run(e, s, p[n], k)
    BY <1>2, <1>3, <2>1
  <2> HIDE DEF now
  <2>4. Holds(e, s, k, now, n, p)
    BY <1>1, <2>1, <2>2, <2>3, <2>5 DEF Holds
  <2> QED BY <2>4 DEF now
<1> QED BY <1>5, <1>6

LEMMA LoopHolds ==
  ASSUME NEW e \in Encodings, NEW s \in Seq(Chars), s # <<>>
  PROVE  \E n, p : Holds(e, s, Len(s), Loop(e, s)[Len(s)], n, p)
<1> DEFINE N == Len(s)
           L == Loop(e, s)
           T == {k \in 0..N : k = 0 \/ \E n, p : Holds(e, s, k, L[k], n, p)}
<1>1. /\ L \in [0..N -> Accs] /\ L[0] = NoPart
      /\ \A k \in 1..N : L[k] = Put(e, L[k - 1], s[k])
  BY LoopIs
<1>2. N \in Nat \ {0} /\ \A k \in 1..N : k \in 1..Len(s)
  OBVIOUS
<1> HIDE DEF L
<1>3. Holds(e, s, 1, L[1], 0, [i \in {0} |-> 0])
  <2> DEFINE p == [i \in {0} |-> 0]
  <2>1. 1 \in 1..N /\ 1 - 1 = 0 /\ 0 \in 0..Len(s) /\ 0 + 1 = 1
    BY <1>2
  <2>2. L[1] = Put(e, NoPart, s[1])
    BY <1>1, <2>1
  <2>3. /\ Cost(e, s[1]) \in 1..2 /\ Run(e, s, 0, 1) = Cost(e, s[1])
        /\ Multi[e] \in Nat /\ 2 <= Multi[e]
    BY <1>2, <2>1, RunOn, SegmentationAssumption
  <2>4. L[1] = [done |-> <<>>, open |-> <<s[1]>>, used |-> Cost(e, s[1])]
    <3>1. ~ (0 + Cost(e, s[1]) > Multi[e]) /\ 0 + Cost(e, s[1]) = Cost(e, s[1])
      BY <2>3
    <3>2. Append(<<>>, s[1]) = <<s[1]>>
      OBVIOUS
    <3> QED BY <2>2, <3>1, <3>2 DEF Put, NoPart
  <2>5. <<s[1]>> = SubSeq(s, 1, 1)
    BY <1>2, <2>1, Opened
  <2>6. p \in [0..0 -> 0..Len(s)] /\ p[0] = 0
    BY <2>1
  <2> HIDE DEF p
  <2>7. Filled(e, s, 0, p)
    BY <2>6 DEF Filled
  <2>8. PartsAre(s, 0, p, <<>>)
    BY DEF PartsAre
  <2>9. Holds(e, s, 1, L[1], 0, p)
    BY <2>1, <2>3, <2>4, <2>5, <2>6, <2>7, <2>8 DEF Holds
  <2> QED BY <2>9 DEF p
<1>4. ASSUME NEW k \in 1..N, k - 1 \in T PROVE k \in T
  <2>1. CASE k = 1
    BY <1>2, <1>3, <2>1
  <2>2. CASE k # 1
    <3>1. k \in 2..Len(s) /\ k - 1 # 0 /\ k - 1 \in 0..N
      BY <1>2, <2>2
    <3>2. PICK n, p : Holds(e, s, k - 1, L[k - 1], n, p)
      BY <1>4, <3>1
    <3>3. L[k] = Put(e, L[k - 1], s[k]) /\ L[k - 1] \in Accs
      BY <1>1, <3>1
    <3>4. \E m, q : Holds(e, s, k, L[k], m, q)
      BY <3>1, <3>2, <3>3, PutHolds
    <3> QED BY <1>2, <3>4
  <2> QED BY <2>1, <2>2
<1>5. 0 \in T
  BY <1>2
<1> HIDE DEF T
<1>6. N \in T
  <2>1. 0..N \subseteq T
    BY <1>2, <1>4, <1>5, Induction
  <2> QED BY <1>2, <2>1
<1>7. N # 0
  BY <1>2
<1> QED BY <1>6, <1>7 DEF T, L

\* The parts the loop ends with.
LEMMA CutIs ==
  ASSUME NEW e \in Encodings, NEW s \in Seq(Chars), s # <<>>
  PROVE  \E n, p : Greedy(e, s, n, p) /\ PartsAre(s, n, p, Cut(e, s))
<1> DEFINE N == Len(s)
           end == Loop(e, s)[N]
<1>1. PICK d, p : Holds(e, s, N, end, d, p)
  BY LoopHolds
<1> HIDE DEF end
<1>2. /\ d \in Nat /\ Filled(e, s, d, p) /\ PartsAre(s, d, p, end.done)
      /\ p[d] < N /\ end.open = SubSeq(s, p[d] + 1, N)
      /\ Run(e, s, p[d], N) <= Multi[e]
  BY <1>1 DEF Holds
<1>3. N \in Nat \ {0} /\ p \in [0..d -> 0..N] /\ p[0] = 0
      /\ end.done \in Seq(Seq(Chars)) /\ Len(end.done) = d
  BY <1>2 DEF Filled, PartsAre
<1> DEFINE n == d + 1
           q == [i \in 0..n |-> IF i = n THEN N ELSE p[i]]
<1>4. end.open \in Seq(Chars)
  <2>1. p[d] \in 0..Len(s) /\ N \in p[d]..Len(s)
    BY <1>2, <1>3
  <2> QED BY <1>2, <2>1, RunIs
<1>5. /\ Cut(e, s) \in Seq(Seq(Chars)) /\ Len(Cut(e, s)) = n
      /\ Cut(e, s)[n] = SubSeq(s, p[d] + 1, N)
      /\ \A i \in 1..d : Cut(e, s)[i] = end.done[i]
  <2>1. Cut(e, s) = Append(end.done, end.open)
    BY DEF Cut, end
  <2> DEFINE done == end.done  open == end.open
  <2> HIDE DEF done, open
  <2>2. done \in Seq(Seq(Chars)) /\ Len(done) = d /\ open \in Seq(Chars) /\ d \in Nat
    BY <1>2, <1>3, <1>4 DEF done, open
  <2>3. /\ Append(done, open) \in Seq(Seq(Chars)) /\ Len(Append(done, open)) = d + 1
        /\ Append(done, open)[d + 1] = open
        /\ \A i \in 1..d : Append(done, open)[i] = done[i]
    BY <2>2
  <2> QED BY <1>2, <2>1, <2>3 DEF done, open
<1>6. q \in [0..n -> 0..N] /\ q[n] = N /\ \A i \in 0..d : q[i] = p[i]
  BY <1>2, <1>3
<1>7. n \in Nat \ {0} /\ n - 1 = d /\ q[0] = 0
  BY <1>2, <1>3, <1>6
<1> HIDE DEF q, N, n
<1>8. ASSUME NEW i \in 1..d
      PROVE  i \in 0..d /\ i - 1 \in 0..d /\ q[i] = p[i] /\ q[i - 1] = p[i - 1]
  <2>1. i \in 0..d /\ i - 1 \in 0..d
    BY <1>2
  <2> QED BY <1>6, <2>1
<1>9. ASSUME NEW i \in 1..n
      PROVE  /\ q[i - 1] < q[i] /\ Run(e, s, q[i - 1], q[i]) <= Multi[e]
             /\ Cut(e, s)[i] = SubSeq(s, q[i - 1] + 1, q[i])
  <2>1. CASE i = n
    <3>1. q[i - 1] = p[d] /\ q[i] = N
      BY <1>2, <1>6, <1>7, <2>1
    <3> QED BY <1>2, <1>5, <2>1, <3>1
  <2>2. CASE i # n
    <3>1. i \in 1..d
      BY <1>7, <2>2
    <3> QED BY <1>2, <1>5, <1>8, <3>1 DEF Filled, PartsAre
  <2> QED BY <2>1, <2>2
<1>10. \A i \in 1..(n - 1) : Run(e, s, q[i - 1], q[i] + 1) > Multi[e]
  BY <1>2, <1>7, <1>8 DEF Filled
<1>11. Greedy(e, s, n, q)
  BY <1>6, <1>7, <1>9, <1>10 DEF Greedy, N
<1>12. PartsAre(s, n, q, Cut(e, s))
  BY <1>5, <1>9 DEF PartsAre
<1> QED BY <1>11, <1>12

-----------------------------------------------------------------------------
(* The cut by division, when every character costs one.                     *)

LEMMA PlainSums ==
  ASSUME NEW s \in Seq(Chars), ToSet(s) \subseteq {"plain"}
  PROVE  \A k \in 0..Len(s) : Sums("gsm7", s)[k] = k
<1> DEFINE S == Sums("gsm7", s)
           T == {k \in 0..Len(s) : S[k] = k}
<1>1. /\ S \in [0..Len(s) -> Nat] /\ S[0] = 0
      /\ \A k \in 1..Len(s) : S[k] = S[k - 1] + Cost("gsm7", s[k])
  BY SumsIs DEF Encodings
<1>2. \A k \in 1..Len(s) : Cost("gsm7", s[k]) = 1
  <2> SUFFICES ASSUME NEW k \in 1..Len(s) PROVE Cost("gsm7", s[k]) = 1
    OBVIOUS
  <2>1. s[k] = "plain"
    BY DEF ToSet
  <2> QED BY <2>1 DEF Cost
<1> HIDE DEF S
<1>3. 0 \in T
  BY <1>1
<1>4. ASSUME NEW k \in 1..Len(s), k - 1 \in T PROVE k \in T
  BY <1>1, <1>2, <1>4
<1> HIDE DEF T
<1>5. Len(s) \in Nat
  OBVIOUS
<1>6. 0..Len(s) \subseteq T
  BY <1>3, <1>4, <1>5, Induction
<1> QED BY <1>6 DEF T, S

\* How many parts of m hold N characters.
LEMMA PartCount ==
  ASSUME NEW N \in Nat \ {0}, NEW m \in Nat \ {0}
  PROVE  /\ (N + m - 1) \div m \in Nat \ {0}
         /\ N <= ((N + m - 1) \div m) * m
         /\ (((N + m - 1) \div m) - 1) * m < N
<1> DEFINE x == N + m - 1
           n == x \div m
<1>1. x \in Nat /\ m <= x /\ m > 0
  OBVIOUS
<1> HIDE DEF x
<1>2. n \in Int /\ x = m * n + (x % m) /\ x % m \in 0..(m - 1)
  BY <1>1
<1> HIDE DEF n
<1>3. x % m \in Int /\ 0 <= x % m /\ x % m <= m - 1
  BY <1>2
<1>4. n > 0
  <2> SUFFICES ASSUME n <= 0 PROVE FALSE
    BY <1>2
  <2>1. m * n <= 0
    BY <1>1, <1>2
  <2> QED BY <1>1, <1>2, <1>3, <2>1
<1>5. (n - 1) * m = m * n - m /\ n * m = m * n
  BY <1>2
<1>6. m * n \in Int
  BY <1>2
<1>7. N = x - m + 1
  BY DEF x
<1>8. N <= m * n /\ m * n - m < N
  BY <1>1, <1>2, <1>3, <1>6, <1>7
<1> QED BY <1>2, <1>4, <1>5, <1>8 DEF n, x

Quotient(s) == (Len(s) + Multi["gsm7"] - 1) \div Multi["gsm7"]
PlainParts(s) ==
  [i \in 1..Quotient(s) |->
     SubSeq(s, (i - 1) * Multi["gsm7"] + 1, Min({i * Multi["gsm7"], Len(s)}))]

LEMMA Times ==
  ASSUME NEW m \in Nat \ {0}, NEW n \in Nat, NEW i \in 0..n
  PROVE  /\ i * m \in Nat /\ i * m <= n * m /\ (i + 1) * m = i * m + m
         /\ (i - 1) * m = i * m - m
<1>1. i \in Nat /\ n - i \in Nat
  OBVIOUS
<1>2. i * m \in Nat /\ (n - i) * m \in Nat
  BY <1>1
<1>3. n * m = i * m + (n - i) * m
  BY <1>1
<1> QED BY <1>1, <1>2, <1>3

LEMMA PlainIs ==
  ASSUME NEW s \in Seq(Chars), s # <<>>, ToSet(s) \subseteq {"plain"}
  PROVE  /\ Quotient(s) \in Nat \ {0}
         /\ \E p : Greedy("gsm7", s, Quotient(s), p) /\ PartsAre(s, Quotient(s), p, PlainParts(s))
<1> DEFINE N == Len(s)
           m == Multi["gsm7"]
           n == Quotient(s)
           p == [i \in 0..n |-> IF i = n THEN N ELSE i * m]
<1>1. N \in Nat \ {0} /\ m \in Nat \ {0} /\ m >= 2
  BY SegmentationAssumption DEF Encodings
<1>2. n \in Nat \ {0} /\ N <= n * m /\ (n - 1) * m < N
  BY <1>1, PartCount DEF Quotient
<1>3. \A a, b \in 0..N : Run("gsm7", s, a, b) = b - a
  BY PlainSums DEF Run
<1>r. PlainParts(s) = [i \in 1..n |-> SubSeq(s, (i - 1) * m + 1, Min({i * m, N}))]
  BY DEF PlainParts
<1> HIDE DEF N, m, n
<1>4. ASSUME NEW i \in 0..(n - 1)
      PROVE  i * m \in 0..(N - 1) /\ (i + 1) * m = i * m + m /\ i \in 0..n /\ i # n
  <2>1. n - 1 \in Nat
    BY <1>2
  <2>2. i * m \in Nat /\ i * m <= (n - 1) * m /\ (i + 1) * m = i * m + m
    BY <1>1, <2>1, Times
  <2>3. (n - 1) * m \in Nat
    BY <1>1, <2>1
  <2> QED BY <1>1, <1>2, <2>2, <2>3
<1>5. /\ p \in [0..n -> 0..N] /\ p[n] = N /\ \A i \in 0..(n - 1) : p[i] = i * m
  <2>1. \A i \in 0..n : i = n \/ i \in 0..(n - 1)
    BY <1>2
  <2>2. \A i \in 0..n : (IF i = n THEN N ELSE i * m) \in 0..N
    BY <1>1, <1>4, <2>1
  <2>3. n \in 0..n
    BY <1>2
  <2> QED BY <1>4, <2>2, <2>3
<1> HIDE DEF p
<1>6. p[0] = 0
  <2>1. 0 \in 0..(n - 1) /\ 0 * m = 0
    BY <1>1, <1>2
  <2> QED BY <1>5, <2>1
<1>7. ASSUME NEW i \in 1..n
      PROVE  /\ p[i - 1] = (i - 1) * m /\ p[i - 1] \in 0..(N - 1) /\ p[i] \in 0..N
             /\ p[i] = Min({i * m, N}) /\ p[i - 1] < p[i] /\ p[i] - p[i - 1] <= m
             /\ i # n => p[i] + 1 \in 0..N /\ (p[i] + 1) - p[i - 1] > m
  <2>1. i - 1 \in 0..(n - 1) /\ i \in 0..n /\ (i - 1) + 1 = i
    BY <1>2
  <2>2. /\ p[i - 1] = (i - 1) * m /\ (i - 1) * m \in 0..(N - 1)
        /\ i * m = (i - 1) * m + m
    BY <1>4, <1>5, <2>1
  <2> DEFINE a == (i - 1) * m
             b == i * m
  <2>3. p[i - 1] = a /\ a \in 0..(N - 1) /\ b = a + m /\ b \in Nat
    BY <1>1, <2>2
  <2> HIDE DEF a, b
  <2>4. Min({b, N}) \in {b, N} /\ Min({b, N}) <= b /\ Min({b, N}) <= N
    <3>1. {b, N} \in SUBSET Nat /\ {b, N} # {}
      BY <1>1, <2>3
    <3> QED BY <3>1, MinIs
  <2>5. CASE i = n
    <3>1. N <= b /\ p[i] = N
      BY <1>2, <1>5, <2>5 DEF b
    <3>2. Min({b, N}) = N
      BY <1>1, <2>3, <2>4, <3>1
    <3> QED BY <1>1, <2>2, <2>3, <2>5, <3>1, <3>2 DEF b
  <2>6. CASE i # n
    <3>1. i \in 0..(n - 1)
      BY <1>2, <2>1, <2>6
    <3>2. p[i] = b /\ b \in 0..(N - 1)
      BY <1>4, <1>5, <3>1 DEF b
    <3>3. Min({b, N}) = b
      BY <1>1, <2>3, <2>4, <3>2
    <3>4. p[i] = Min({b, N}) /\ p[i] \in 0..N /\ p[i] + 1 \in 0..N
      BY <1>1, <3>2, <3>3
    <3>5. p[i - 1] < p[i] /\ p[i] - p[i - 1] <= m /\ (p[i] + 1) - p[i - 1] > m
      BY <1>1, <2>3, <3>2
    <3> QED BY <2>2, <2>3, <3>4, <3>5 DEF b
  <2> QED BY <2>5, <2>6
<1>8. ASSUME NEW i \in 1..n
      PROVE  /\ p[i - 1] < p[i] /\ Run("gsm7", s, p[i - 1], p[i]) <= m
             /\ i # n => Run("gsm7", s, p[i - 1], p[i] + 1) > m
  <2>a. /\ p[i - 1] \in 0..(N - 1) /\ p[i] \in 0..N /\ p[i - 1] < p[i] /\ p[i] - p[i - 1] <= m
        /\ i # n => p[i] + 1 \in 0..N /\ (p[i] + 1) - p[i - 1] > m
    BY <1>7
  <2>b. p[i - 1] \in 0..N
    BY <1>1, <2>a
  <2>1. /\ p[i - 1] \in 0..N /\ p[i] \in 0..N /\ p[i - 1] < p[i] /\ p[i] - p[i - 1] <= m
        /\ i # n => p[i] + 1 \in 0..N /\ (p[i] + 1) - p[i - 1] > m
    BY <2>a, <2>b
  <2>2. Run("gsm7", s, p[i - 1], p[i]) = p[i] - p[i - 1]
    BY <1>3, <2>1
  <2>3. i # n => Run("gsm7", s, p[i - 1], p[i] + 1) = (p[i] + 1) - p[i - 1]
    BY <1>3, <2>1
  <2> QED BY <2>1, <2>2, <2>3
<1>9. Greedy("gsm7", s, n, p)
  <2>1. \A i \in 1..(n - 1) : i \in 1..n /\ i # n
    BY <1>2
  <2> QED BY <1>2, <1>5, <1>6, <1>8, <2>1 DEF Greedy, N, m
<1>10. PartsAre(s, n, p, PlainParts(s))
  <2>1. ASSUME NEW i \in 1..n
        PROVE  /\ PlainParts(s)[i] = SubSeq(s, p[i - 1] + 1, p[i])
               /\ PlainParts(s)[i] \in Seq(Chars)
    <3>1. PlainParts(s)[i] = SubSeq(s, p[i - 1] + 1, p[i])
      BY <1>r, <1>7
    <3>a. p[i - 1] \in 0..(N - 1) /\ p[i] \in 0..N /\ p[i - 1] < p[i]
      BY <1>7
    <3>b. p[i - 1] \in 0..N /\ p[i] \in p[i - 1]..N
      BY <1>1, <3>a
    <3>2. p[i - 1] \in 0..Len(s) /\ p[i] \in p[i - 1]..Len(s)
      BY <3>b DEF N
    <3> QED BY <3>1, <3>2, RunIs DEF Encodings
  <2>2. PlainParts(s) = [i \in 1..n |-> PlainParts(s)[i]]
    BY <1>r
  <2>3. PlainParts(s) \in [1..n -> Seq(Chars)]
    BY <2>1, <2>2
  <2>4. PlainParts(s) \in Seq(Seq(Chars)) /\ Len(PlainParts(s)) = n
    BY <1>2, <2>3
  <2> QED BY <2>1, <2>4 DEF PartsAre
<1> QED BY <1>2, <1>9, <1>10 DEF n

-----------------------------------------------------------------------------
(* The parts put end to end are the body.                                   *)

LEMMA Joined ==
  ASSUME NEW s \in Seq(Chars), NEW a \in 0..Len(s), NEW b \in a..Len(s)
  PROVE  SubSeq(s, 1, a) \o SubSeq(s, a + 1, b) = SubSeq(s, 1, b)
<1> DEFINE q == SubSeq(s, 1, a)
           r == SubSeq(s, a + 1, b)
           t == SubSeq(s, 1, b)
<1>1. q \in Seq(Chars) /\ Len(q) = a /\ \A i \in 1..a : q[i] = s[i]
  OBVIOUS
<1>2. r \in Seq(Chars) /\ Len(r) = b - a /\ \A i \in 1..(b - a) : r[i] = s[a + i]
  OBVIOUS
<1>3. t \in Seq(Chars) /\ Len(t) = b /\ \A i \in 1..b : t[i] = s[i]
  OBVIOUS
<1> HIDE DEF q, r, t
<1>4. /\ q \o r \in Seq(Chars) /\ Len(q \o r) = b
      /\ \A i \in 1..b : (q \o r)[i] = IF i <= a THEN q[i] ELSE r[i - a]
  BY <1>1, <1>2
<1>5. ASSUME NEW i \in 1..b PROVE (q \o r)[i] = t[i]
  <2>1. CASE i <= a
    <3>1. i \in 1..a
      BY <2>1
    <3> QED BY <1>1, <1>3, <1>4, <2>1, <3>1
  <2>2. CASE ~ (i <= a)
    <3>1. i - a \in 1..(b - a) /\ a + (i - a) = i
      BY <2>2
    <3> QED BY <1>2, <1>3, <1>4, <2>2, <3>1
  <2> QED BY <2>1, <2>2
<1>6. q \o r = t
  BY <1>3, <1>4, <1>5
<1> QED BY <1>6 DEF q, r, t

LEMMA Flattened ==
  ASSUME NEW e \in Encodings, NEW s \in Seq(Chars), s # <<>>, NEW n, NEW p, NEW parts,
         Greedy(e, s, n, p), PartsAre(s, n, p, parts)
  PROVE  FlattenSeq(parts) = s
<1> DEFINE Rec(h, i) == IF i = 1 THEN parts[i] ELSE h[i - 1] \o parts[i]
           Whole(i) == SubSeq(s, 1, p[i])
           f == [i \in 1..n |-> Whole(i)]
           flat == CHOOSE h : h = [i \in 1..n |-> Rec(h, i)]
<1>1. /\ n \in Nat \ {0} /\ p \in [0..n -> 0..Len(s)] /\ p[0] = 0 /\ p[n] = Len(s)
      /\ \A i \in 1..n : p[i - 1] < p[i]
      /\ Len(parts) = n /\ \A i \in 1..n : parts[i] = SubSeq(s, p[i - 1] + 1, p[i])
  BY DEF Greedy, PartsAre
<1>2. FlattenSeq(parts) = flat[n]
  <2>1. Len(parts) # 0 /\ Len(parts) = n
    BY <1>1
  <2> QED BY <2>1, Zenon DEF FlattenSeq
<1>3. ASSUME NEW i \in 1..n
      PROVE  /\ i = 1 => parts[i] = Whole(i)
             /\ i # 1 => i - 1 \in 1..n /\ Whole(i - 1) \o parts[i] = Whole(i)
  <2>1. i - 1 \in 0..n /\ i \in 0..n
    BY <1>1
  <2>a. /\ p[i - 1] \in 0..Len(s) /\ p[i] \in 0..Len(s) /\ p[i - 1] < p[i]
        /\ parts[i] = SubSeq(s, p[i - 1] + 1, p[i])
    BY <1>1, <2>1
  <2>2. p[i - 1] \in 0..Len(s) /\ p[i] \in p[i - 1]..Len(s) /\ parts[i] = SubSeq(s, p[i - 1] + 1, p[i])
    BY <2>a
  <2>3. CASE i = 1
    <3>1. p[i - 1] + 1 = 1
      BY <1>1, <2>3
    <3> QED BY <2>2, <2>3, <3>1
  <2>4. CASE i # 1
    <3>1. i - 1 \in 1..n
      BY <1>1, <2>4
    <3>2. Whole(i - 1) \o SubSeq(s, p[i - 1] + 1, p[i]) = Whole(i)
      BY <2>2, Joined
    <3> QED BY <2>2, <2>4, <3>1, <3>2
  <2> QED BY <2>3, <2>4
<1> HIDE DEF Whole
<1>4. f = [i \in 1..n |-> Rec(f, i)]
  <2>1. \A i \in 1..n : Whole(i) = Rec(f, i)
    BY <1>3
  <2> HIDE DEF Rec
  <2> QED BY <2>1
<1> HIDE DEF f, Rec
<1>5. flat = [i \in 1..n |-> Rec(flat, i)]
  BY <1>4, Zenon
<1> HIDE DEF flat
<1> DEFINE T == {k \in 0..(n - 1) : flat[k + 1] = Whole(k + 1)}
<1>6. 0 \in T
  <2>1. 0 \in 0..(n - 1) /\ 0 + 1 = 1 /\ 1 \in 1..n
    BY <1>1
  <2>2. flat[1] = Rec(flat, 1)
    BY <1>5, <2>1
  <2>3. flat[1] = Whole(1)
    BY <1>3, <2>1, <2>2 DEF Rec
  <2> QED BY <2>1, <2>3
<1>7. ASSUME NEW k \in 1..(n - 1), k - 1 \in T PROVE k \in T
  <2>1. k + 1 \in 1..n /\ k + 1 # 1 /\ (k + 1) - 1 = k /\ (k - 1) + 1 = k /\ k \in 0..(n - 1)
    BY <1>1
  <2>2. flat[k + 1] = flat[k] \o parts[k + 1]
    BY <1>5, <2>1 DEF Rec
  <2>3. flat[k] = Whole(k)
    BY <1>7, <2>1
  <2>4. Whole(k) \o parts[k + 1] = Whole(k + 1)
    BY <1>3, <2>1
  <2> QED BY <2>1, <2>2, <2>3, <2>4
<1> HIDE DEF T
<1>8. n - 1 \in T
  <2>1. n - 1 \in Nat
    BY <1>1
  <2>2. 0..(n - 1) \subseteq T
    BY <1>6, <1>7, <2>1, Induction
  <2> QED BY <2>1, <2>2
<1>9. flat[n] = Whole(n)
  <2>1. (n - 1) + 1 = n
    BY <1>1
  <2> QED BY <1>8, <2>1 DEF T
<1>10. Whole(n) = s
  BY <1>1 DEF Whole
<1> QED BY <1>2, <1>9, <1>10

\* What a cut in greedy parts comes to.
LEMMA PartsRight ==
  ASSUME NEW s \in Seq(Chars), s # <<>>, NEW n, NEW p, NEW parts,
         Greedy(Encoding(s), s, n, p), PartsAre(s, n, p, parts)
  PROVE  /\ n \in Nat \ {0} /\ Len(parts) = n /\ FlattenSeq(parts) = s
         /\ Fewest(s) = IF Length(Encoding(s), s) <= Single[Encoding(s)] THEN 1 ELSE n
         /\ \A i \in DOMAIN parts : Length(Encoding(s), parts[i]) <= Multi[Encoding(s)]
<1> DEFINE e == Encoding(s)
<1>1. e \in Encodings
  BY DEF Encoding, Encodings
<1> HIDE DEF e
<1>2. Greedy(e, s, n, p)
  BY DEF e
<1>3. /\ n \in Nat \ {0} /\ p \in [0..n -> 0..Len(s)] /\ Len(parts) = n /\ parts \in Seq(Seq(Chars))
      /\ \A i \in 1..n : p[i - 1] < p[i] /\ Run(e, s, p[i - 1], p[i]) <= Multi[e]
      /\ \A i \in 1..n : parts[i] = SubSeq(s, p[i - 1] + 1, p[i])
  BY <1>2 DEF Greedy, PartsAre
<1>4. DOMAIN parts = 1..n
  BY <1>3
<1>5. ASSUME NEW i \in 1..n PROVE Length(e, parts[i]) <= Multi[e]
  <2>1. i - 1 \in 0..n /\ i \in 0..n
    BY <1>3
  <2>2. p[i - 1] \in 0..Len(s) /\ p[i] \in 0..Len(s) /\ p[i - 1] < p[i]
    BY <1>3, <2>1
  <2>3. p[i] \in p[i - 1]..Len(s)
    BY <2>2
  <2>4. Length(e, SubSeq(s, p[i - 1] + 1, p[i])) = Run(e, s, p[i - 1], p[i])
    BY <1>1, <2>2, <2>3, RunIs
  <2> QED BY <1>3, <2>4
<1>6. FlattenSeq(parts) = s
  BY <1>1, <1>2, Flattened
<1>7. Fewest(s) = IF Length(e, s) <= Single[e] THEN 1 ELSE n
  BY FewestIs DEF e
<1> QED BY <1>3, <1>4, <1>5, <1>6, <1>7 DEF e

\* What segment_message answers, of the parts it has cut.
LEMMA AnswerIs ==
  ASSUME NEW s \in Seq(Chars), s # <<>>, NEW n, NEW p, NEW parts,
         Greedy(Encoding(s), s, n, p), PartsAre(s, n, p, parts),
         SegmentMessage(s) = IF Length(Encoding(s), s) <= Single[Encoding(s)] THEN Segments(<<s>>)
                             ELSE IF n > MaxParts THEN TooManyParts(n)
                             ELSE Segments(parts)
  PROVE  CutRight(s)
<1> DEFINE e == Encoding(s)
           r == SegmentMessage(s)
<1>1. e \in Encodings
  BY DEF Encoding, Encodings
<1>2. /\ n \in Nat \ {0} /\ Len(parts) = n /\ FlattenSeq(parts) = s
      /\ Fewest(s) = IF Length(e, s) <= Single[e] THEN 1 ELSE n
      /\ \A i \in DOMAIN parts : Length(e, parts[i]) <= Multi[e]
  BY PartsRight
<1>3. /\ Single[e] \in Nat /\ Multi[e] \in Nat /\ Multi[e] <= Single[e] /\ MaxParts \in Nat \ {0}
      /\ Length(e, s) \in Nat
  BY <1>1, SegmentationAssumption, WholeIs
<1> HIDE DEF e
<1>4. CASE Length(e, s) <= Single[e]
  <2>1. r = [parts |-> <<s>>, required |-> 1]
    <3>1. Len(<<s>>) = 1
      OBVIOUS
    <3> QED BY <1>4, <3>1 DEF Segments, e
  <2>2. Fewest(s) = 1 /\ ~ (1 > MaxParts)
    BY <1>2, <1>3, <1>4
  <2>3. FlattenSeq(<<s>>) = s
    <3> DEFINE one == <<s>>
    <3>1. Len(one) = 1 /\ one[1] = s /\ Len(one) # 0
      OBVIOUS
    <3> HIDE DEF one
    <3> DEFINE Rec(h, i) == IF i = 1 THEN one[i] ELSE h[i - 1] \o one[i]
               flat == CHOOSE h : h = [i \in 1..1 |-> Rec(h, i)]
    <3>2. FlattenSeq(one) = flat[1]
      BY <3>1, Zenon DEF FlattenSeq
    <3>3. \E h : h = [i \in 1..1 |-> Rec(h, i)]
      <4>1. [i \in 1..1 |-> one[1]] = [i \in 1..1 |-> Rec([j \in 1..1 |-> one[1]], i)]
        OBVIOUS
      <4> QED BY <4>1, Zenon
    <3> HIDE DEF Rec
    <3>4. flat = [i \in 1..1 |-> Rec(flat, i)]
      BY <3>3, Zenon
    <3> HIDE DEF flat
    <3>5. flat[1] = Rec(flat, 1)
      <4>1. 1 \in 1..1
        OBVIOUS
      <4> QED BY <3>4, <4>1
    <3> QED BY <3>1, <3>2, <3>5 DEF Rec, one
  <2>4. \A i \in DOMAIN <<s>> : Length(e, <<s>>[i]) <= Single[e]
    BY <1>4
  <2>5. r.required = 1 /\ r.parts = <<s>> /\ Len(<<s>>) = 1
    BY <2>1
  <2> HIDE DEF r
  <2>6. \A i \in DOMAIN r.parts : Length(e, r.parts[i]) <= IF r.required = 1 THEN Single[e] ELSE Multi[e]
    BY <2>4, <2>5
  <2> QED BY <2>2, <2>3, <2>5, <2>6 DEF CutRight, r, e
<1>5. CASE ~ (Length(e, s) <= Single[e]) /\ n > MaxParts
  <2>1. r = [parts |-> <<>>, required |-> n]
    BY <1>5 DEF TooManyParts, e
  <2>2. r.required = n /\ r.parts = <<>> /\ Fewest(s) = n
    BY <1>2, <1>5, <2>1
  <2> HIDE DEF r
  <2> QED BY <1>5, <2>2 DEF CutRight, r
<1>6. CASE ~ (Length(e, s) <= Single[e]) /\ ~ (n > MaxParts)
  <2>1. r = [parts |-> parts, required |-> n]
    BY <1>2, <1>6 DEF Segments, e
  <2>2. r.required = n /\ r.parts = parts /\ Fewest(s) = n
    BY <1>2, <1>6, <2>1
  <2> HIDE DEF r
  <2>3. \A i \in DOMAIN r.parts : Length(e, r.parts[i]) <= IF r.required = 1 THEN Single[e] ELSE Multi[e]
    <3> SUFFICES ASSUME NEW i \in DOMAIN parts PROVE Length(e, parts[i]) <= IF n = 1 THEN Single[e] ELSE Multi[e]
      BY <2>2
    <3>1. Length(e, parts[i]) <= Multi[e] /\ Length(e, parts[i]) \in Nat
      <4>1. parts \in Seq(Seq(Chars))
        BY DEF PartsAre
      <4>2. parts[i] \in Seq(Chars)
        BY <4>1
      <4>3. Len(parts[i]) \in 0..Len(parts[i]) /\ Sums(e, parts[i]) \in [0..Len(parts[i]) -> Nat]
        BY <1>1, <4>2, SumsIs
      <4>4. Length(e, parts[i]) \in Nat
        BY <4>3 DEF Length
      <4> QED BY <1>2, <4>4
    <3> QED BY <1>3, <3>1
  <2> QED BY <1>2, <1>6, <2>2, <2>3 DEF CutRight, r, e
<1> QED BY <1>4, <1>5, <1>6

-----------------------------------------------------------------------------
\* Every body, of any length and any characters, and for any capacities: the
\* segments are the fewest that hold it, none is over its capacity, and put end
\* to end they are the body; it is refused only when the fewest are too many
\* (segment_message).
THEOREM EveryCutRight == \A body \in Seq(Chars) \ {<<>>} : CutRight(body)
<1> SUFFICES ASSUME NEW s \in Seq(Chars), s # <<>> PROVE CutRight(s)
  OBVIOUS
<1>1. CASE ToSet(s) \subseteq {"plain"}
  <2>1. Encoding(s) = "gsm7"
    BY <1>1 DEF Encoding, Gsm7Chars
  <2>2. PICK p : Greedy("gsm7", s, Quotient(s), p) /\ PartsAre(s, Quotient(s), p, PlainParts(s))
    BY <1>1, PlainIs
  <2>3. Length("gsm7", s) = Len(s)
    <3>1. Len(s) \in 0..Len(s)
      OBVIOUS
    <3> QED BY <1>1, <3>1, PlainSums DEF Length
  <2>4. SegmentMessage(s) = IF Len(s) <= Single["gsm7"] THEN Segments(<<s>>)
                            ELSE IF Quotient(s) > MaxParts THEN TooManyParts(Quotient(s))
                            ELSE Segments(PlainParts(s))
    BY <1>1, Zenon DEF SegmentMessage, SegmentSimple, Quotient, PlainParts
  <2> QED BY <2>1, <2>2, <2>3, <2>4, AnswerIs
<1>2. CASE ~ (ToSet(s) \subseteq {"plain"})
  <2> DEFINE e == Encoding(s)
             parts == Cut(e, s)
  <2>1. e \in Encodings
    BY DEF Encoding, Encodings
  <2>2. SegmentMessage(s) = IF Length(e, s) <= Single[e] THEN Segments(<<s>>)
                            ELSE IF Len(parts) > MaxParts THEN TooManyParts(Len(parts))
                            ELSE Segments(parts)
    BY <1>2, Zenon DEF SegmentMessage, SegmentBy
  <2> HIDE DEF e, parts
  <2>3. PICK n, p : Greedy(e, s, n, p) /\ PartsAre(s, n, p, parts)
    BY <2>1, CutIs DEF parts
  <2>4. Len(parts) = n
    BY <2>3 DEF PartsAre
  <2> QED BY <2>2, <2>3, <2>4, AnswerIs DEF e
<1> QED BY <1>1, <1>2

\* What is announced is a number of segments.
LEMMA RequiredIs ==
  ASSUME NEW s \in Seq(Chars), s # <<>>
  PROVE  SegmentMessage(s).required \in Nat \ {0}
<1> DEFINE e == Encoding(s)
<1>1. e \in Encodings
  BY DEF Encoding, Encodings
<1>2. PICK n, p : Greedy(e, s, n, p) /\ PartsAre(s, n, p, Cut(e, s))
  BY <1>1, CutIs
<1>3. n \in Nat \ {0} /\ Fewest(s) = IF Length(e, s) <= Single[e] THEN 1 ELSE n
  BY <1>2, PartsRight
<1>4. SegmentMessage(s).required = Fewest(s)
  BY EveryCutRight DEF CutRight
<1> QED BY <1>3, <1>4
=============================================================================
