---------------------------- MODULE MetricProofs ----------------------------
(***************************************************************************)
(* What each type of metric makes of its messages, for any number of them, *)
(* any values and any limits.                                              *)
(***************************************************************************)
EXTENDS Metric, DataLemmas, TLAPS

(* The values of s below, at and up to v. *)
LEMMA CountFacts ==
  ASSUME NEW n \in Nat, NEW s, DOMAIN s = 1 .. n, \A i \in 1 .. n : s[i] \in Nat, NEW v \in Nat
  PROVE  /\ Below(s, v) \in Nat /\ Copies(s, v) \in Nat /\ AtMost(s, v) \in Nat
         /\ AtMost(s, v) = Below(s, v) + Copies(s, v)
         /\ AtMost(s, v) = Below(s, v + 1)
         /\ \A w \in Nat : v < w => AtMost(s, v) <= Below(s, w)
         /\ v \in Range(s) => Copies(s, v) > 0
         /\ v \notin Range(s) => Copies(s, v) = 0
<1> DEFINE B(w) == {i \in 1 .. n : s[i] < w}
           C == {i \in 1 .. n : s[i] = v}
           A == {i \in 1 .. n : s[i] <= v}
<1>1. IsFiniteSet(1 .. n)
  BY FS_Interval
<1>2. \A w \in Nat : IsFiniteSet(B(w)) /\ Cardinality(B(w)) \in Nat
  BY <1>1, FS_Subset, FS_CardinalityType
<1>3. IsFiniteSet(C) /\ Cardinality(C) \in Nat
  BY <1>1, FS_Subset, FS_CardinalityType
<1>4. IsFiniteSet(A) /\ Cardinality(A) \in Nat
  BY <1>1, FS_Subset, FS_CardinalityType
<1>5. A = B(v) \cup C /\ B(v) \cap C = {} /\ A = B(v + 1)
  OBVIOUS
<1>6. Cardinality(A) = Cardinality(B(v)) + Cardinality(C)
  <2>1. Cardinality(B(v) \cup C)
          = Cardinality(B(v)) + Cardinality(C) - Cardinality(B(v) \cap C)
    BY <1>2, <1>3, FS_Union
  <2>2. Cardinality(B(v) \cap C) = 0
    BY <1>5, FS_EmptySet
  <2>3. Cardinality(B(v)) \in Nat
    BY <1>2
  <2> HIDE DEF B, C, A
  <2> QED BY <1>3, <1>5, <2>1, <2>2, <2>3
<1>7. ASSUME NEW w \in Nat, v < w PROVE Cardinality(A) <= Cardinality(B(w))
  <2>1. A \in SUBSET B(w)
    BY <1>7
  <2> HIDE DEF A, B
  <2> QED BY <1>2, <2>1, FS_Subset
<1>8. /\ v \in Range(s) => Cardinality(C) > 0
      /\ v \notin Range(s) => Cardinality(C) = 0
  <2>1. Cardinality(C) = 0 <=> C = {}
    BY <1>3, FS_EmptySet
  <2>2. v \in Range(s) <=> C # {}
    BY DEF Range
  <2> HIDE DEF C
  <2> QED BY <1>3, <2>1, <2>2
<1>9. Below(s, v) = Cardinality(B(v)) /\ Copies(s, v) = Cardinality(C) /\ AtMost(s, v) = Cardinality(A)
  BY DEF Below, Copies, AtMost
<1>10. \A w : Below(s, w) = Cardinality(B(w))
  BY DEF Below
<1> HIDE DEF A, B, C
<1> QED BY <1>2, <1>3, <1>4, <1>5, <1>6, <1>7, <1>8, <1>9, <1>10

(* A bound of the values. *)
LEMMA ValuesBounded ==
  ASSUME NEW n \in Nat, NEW s, \A i \in 1 .. n : s[i] \in Nat
  PROVE  \E b \in Nat : \A i \in 1 .. n : s[i] <= b
<1> DEFINE N == {k \in Nat : \E b \in Nat : \A i \in 1 .. n : i <= k => s[i] <= b}
<1>1. 0 \in N
  OBVIOUS
<1>2. ASSUME NEW k \in Nat, k \in N PROVE k + 1 \in N
  <2>1. PICK b \in Nat : \A i \in 1 .. n : i <= k => s[i] <= b
    BY <1>2
  <2>2. CASE k + 1 \in 1 .. n /\ s[k + 1] > b
    <3>1. s[k + 1] \in Nat /\ \A i \in 1 .. n : i <= k + 1 => s[i] <= s[k + 1]
      BY <2>1, <2>2
    <3> QED BY <3>1
  <2>3. CASE ~(k + 1 \in 1 .. n /\ s[k + 1] > b)
    <3>1. \A i \in 1 .. n : i <= k + 1 => s[i] <= b
      BY <2>1, <2>3
    <3> QED BY <3>1
  <2> QED BY <2>2, <2>3
<1>3. Nat \subseteq N
  <2> HIDE DEF N
  <2> QED BY <1>1, <1>2, SetInduction
<1>4. n \in N
  BY <1>3
<1>5. PICK b \in Nat : \A i \in 1 .. n : i <= n => s[i] <= b
  BY <1>4
<1> QED BY <1>5

(* The value at each position: the least one that enough values do not exceed. *)
LEMMA ValueAt ==
  ASSUME NEW n \in Nat, NEW s, DOMAIN s = 1 .. n, \A i \in 1 .. n : s[i] \in Nat, NEW k \in 1 .. n
  PROVE  \E v \in Nat : /\ v \in Range(s) /\ Below(s, v) < k /\ k <= AtMost(s, v)
                        /\ \A w \in Nat : k <= AtMost(s, w) => v <= w
<1> DEFINE V == {v \in Nat : k <= AtMost(s, v)}
<1>1. V # {}
  <2>1. PICK b \in Nat : \A i \in 1 .. n : s[i] <= b
    BY ValuesBounded
  <2>2. {i \in DOMAIN s : s[i] <= b} = 1 .. n
    BY <2>1
  <2>3. Cardinality(1 .. n) = n
    BY FS_Interval
  <2>4. AtMost(s, b) = n
    BY <2>2, <2>3 DEF AtMost
  <2> QED BY <2>4
<1>2. PICK v \in V : \A w \in V : v <= w
  BY <1>1, LeastNumber
<1>3. v \in Nat /\ AtMost(s, v) \in Nat /\ k <= AtMost(s, v)
  BY <1>2, CountFacts
<1>4. Below(s, v) < k /\ Below(s, v) \in Nat
  <2>1. CASE v = 0
    <3>1. {i \in DOMAIN s : s[i] < 0} = {}
      OBVIOUS
    <3> QED BY <2>1, <3>1, FS_EmptySet DEF Below
  <2>2. CASE v # 0
    <3>1. v - 1 \in Nat /\ (v - 1) + 1 = v /\ v - 1 \notin V
      BY <1>2, <1>3, <2>2
    <3>2. AtMost(s, v - 1) = Below(s, (v - 1) + 1) /\ AtMost(s, v - 1) \in Nat
      BY <3>1, CountFacts
    <3> QED BY <3>1, <3>2
  <2> QED BY <2>1, <2>2
<1>5. v \in Range(s)
  <2>1. AtMost(s, v) = Below(s, v) + Copies(s, v) /\ Copies(s, v) \in Nat
    BY <1>3, CountFacts
  <2>2. Copies(s, v) > 0
    BY <1>3, <1>4, <2>1
  <2> QED BY <1>3, <2>2, CountFacts
<1> QED BY <1>2, <1>3, <1>4, <1>5

(* Values can be sorted. *)
LEMMA SortExists ==
  ASSUME NEW n \in Nat, NEW s, DOMAIN s = 1 .. n, \A i \in 1 .. n : s[i] \in Nat
  PROVE  \E t \in [DOMAIN s -> Range(s)] :
           InOrder(t) /\ \A v \in Range(s) : Copies(t, v) = Copies(s, v)
<1> DEFINE At(v, k) == /\ v \in Range(s) /\ Below(s, v) < k /\ k <= AtMost(s, v)
                       /\ \A w \in Nat : k <= AtMost(s, w) => v <= w
           t == [k \in DOMAIN s |-> CHOOSE v \in Nat : At(v, k)]
<1>1. ASSUME NEW k \in 1 .. n PROVE t[k] \in Nat /\ At(t[k], k)
  <2>1. \E v \in Nat : At(v, k)
    BY ValueAt
  <2> HIDE DEF At
  <2> QED BY <2>1
<1>2. t \in [DOMAIN s -> Range(s)] /\ DOMAIN t = 1 .. n
  BY <1>1
<1>3. InOrder(t)
  <2> SUFFICES ASSUME NEW i \in 1 .. n, NEW j \in 1 .. n, i < j PROVE t[i] <= t[j]
    BY <1>2 DEF InOrder
  <2> HIDE DEF t
  <2>1. AtMost(s, t[j]) \in Nat /\ j <= AtMost(s, t[j]) /\ t[j] \in Nat
    BY <1>1, CountFacts
  <2>2. i <= AtMost(s, t[j])
    BY <2>1
  <2> QED BY <1>1, <2>1, <2>2
<1>4. ASSUME NEW v \in Range(s) PROVE Copies(t, v) = Copies(s, v)
  <2>1. v \in Nat
    BY DEF Range
  <2>2. /\ Below(s, v) \in Nat /\ AtMost(s, v) \in Nat /\ Copies(s, v) \in Nat
        /\ AtMost(s, v) = Below(s, v) + Copies(s, v) /\ AtMost(s, v) <= n
    <3>1. {i \in DOMAIN s : s[i] <= v} \in SUBSET (1 .. n)
      OBVIOUS
    <3>2. AtMost(s, v) <= n
      <4>1. IsFiniteSet(1 .. n) /\ Cardinality(1 .. n) = n
        BY FS_Interval
      <4> QED BY <3>1, <4>1, FS_Subset DEF AtMost
    <3> QED BY <2>1, <3>2, CountFacts
  <2> HIDE DEF t
  <2>3. ASSUME NEW k \in 1 .. n, t[k] = v PROVE k \in (Below(s, v) + 1) .. AtMost(s, v)
    BY <1>1, <2>2, <2>3
  <2>4. ASSUME NEW k \in (Below(s, v) + 1) .. AtMost(s, v) PROVE k \in 1 .. n /\ t[k] = v
    <3>1. k \in 1 .. n /\ Below(s, v) < k /\ k <= AtMost(s, v)
      BY <2>2
    <3>2. t[k] \in Nat /\ t[k] <= v /\ k <= AtMost(s, t[k])
      BY <1>1, <2>1, <3>1
    <3>3. AtMost(s, t[k]) \in Nat /\ (t[k] < v => AtMost(s, t[k]) <= Below(s, v))
      BY <2>1, <3>2, CountFacts
    <3> QED BY <2>1, <2>2, <3>1, <3>2, <3>3
  <2>5. {k \in DOMAIN t : t[k] = v} = (Below(s, v) + 1) .. AtMost(s, v)
    BY <1>2, <2>3, <2>4
  <2>6. Cardinality((Below(s, v) + 1) .. AtMost(s, v)) = Copies(s, v)
    <3> DEFINE lo == Below(s, v) + 1
               hi == AtMost(s, v)
    <3>1. lo \in Int /\ hi \in Int /\ Copies(s, v) = IF lo > hi THEN 0 ELSE hi - lo + 1
      <4>1. \A a, b, c \in Nat : a = b + c => c = IF b + 1 > a THEN 0 ELSE a - (b + 1) + 1
        OBVIOUS
      <4> QED BY <2>2, <4>1
    <3> HIDE DEF lo, hi
    <3>2. Cardinality(lo .. hi) = IF lo > hi THEN 0 ELSE hi - lo + 1
      BY <3>1, FS_Interval
    <3> QED BY <3>1, <3>2 DEF lo, hi
  <2> QED BY <2>5, <2>6 DEF Copies
<1> QED BY <1>2, <1>3, <1>4

(* What Sorted returns. *)
LEMMA SortedFacts ==
  ASSUME NEW n \in Nat, NEW s, DOMAIN s = 1 .. n, \A i \in 1 .. n : s[i] \in Nat
  PROVE  /\ DOMAIN Sorted(s) = 1 .. n
         /\ \A i \in 1 .. n : Sorted(s)[i] \in Nat /\ Sorted(s)[i] \in Range(s)
         /\ InOrder(Sorted(s))
         /\ \A v \in Nat : Copies(Sorted(s), v) = Copies(s, v)
         /\ Range(Sorted(s)) = Range(s)
<1> DEFINE t == Sorted(s)
<1>1. /\ t \in [DOMAIN s -> Range(s)] /\ InOrder(t)
      /\ \A v \in Range(s) : Copies(t, v) = Copies(s, v)
  BY SortExists DEF Sorted
<1>2. \A v \in Range(s) : v \in Nat
  BY DEF Range
<1> HIDE DEF t
<1>3. DOMAIN t = 1 .. n /\ \A i \in 1 .. n : t[i] \in Range(s) /\ t[i] \in Nat
  BY <1>1, <1>2
<1>4. Range(t) \subseteq Range(s)
  BY <1>3 DEF Range
<1>5. ASSUME NEW v \in Nat, v \notin Range(s) PROVE Copies(t, v) = Copies(s, v)
  <2>1. Copies(s, v) = 0
    BY <1>5, CountFacts
  <2>2. Copies(t, v) = 0
    BY <1>3, <1>4, <1>5, CountFacts
  <2> QED BY <2>1, <2>2
<1>6. ASSUME NEW v \in Range(s) PROVE v \in Range(t)
  <2>1. v \in Nat /\ Copies(s, v) > 0
    BY <1>2, CountFacts
  <2>2. Copies(t, v) = Copies(s, v)
    BY <1>1
  <2>3. v \notin Range(t) => Copies(t, v) = 0
    BY <1>3, <2>1, CountFacts
  <2> QED BY <2>1, <2>2, <2>3
<1> QED BY <1>1, <1>3, <1>4, <1>5, <1>6 DEF t

(* Sequences with equally many copies of each value have equally many values below each. *)
LEMMA SameBelow ==
  ASSUME NEW n \in Nat, NEW s, DOMAIN s = 1 .. n, \A i \in 1 .. n : s[i] \in Nat,
         NEW t, DOMAIN t = 1 .. n, \A i \in 1 .. n : t[i] \in Nat,
         \A v \in Nat : Copies(t, v) = Copies(s, v), NEW p \in Nat
  PROVE  Below(t, p) = Below(s, p) /\ AtMost(t, p) = AtMost(s, p)
<1> DEFINE N == {v \in Nat : Below(t, v) = Below(s, v)}
<1>1. 0 \in N
  <2>1. {i \in DOMAIN s : s[i] < 0} = {} /\ {i \in DOMAIN t : t[i] < 0} = {}
    OBVIOUS
  <2> QED BY <2>1 DEF Below
<1>2. ASSUME NEW v \in Nat, Below(t, v) = Below(s, v)
      PROVE  AtMost(t, v) = AtMost(s, v) /\ Below(t, v + 1) = Below(s, v + 1)
  <2>1. AtMost(t, v) = Below(t, v) + Copies(t, v) /\ AtMost(t, v) = Below(t, v + 1)
    BY CountFacts
  <2>2. AtMost(s, v) = Below(s, v) + Copies(s, v) /\ AtMost(s, v) = Below(s, v + 1)
    BY CountFacts
  <2> QED BY <1>2, <2>1, <2>2
<1>3. Nat \subseteq N
  <2>1. \A v \in Nat : v \in N => v + 1 \in N
    BY <1>2
  <2> HIDE DEF N
  <2> QED BY <1>1, <2>1, SetInduction
<1> QED BY <1>2, <1>3

(* The value at position q of sorted values has less than q below it and at least q
   that do not exceed it. *)
LEMMA SortedRank ==
  ASSUME NEW n \in Nat, NEW s, DOMAIN s = 1 .. n, \A i \in 1 .. n : s[i] \in Nat, NEW q \in 1 .. n
  PROVE  LET v == Sorted(s)[q] IN
         /\ v \in Range(s) /\ v \in Nat
         /\ Below(s, v) \in Nat /\ Below(s, v) < q
         /\ AtMost(s, v) \in Nat /\ q <= AtMost(s, v)
<1> DEFINE t == Sorted(s)
           v == t[q]
<1>1. /\ DOMAIN t = 1 .. n /\ \A i \in 1 .. n : t[i] \in Nat /\ t[i] \in Range(s)
      /\ InOrder(t) /\ \A w \in Nat : Copies(t, w) = Copies(s, w)
  BY SortedFacts
<1> HIDE DEF t
<1>2. v \in Nat /\ v \in Range(s)
  BY <1>1
<1>3. Below(t, v) = Below(s, v) /\ AtMost(t, v) = AtMost(s, v)
  BY <1>1, <1>2, SameBelow
<1>4. \A i, j \in 1 .. n : i < j => t[i] <= t[j]
  BY <1>1 DEF InOrder
<1>5. Below(t, v) \in Nat /\ Below(t, v) <= q - 1
  <2> DEFINE U == {i \in DOMAIN t : t[i] < v}
  <2>1. U \in SUBSET (1 .. (q - 1))
    <3> SUFFICES ASSUME NEW i \in 1 .. n, t[i] < v PROVE i < q
      BY <1>1
    <3> QED BY <1>1, <1>4
  <2>2. IsFiniteSet(1 .. (q - 1)) /\ Cardinality(1 .. (q - 1)) = q - 1
    <3>1. 1 \in Int /\ q - 1 \in Int /\ q - 1 >= 0
      OBVIOUS
    <3> QED BY <3>1, FS_Interval
  <2> HIDE DEF U
  <2>3. Cardinality(U) <= q - 1 /\ Cardinality(U) \in Nat
    <3>1. IsFiniteSet(U) /\ Cardinality(U) <= Cardinality(1 .. (q - 1))
      BY <2>1, <2>2, FS_Subset
    <3>2. Cardinality(U) \in Nat
      BY <3>1, FS_CardinalityType
    <3> QED BY <2>2, <3>1, <3>2
  <2> QED BY <2>3 DEF U, Below
<1>6. AtMost(t, v) \in Nat /\ q <= AtMost(t, v)
  <2> DEFINE U == {i \in DOMAIN t : t[i] <= v}
  <2>1. 1 .. q \in SUBSET U
    BY <1>1, <1>4
  <2>2. IsFiniteSet(U)
    BY <1>1, FS_Interval, FS_Subset
  <2>3. Cardinality(1 .. q) = q
    BY FS_Interval
  <2> HIDE DEF U
  <2>4. Cardinality(U) \in Nat /\ q <= Cardinality(U)
    BY <2>1, <2>2, <2>3, FS_Subset, FS_CardinalityType
  <2> QED BY <2>4 DEF U, AtMost
<1>7. /\ v \in Range(s) /\ v \in Nat
      /\ Below(s, v) \in Nat /\ Below(s, v) < q
      /\ AtMost(s, v) \in Nat /\ q <= AtMost(s, v)
  BY <1>2, <1>3, <1>5, <1>6
<1> QED BY <1>7 DEF t

(* b pairs the elements of S with those of T. *)
Pairs(b, S, T) ==
  /\ \A x \in S : b[x] \in T
  /\ \A x, y \in S : b[x] = b[y] => x = y
  /\ \A z \in T : \E x \in S : b[x] = z

(* g has at b[x] the integer that h has at x. *)
Carries(b, g, h, S) == \A x \in S : h[x] \in Int /\ g[b[x]] = h[x]

(* Paired summands have equal sums. *)
LEMMA SumPaired ==
  ASSUME NEW S, IsFiniteSet(S), NEW T, IsFiniteSet(T), NEW b, NEW g, NEW h,
         Pairs(b, S, T), Carries(b, g, h, S)
  PROVE  SumFunctionOnSet(h, S) = SumFunctionOnSet(g, T)
<1> DEFINE N == {k \in Nat : \A U \in SUBSET S, V \in SUBSET T :
                   Cardinality(U) = k /\ Pairs(b, U, V)
                     => SumFunctionOnSet(h, U) = SumFunctionOnSet(g, V)}
<1>1. IsFiniteSet(S) /\ IsFiniteSet(T)
  OBVIOUS
<1>2. 0 \in N
  <2> SUFFICES ASSUME NEW U \in SUBSET S, NEW V \in SUBSET T, Cardinality(U) = 0, Pairs(b, U, V)
               PROVE  SumFunctionOnSet(h, U) = SumFunctionOnSet(g, V)
    OBVIOUS
  <2>1. U = {}
    BY <1>1, FS_Subset, FS_EmptySet
  <2>2. V = {}
    BY <2>1 DEF Pairs
  <2> QED BY <2>1, <2>2, SumOfNone
<1>3. ASSUME NEW k \in Nat, k \in N PROVE k + 1 \in N
  <2> SUFFICES ASSUME NEW U \in SUBSET S, NEW V \in SUBSET T, Cardinality(U) = k + 1, Pairs(b, U, V)
               PROVE  SumFunctionOnSet(h, U) = SumFunctionOnSet(g, V)
    OBVIOUS
  <2>1. IsFiniteSet(U) /\ IsFiniteSet(V)
    BY <1>1, FS_Subset
  <2>2. U # {}
    BY FS_EmptySet
  <2>3. PICK x \in U : TRUE
    BY <2>2
  <2> DEFINE y == b[x]
             UU == U \ {x}
             VV == V \ {y}
  <2>4. y \in V /\ UU \in SUBSET S /\ VV \in SUBSET T
    BY DEF Pairs
  <2>5. Cardinality(UU) = k
    <3>1. Cardinality(U \ {x}) = Cardinality(U) - 1
      BY <2>1, FS_RemoveElement
    <3> QED BY <3>1
  <2>6. Pairs(b, UU, VV)
    BY DEF Pairs
  <2>7. SumFunctionOnSet(h, UU) = SumFunctionOnSet(g, VV)
    BY <1>3, <2>4, <2>5, <2>6
  <2>8. (\A z \in U : h[z] \in Int) /\ (\A z \in V : g[z] \in Int) /\ g[y] = h[x]
    BY DEF Pairs, Carries
  <2> HIDE DEF y
  <2>9. SumFunctionOnSet(h, U) = h[x] + SumFunctionOnSet(h, U \ {x})
    BY <2>1, <2>8, SumTake
  <2>10. SumFunctionOnSet(g, V) = g[y] + SumFunctionOnSet(g, V \ {y})
    BY <2>1, <2>4, <2>8, SumTake
  <2> QED BY <2>7, <2>8, <2>9, <2>10
<1>4. Nat \subseteq N
  <2> HIDE DEF N
  <2> QED BY <1>2, <1>3, SetInduction
<1>5. Cardinality(S) \in N
  BY <1>1, <1>4, FS_CardinalityType
<1> QED BY <1>5

(* Sequences with equally many copies of each value can be paired. *)
LEMMA SameCopiesPaired ==
  ASSUME NEW n \in Nat, NEW s, DOMAIN s = 1 .. n, \A i \in 1 .. n : s[i] \in Nat,
         NEW t, DOMAIN t = 1 .. n, \A i \in 1 .. n : t[i] \in Nat,
         \A v \in Nat : Copies(t, v) = Copies(s, v)
  PROVE  \E b : Pairs(b, 1 .. n, 1 .. n) /\ Carries(b, s, t, 1 .. n)
<1> DEFINE Of(r, v) == {i \in 1 .. n : r[i] = v}
           B == [v \in Nat |-> CHOOSE b : b \in Bijection(Of(t, v), Of(s, v))]
           b == [i \in 1 .. n |-> B[t[i]][i]]
<1>1. ASSUME NEW v \in Nat PROVE B[v] \in Bijection(Of(t, v), Of(s, v))
  <2>1. IsFiniteSet(1 .. n)
    BY FS_Interval
  <2>2. IsFiniteSet(Of(t, v)) /\ IsFiniteSet(Of(s, v))
    BY <2>1, FS_Subset
  <2>3. Cardinality(Of(t, v)) = Cardinality(Of(s, v))
    BY DEF Copies
  <2> HIDE DEF Of
  <2>4. ExistsBijection(Of(t, v), Of(s, v))
    BY <2>2, <2>3, FS_SameCardinalityBij
  <2> QED BY <2>4 DEF ExistsBijection
<1>2. ASSUME NEW v \in Nat
      PROVE  Pairs(B[v], Of(t, v), Of(s, v))
  <2> HIDE DEF B, Of
  <2> QED BY <1>1 DEF Pairs, Bijection, Injection, Surjection, IsInjective
<1> HIDE DEF B
<1>3. ASSUME NEW i \in 1 .. n PROVE b[i] \in 1 .. n /\ s[b[i]] = t[i] /\ b[i] = B[t[i]][i]
  <2>1. t[i] \in Nat /\ i \in Of(t, t[i])
    OBVIOUS
  <2>2. B[t[i]][i] \in Of(s, t[i])
    BY <1>2, <2>1 DEF Pairs
  <2> QED BY <2>2
<1>4. ASSUME NEW i \in 1 .. n, NEW j \in 1 .. n, b[i] = b[j] PROVE i = j
  <2>1. t[i] = t[j] /\ t[i] \in Nat /\ i \in Of(t, t[i]) /\ j \in Of(t, t[i])
    BY <1>3, <1>4
  <2>2. B[t[i]][i] = B[t[i]][j]
    BY <1>3, <1>4, <2>1
  <2> QED BY <1>2, <2>1, <2>2 DEF Pairs
<1>5. ASSUME NEW j \in 1 .. n PROVE \E i \in 1 .. n : b[i] = j
  <2>1. s[j] \in Nat /\ j \in Of(s, s[j])
    OBVIOUS
  <2>2. \E i \in Of(t, s[j]) : B[s[j]][i] = j
    <3> HIDE DEF Of
    <3> QED BY <1>2, <2>1 DEF Pairs
  <2>3. PICK i \in Of(t, s[j]) : B[s[j]][i] = j
    BY <2>2
  <2>4. i \in 1 .. n /\ t[i] = s[j]
    OBVIOUS
  <2> QED BY <2>3, <2>4
<1>6. Pairs(b, 1 .. n, 1 .. n)
  <2> HIDE DEF b
  <2> QED BY <1>3, <1>4, <1>5 DEF Pairs
<1>7. Carries(b, s, t, 1 .. n)
  <2> HIDE DEF b
  <2> QED BY <1>3 DEF Carries
<1> HIDE DEF b
<1> QED BY <1>6, <1>7

(* Sorting keeps the sum. *)
LEMMA SortedSum ==
  ASSUME NEW n \in Nat, NEW s, DOMAIN s = 1 .. n, \A i \in 1 .. n : s[i] \in Nat
  PROVE  SumFunction(Sorted(s)) = SumFunction(s)
<1> DEFINE t == Sorted(s)
<1>1. /\ DOMAIN t = 1 .. n /\ \A i \in 1 .. n : t[i] \in Nat
      /\ \A v \in Nat : Copies(t, v) = Copies(s, v)
  BY SortedFacts
<1> HIDE DEF t
<1>2. PICK b : Pairs(b, 1 .. n, 1 .. n) /\ Carries(b, s, t, 1 .. n)
  BY <1>1, SameCopiesPaired
<1>3. SumFunctionOnSet(t, 1 .. n) = SumFunctionOnSet(s, 1 .. n)
  <2> DEFINE D == 1 .. n
  <2>1. IsFiniteSet(D) /\ Pairs(b, D, D) /\ Carries(b, s, t, D)
    BY <1>2, FS_Interval
  <2> HIDE DEF D
  <2>2. SumFunctionOnSet(t, D) = SumFunctionOnSet(s, D)
    BY <2>1, SumPaired
  <2> QED BY <2>2 DEF D
<1>4. SumFunction(t) = SumFunction(s)
  BY <1>1, <1>3 DEF SumFunction
<1> QED BY <1>4 DEF t
-----------------------------------------------------------------------------
(* A sum from the last absolute value on: an absolute value starts it again, a relative
   one joins it. *)
Stands(val, n, g, A) ==
  \E first \in A \cup {1} :
    (\A k \in A : k <= first) /\ val = SumFunctionOnSet(g, first .. n)

(* An absolute value. *)
LEMMA StandsRestarted ==
  ASSUME NEW n \in Nat, NEW A \in SUBSET (1 .. n), NEW h, h[n + 1] \in Int
  PROVE  Stands(h[n + 1], n + 1, h, A \cup {n + 1})
<1> DEFINE one == n + 1
<1>1. /\ one .. one = {one} /\ {one} \ {one} = {} /\ IsFiniteSet({one})
      /\ \A k \in A \cup {one} : k <= one
  <2>1. IsFiniteSet({one})
    BY FS_Singleton
  <2>2. one .. one = {one} /\ {one} \ {one} = {}
    OBVIOUS
  <2>3. \A k \in A \cup {one} : k <= one
    OBVIOUS
  <2> QED BY <2>1, <2>2, <2>3
<1>2. h[one] \in Int
  OBVIOUS
<1> HIDE DEF one
<1>3. SumFunctionOnSet(h, {one}) = h[one] + SumFunctionOnSet(h, {one} \ {one})
  BY <1>1, <1>2, SumTake
<1>4. SumFunctionOnSet(h, {one} \ {one}) = 0
  BY <1>1, SumOfNone
<1>5. SumFunctionOnSet(h, one .. one) = h[one]
  BY <1>1, <1>2, <1>3, <1>4
<1>6. Stands(h[one], one, h, A \cup {one})
  BY <1>1, <1>5 DEF Stands
<1> QED BY <1>6 DEF one

(* A relative value. *)
LEMMA StandsMoved ==
  ASSUME NEW n \in Nat, NEW A \in SUBSET (1 .. n), NEW g, NEW h, h[n + 1] \in Int,
         \A k \in 1 .. n : g[k] \in Int /\ h[k] = g[k],
         NEW val, Stands(val, n, g, A)
  PROVE  Stands(val + h[n + 1], n + 1, h, A)
<1>1. PICK first \in A \cup {1} :
        (\A k \in A : k <= first) /\ val = SumFunctionOnSet(g, first .. n)
  BY DEF Stands
<1>2. first \in Int /\ 1 <= first /\ first <= n + 1
  OBVIOUS
<1>3. \A k \in first .. n : g[k] \in Int /\ h[k] = g[k]
  BY <1>2
<1>4. SumFunctionOnSet(h, first .. (n + 1)) = SumFunctionOnSet(g, first .. n) + h[n + 1]
  BY <1>2, <1>3, SumNext
<1> QED BY <1>1, <1>4 DEF Stands

(* How far the readings r rose: up to each peak, from 0 but the first time. *)
PeaksOf(r) == {k \in DOMAIN r : k = Len(r) \/ r[k + 1] < r[k]}
RiseOf(r)  == SumFunctionOnSet(r, PeaksOf(r)) - r[1]

(* A lower reading is a peak of its own, another one raises the last peak. *)
LEMMA RiseNext ==
  ASSUME NEW r \in Seq(Int), NEW x \in Int, r # <<>>
  PROVE  /\ RiseOf(r) \in Int
         /\ RiseOf(Append(r, x)) = RiseOf(r) + (IF x < r[Len(r)] THEN x ELSE x - r[Len(r)])
<1> DEFINE n == Len(r)
           t == Append(r, x)
           P == PeaksOf(r)
           Q == P \ {n}
<1>1. /\ n \in Nat \ {0} /\ DOMAIN r = 1 .. n /\ DOMAIN t = 1 .. (n + 1) /\ Len(t) = n + 1
      /\ t[n + 1] = x /\ \A k \in 1 .. n : r[k] \in Int /\ t[k] = r[k]
  OBVIOUS
<1>2. /\ P \in SUBSET (1 .. n) /\ n \in P /\ IsFiniteSet(P) /\ IsFiniteSet(Q)
      /\ n + 1 \notin P /\ n + 1 \notin Q
  <2>1. P \in SUBSET (1 .. n) /\ n \in P
    BY <1>1 DEF PeaksOf
  <2>2. IsFiniteSet(1 .. n)
    BY <1>1, FS_Interval
  <2>3. IsFiniteSet(P) /\ IsFiniteSet(Q)
    BY <2>1, <2>2, FS_Subset
  <2>4. n + 1 \notin P
    BY <1>1, <2>1
  <2> QED BY <2>1, <2>3, <2>4
<1>3. PeaksOf(t) = IF x < r[n] THEN P \cup {n + 1} ELSE Q \cup {n + 1}
  <2> HIDE DEF t, n
  <2> QED BY <1>1 DEF PeaksOf
<1>4. r[1] \in Int /\ t[1] = r[1] /\ r[n] \in Int
  BY <1>1
<1>5. /\ \A k \in P : r[k] \in Int /\ t[k] = r[k]
      /\ \A k \in Q : r[k] \in Int /\ t[k] = r[k]
  BY Zenon, <1>1, <1>2
<1> HIDE DEF t, n, P, Q
<1>6. SumFunctionOnSet(r, P) \in Int /\ SumFunctionOnSet(r, Q) \in Int
  BY <1>2, <1>5, SumType
<1>7. SumFunctionOnSet(r, P) = r[n] + SumFunctionOnSet(r, Q)
  BY <1>2, <1>5, SumTake DEF Q
<1>8. /\ SumFunctionOnSet(t, P \cup {n + 1}) = SumFunctionOnSet(r, P) + x
      /\ SumFunctionOnSet(t, Q \cup {n + 1}) = SumFunctionOnSet(r, Q) + x
  <2> DEFINE y == n + 1
             PP == P \cup {y}
             QQ == Q \cup {y}
  <2>0. t[y] = x
    BY <1>1
  <2>1. /\ t[y] \in Int /\ y \notin P /\ y \notin Q
        /\ y \in PP /\ PP \ {y} = P /\ y \in QQ /\ QQ \ {y} = Q
    BY <1>1, <1>2
  <2> HIDE DEF y, PP, QQ
  <2>2. SumFunctionOnSet(t, PP) = SumFunctionOnSet(r, P) + t[y]
    <3>1. IsFiniteSet(P) /\ \A k \in P : r[k] \in Int /\ t[k] = r[k]
      BY <1>2, <1>5
    <3> QED BY ONLY <2>1, <3>1, SumAdd
  <2>3. SumFunctionOnSet(t, QQ) = SumFunctionOnSet(r, Q) + t[y]
    <3>1. IsFiniteSet(Q) /\ \A k \in Q : r[k] \in Int /\ t[k] = r[k]
      BY <1>2, <1>5
    <3> QED BY ONLY <2>1, <3>1, SumAdd
  <2> QED BY <2>0, <2>2, <2>3 DEF y, PP, QQ
<1>9. RiseOf(r) = SumFunctionOnSet(r, P) - r[1] /\ RiseOf(r) \in Int
  BY <1>4, <1>6 DEF RiseOf, P
<1>10. RiseOf(t) = RiseOf(r) + (IF x < r[n] THEN x ELSE x - r[n])
  BY <1>3, <1>4, <1>6, <1>7, <1>8, <1>9 DEF RiseOf
<1> QED BY <1>9, <1>10 DEF t, n

(* A single reading rises by nothing. *)
LEMMA RiseFirst ==
  ASSUME NEW x \in Int PROVE RiseOf(Append(<<>>, x)) = 0
<1> DEFINE t == Append(<<>>, x)
<1>1. DOMAIN t = {1} /\ Len(t) = 1 /\ t[1] = x /\ IsFiniteSet({1}) /\ {1} \ {1} = {}
  BY FS_Singleton
<1> HIDE DEF t
<1>2. PeaksOf(t) = {1}
  BY <1>1 DEF PeaksOf
<1>3. SumFunctionOnSet(t, {1}) = t[1] + SumFunctionOnSet(t, {1} \ {1})
  BY <1>1, SumTake
<1>4. SumFunctionOnSet(t, {1} \ {1}) = 0
  BY <1>1, SumOfNone
<1>5. RiseOf(t) = 0
  BY <1>1, <1>2, <1>3, <1>4 DEF RiseOf
<1> QED BY <1>5 DEF t

(* What a counter that last read prev and added up total knows of its readings r. *)
Tracks(total, prev, r) ==
  /\ r = <<>> => prev = 0 /\ total = 0
  /\ r # <<>> => /\ prev = r[Len(r)]
                 /\ (\A n \in DOMAIN r : r[n] >= 0) => total <= RiseOf(r)
                 /\ (\A n \in DOMAIN r : r[n] > 0)  => total = RiseOf(r)

(* A reading x, and the increase inc that counter__record takes it for. *)
LEMMA TracksNext ==
  ASSUME NEW r \in Seq(Int), NEW x \in Int, NEW total \in Int, NEW prev \in Int, NEW inc \in Int,
         Tracks(total, prev, r),
         prev <= 0 => inc = 0,
         prev > 0 /\ x >= prev => inc = x - prev,
         prev > 0 /\ x < prev => inc = x
  PROVE  Tracks(total + inc, x, Append(r, x))
<1> DEFINE n == Len(r)
           t == Append(r, x)
<1>1. /\ n \in Nat /\ DOMAIN r = 1 .. n /\ DOMAIN t = 1 .. (n + 1) /\ Len(t) = n + 1 /\ t # <<>>
      /\ t[n + 1] = x /\ \A k \in 1 .. n : r[k] \in Int /\ t[k] = r[k]
  OBVIOUS
<1>2. CASE r = <<>>
  <2>1. total + inc = 0 /\ RiseOf(t) = 0
    BY <1>2, RiseFirst DEF Tracks
  <2>2. Tracks(total + inc, x, t)
    <3> HIDE DEF t
    <3> QED BY <1>1, <1>2, <2>1 DEF Tracks
  <2> QED BY <2>2
<1>3. CASE r # <<>>
  <2> DEFINE rise == RiseOf(r)
             up == IF x < prev THEN x ELSE x - prev
  <2>1. prev = r[n] /\ n \in 1 .. n
    BY <1>1, <1>3 DEF Tracks
  <2>2. rise \in Int /\ RiseOf(t) = rise + up
    BY <1>3, <2>1, RiseNext
  <2>3. ASSUME \A k \in DOMAIN t : t[k] >= 0 PROVE total + inc <= rise + up
    <3>1. x >= 0 /\ prev >= 0 /\ \A k \in DOMAIN r : r[k] >= 0
      BY <1>1, <2>1, <2>3
    <3>2. total <= rise
      BY <1>3, <3>1 DEF Tracks
    <3> HIDE DEF rise
    <3> QED BY <2>2, <3>1, <3>2
  <2>4. ASSUME \A k \in DOMAIN t : t[k] > 0 PROVE total + inc = rise + up
    <3>1. x > 0 /\ prev > 0 /\ \A k \in DOMAIN r : r[k] > 0
      BY <1>1, <2>1, <2>4
    <3>2. total = rise
      BY <1>3, <3>1 DEF Tracks
    <3> HIDE DEF rise
    <3> QED BY <2>2, <3>1, <3>2
  <2>5. Tracks(total + inc, x, t)
    <3> HIDE DEF t, rise, up
    <3> QED BY <1>1, <2>2, <2>3, <2>4 DEF Tracks
  <2> QED BY <2>5
<1> QED BY <1>2, <1>3
-----------------------------------------------------------------------------
(* The array is full or has the size of a reallocation. *)
HInv == values \in Seq(Value) /\ alloc \in Nat /\ InBounds

LEMMA GrownFacts ==
  ASSUME NEW a \in Nat, a < USHRT_MAX
  PROVE Grown(a) \in Nat /\ a < Grown(a) /\ Grown(a) <= USHRT_MAX
BY HistogramAssumption DEF Grown, Greater, Lesser

LEMMA PushInBounds ==
  ASSUME HInv, NEW v \in Value, NEW f \in Freq, HistoPush(v, f) PROVE HInv'
<1>1. CASE UNCHANGED <<values, alloc>>
  BY <1>1 DEF HInv, InBounds, size
<1>2. CASE /\ ~Full /\ values' = Append(values, v)
           /\ alloc' = IF size = alloc THEN Grown(alloc) ELSE alloc
  <2>1. values' \in Seq(Value) /\ size' = size + 1 /\ size \in Nat
    BY <1>2 DEF HInv, size
  <2>2. alloc' \in Nat /\ size + 1 <= alloc' /\ alloc' <= USHRT_MAX
    <3>1. CASE size = alloc
      BY <1>2, <2>1, <3>1, GrownFacts, HistogramAssumption DEF HInv, InBounds, Full
    <3>2. CASE size # alloc
      BY <1>2, <2>1, <3>2 DEF HInv, InBounds
    <3> QED
      BY <3>1, <3>2
  <2> QED
    BY <2>1, <2>2 DEF HInv, InBounds
<1> QED
  BY <1>1, <1>2 DEF HistoPush

LEMMA SampleInBounds == ASSUME HInv, HistoSample PROVE HInv'
<1>1. alloc' = alloc /\ (values' = values \/ values' = <<>>)
  BY DEF HistoSample
<1>2. CASE values' = values
  BY <1>1, <1>2 DEF HInv, InBounds, size
<1>3. CASE values' = <<>>
  <2>1. values' \in Seq(Value) /\ Len(values') = 0
    BY <1>3
  <2>3. alloc' \in Nat /\ 0 <= alloc' /\ alloc' <= USHRT_MAX
    BY <1>1 DEF HInv, InBounds
  <2> QED
    BY <2>1, <2>3 DEF HInv, InBounds, size
<1> QED
  BY <1>1, <1>2, <1>3

(* brubeck_histo_push never writes outside of the array it reallocates, and
   neither size nor alloc overflows its uint16_t. *)
THEOREM HistogramInBounds == Spec => []InBounds
<1>1. Init => HInv
  BY HistogramAssumption DEF Init, HInv, InBounds, size
<1>2. HInv /\ [Next]_vars => HInv'
  <2>1. HInv /\ UNCHANGED vars => HInv'
    BY DEF HInv, InBounds, size, vars
  <2> QED
    BY <2>1, PushInBounds, SampleInBounds DEF Next
<1>3. HInv => InBounds
  BY DEF HInv
<1> QED
  BY <1>1, <1>2, <1>3, PTL DEF Spec

-----------------------------------------------------------------------------
(* The count of a push, in whole units. *)
LEMMA Quotient ==
  ASSUME NEW u \in Nat \ {0}, NEW x \in Nat
  PROVE (x \div u) \in Nat /\ (x \div u) * u <= x /\ x <= (x \div u) * u + (u - 1)
OBVIOUS

LEMMA CountedPositive ==
  ASSUME NEW f \in Freq, count \in Nat PROVE Counted(f) \in Nat /\ Counted(f) > 0
<1> DEFINE x == count * Unit + f
<1>1. x \in Nat /\ x >= Unit
  <2>1. count * Unit \in Nat /\ f \in Nat /\ f >= Unit /\ Unit \in Nat
    BY HistogramAssumption
  <2> QED
    BY <2>1
<1> HIDE DEF x
<1>2. x \div Unit \in Nat /\ x <= (x \div Unit) * Unit + (Unit - 1)
  BY <1>1, Quotient, HistogramAssumption
<1>3. x \div Unit # 0
  BY <1>1, <1>2, HistogramAssumption
<1> QED
  BY <1>2, <1>3 DEF x, Counted

(* One push adds its frequency to the weight, and less than one unit to what the
   conversions have dropped. *)
LEMMA CountedBounds ==
  ASSUME NEW f \in Nat, count \in Nat, reported \in Nat, weight \in Nat, pushes \in Nat, CountAccounted
  PROVE /\ (reported + Counted(f)) * Unit <= weight + f
        /\ weight + f <= (reported + Counted(f)) * Unit + (pushes + 1) * (Unit - 1)
<1> DEFINE x == count * Unit + f
           n == x \div Unit
           rU == reported * Unit
           cU == count * Unit
           pU == pushes * (Unit - 1)
<1>u. Unit \in Nat \ {0}
  BY HistogramAssumption
<1>1. cU \in Nat /\ rU \in Nat /\ pU \in Nat /\ x \in Nat
  BY <1>u
<1>2. (reported + count) * Unit = rU + cU
  BY <1>u
<1>3. rU + cU <= weight /\ weight <= rU + cU + pU
  BY <1>2 DEF CountAccounted
<1>4. x = cU + f
  OBVIOUS
<1> HIDE DEF x
<1>5. n \in Nat /\ n * Unit <= x /\ x <= n * Unit + (Unit - 1)
  BY <1>u, <1>1, Quotient
<1> HIDE DEF n
<1>6. (reported + n) * Unit = rU + n * Unit /\ (pushes + 1) * (Unit - 1) = pU + (Unit - 1)
  BY <1>u, <1>5
<1> DEFINE nU == n * Unit
<1>7. nU \in Nat /\ nU <= x /\ x <= nU + (Unit - 1)
  BY <1>u, <1>5
<1> HIDE DEF rU, cU, pU, nU
<1>8. rU + nU <= weight + f /\ weight + f <= rU + nU + (pU + (Unit - 1))
  BY <1>u, <1>1, <1>3, <1>4, <1>7
<1> QED
  BY <1>6, <1>8 DEF nU, n, x, rU, pU, Counted

CountInv ==
  /\ values \in Seq(Value) /\ count \in Nat /\ reported \in Nat /\ weight \in Nat /\ pushes \in Nat
  /\ EmptyIffZero /\ CountAccounted

LEMMA PushCounts ==
  ASSUME HInv, CountInv, NEW v \in Value, NEW f \in Freq, HistoPush(v, f) PROVE CountInv'
<1>1. /\ count' = Counted(f) /\ pushes' = pushes + 1 /\ weight' = weight + f /\ reported' = reported
      /\ f \in Nat
  BY HistogramAssumption DEF HistoPush
<1>2. Counted(f) \in Nat /\ Counted(f) > 0
  BY CountedPositive DEF CountInv
<1>3. CountAccounted'
  <2>1. /\ (reported + Counted(f)) * Unit <= weight + f
        /\ weight + f <= (reported + Counted(f)) * Unit + (pushes + 1) * (Unit - 1)
    BY <1>1, CountedBounds DEF CountInv
  <2> QED
    BY <1>1, <2>1 DEF CountAccounted
<1>4. values' \in Seq(Value) /\ size' # 0
  <2>1. CASE Full /\ UNCHANGED values
    BY <2>1, HistogramAssumption DEF CountInv, Full, size
  <2>2. CASE values' = Append(values, v)
    <3>1. Len(values') = Len(values) + 1 /\ Len(values) \in Nat /\ values' \in Seq(Value)
      BY <2>2 DEF CountInv
    <3> QED
      BY <3>1 DEF size
  <2> QED
    BY <2>1, <2>2 DEF HistoPush
<1>5. EmptyIffZero'
  BY <1>1, <1>2, <1>4 DEF EmptyIffZero
<1>6. count' \in Nat /\ reported' \in Nat /\ weight' \in Nat /\ pushes' \in Nat
  BY <1>1, <1>2 DEF CountInv
<1> QED
  BY <1>3, <1>4, <1>5, <1>6 DEF CountInv

LEMMA SampleCounts == ASSUME CountInv, HistoSample PROVE CountInv'
<1>1. /\ UNCHANGED <<pushes, weight>>
      /\ \/ UNCHANGED <<values, count>> /\ reported' = reported + 0
         \/ values' = <<>> /\ count' = 0 /\ reported' = reported + count
  <2>1. UNCHANGED <<pushes, weight>> /\ reported' = reported + sample'.count
    BY DEF HistoSample
  <2>2. CASE /\ sample' = [count |-> 0, keys |-> ReportedKeys(0)]
             /\ UNCHANGED <<values, count>>
    BY <2>1, <2>2
  <2>3. ASSUME NEW a, NEW b, NEW c, NEW d, NEW e, values' = <<>>, count' = CountReset,
               sample' = [count |-> count, keys |-> a, min |-> b, max |-> c, sum |-> d,
                          percentile |-> e]
        PROVE values' = <<>> /\ count' = 0 /\ reported' = reported + count
    <3>1. sample'.count = count
      BY <2>3
    <3> QED
      BY <2>1, <2>3, <3>1 DEF CountReset
  <2> QED
    BY <2>1, <2>2, <2>3 DEF HistoSample
<1>2. CASE UNCHANGED <<values, count>> /\ reported' = reported + 0
  <2>1. reported' = reported
    BY <1>2 DEF CountInv
  <2> QED
    BY <1>1, <1>2, <2>1 DEF CountInv, EmptyIffZero, CountAccounted, size
<1>3. CASE values' = <<>> /\ count' = 0 /\ reported' = reported + count
  <2>1. reported' + count' = reported + count /\ reported' \in Nat
    BY <1>3 DEF CountInv
  <2>2. CountAccounted'
    BY <1>1, <2>1 DEF CountInv, CountAccounted
  <2>3. values' \in Seq(Value) /\ Len(values') = 0
    BY <1>3
  <2>4. EmptyIffZero'
    BY <1>3, <2>3 DEF EmptyIffZero, size
  <2> QED
    BY <1>1, <1>3, <2>1, <2>2, <2>3, <2>4 DEF CountInv
<1> QED
  BY <1>1, <1>2, <1>3

(* The two invariants of the count. *)
LEMMA CountsInv == Spec => []EmptyIffZero /\ []CountAccounted
<1>1. Init => HInv /\ CountInv
  <2>1. Init => HInv
    BY HistogramAssumption DEF Init, HInv, InBounds, size
  <2>2. ASSUME Init PROVE CountInv
    <3>1. /\ values = <<>> /\ count = 0 /\ reported = 0 /\ weight = 0 /\ pushes = 0
      BY <2>2 DEF Init
    <3>2. (0 + 0) * Unit = 0 /\ 0 * (Unit - 1) = 0
      BY HistogramAssumption
    <3> QED
      BY <3>1, <3>2 DEF CountInv, EmptyIffZero, CountAccounted, size
  <2> QED
    BY <2>1, <2>2
<1>2. HInv /\ CountInv /\ [Next]_vars => HInv' /\ CountInv'
  <2>1. HInv /\ CountInv /\ UNCHANGED vars => HInv' /\ CountInv'
    BY DEF HInv, CountInv, InBounds, EmptyIffZero, CountAccounted, size, vars
  <2> QED
    BY <2>1, PushInBounds, SampleInBounds, PushCounts, SampleCounts DEF Next
<1>3. CountInv => EmptyIffZero /\ CountAccounted
  BY DEF CountInv
<1> QED
  BY <1>1, <1>2, <1>3, PTL DEF Spec

(* The two emptiness tests of the sampling code agree, for every limit and every sample
   rate and also beyond the limit: no value goes unreported. *)
THEOREM EmptinessAgrees == Spec => []EmptyIffZero
BY CountsInv, PTL

(* The counts reported never exceed what was pushed, and fall short of it by less than
   one per push. *)
THEOREM CountsCorrect == Spec => []CountAccounted
BY CountsInv, PTL
-----------------------------------------------------------------------------
(* The unit in the last place of a float: 1 below 2^24, and then a power of 2 of which
   x has between 2^23 and 2^24. *)
LEMMA UlpFacts ==
  ASSUME NEW x \in Nat, x < 65536 * One
  PROVE  /\ Ulp(x) \in Nat \ {0} /\ (x < One => Ulp(x) = 1)
         /\ One <= x => 2 <= Ulp(x) /\ One <= 2 * (x \div Ulp(x))
<1>1. CASE x < One
  BY SMT, <1>1 DEF Ulp, One
<1>2. CASE One <= x
  <2> DEFINE Right(u) == One <= 2 * (x \div u) /\ x \div u < One
  <2>1. ASSUME x < 4294967296 PROVE \E u \in Ulps : Right(u)
    <3>1. Right(2) \/ Right(4) \/ Right(8) \/ Right(16) \/ Right(32) \/ Right(64) \/ Right(128) \/ Right(256)
      BY SMT, <1>2, <2>1 DEF One
    <3> HIDE DEF Right
    <3> QED BY SMT, <3>1 DEF Ulps
  <2>2. ASSUME 4294967296 <= x PROVE \E u \in Ulps : Right(u)
    <3>1. \/ Right(512) \/ Right(1024) \/ Right(2048) \/ Right(4096)
          \/ Right(8192) \/ Right(16384) \/ Right(32768) \/ Right(65536)
      BY SMT, <2>2 DEF One
    <3> HIDE DEF Right
    <3> QED BY SMT, <3>1 DEF Ulps
  <2>3. \E u \in Ulps : Right(u)
    BY SMT, <2>1, <2>2
  <2>4. Ulp(x) = CHOOSE u \in Ulps : Right(u)
    BY SMT, <1>2 DEF Ulp, One
  <2>5. Ulp(x) \in Ulps /\ Right(Ulp(x))
    BY SMT, <2>3, <2>4
  <2>6. \A u \in Ulps : u \in Nat /\ 2 <= u
    BY SMT DEF Ulps
  <2> QED BY SMT, <1>2, <2>5, <2>6 DEF One
<1> QED BY SMT, <1>1, <1>2 DEF One

(* A float differs from the number it is rounded from by at most that number's
   2^-24th part, and rounding never crosses 1. *)
LEMMA FloatFacts ==
  ASSUME NEW x \in Nat, x < 65536 * One
  PROVE  /\ ToFloat(x) \in Nat
         /\ One * (ToFloat(x) - x) <= x /\ One * (x - ToFloat(x)) <= x
         /\ One <= x => One <= ToFloat(x)
<1> DEFINE u == Ulp(x)
           q == x \div u
           r == x % u
           y == ToFloat(x)
<1>1. u \in Nat \ {0} /\ (x < One => u = 1) /\ (One <= x => 2 <= u /\ One <= 2 * q)
  BY SMT, UlpFacts
<1>2. /\ q \in Nat /\ r \in Nat /\ r < u /\ x = u * q + r
  <2>1. u \in Nat \ {0}
    BY SMT, <1>1
  <2> HIDE DEF u
  <2> QED BY <2>1, DivMod
<1>3. \/ y = u * (q + 1) /\ 2 * r >= u
      \/ y = u * q /\ 2 * r <= u
  <2>1. y = u * (IF 2 * r > u \/ (2 * r = u /\ q % 2 = 1) THEN q + 1 ELSE q)
    BY SMT DEF ToFloat
  <2> HIDE DEF y, q, r, u
  <2> QED BY SMT, <1>1, <1>2, <2>1
<1> HIDE DEF y, q, r, u
<1>4. CASE x < One
  <2>1. u = 1 /\ r = 0
    BY SMT, <1>1, <1>2, <1>4
  <2> QED BY SMT, <1>2, <1>3, <1>4, <2>1 DEF y, One
<1>5. CASE One <= x
  <2> DEFINE p == u * q
  <2>1. PICK k \in Nat : u = 2 + k
    <3>1. u - 2 \in Nat /\ u = 2 + (u - 2)
      BY SMT, <1>1, <1>5
    <3> QED BY SMT, <3>1
  <2>2. PICK j \in Nat : 2 * q = One + j
    <3>1. 2 * q - One \in Nat /\ 2 * q = One + (2 * q - One)
      BY SMT, <1>1, <1>2, <1>5 DEF One
    <3> QED BY SMT, <3>1
  <2>3. p \in Nat /\ u * (q + 1) = p + u /\ One * u <= 2 * p /\ One <= p
    <3>1. p \in Nat /\ u * (q + 1) = p + u
      BY SMT, <1>1, <1>2
    <3>2. 2 * p = u * (2 * q) /\ u * (2 * q) = u * One + u * j /\ u * j \in Nat
      BY SMT, <1>1, <1>2, <2>2 DEF One
    <3>3. p = 2 * q + k * q /\ k * q \in Nat
      BY SMT, <1>2, <2>1
    <3> QED BY SMT, <1>1, <1>2, <2>2, <3>1, <3>2, <3>3 DEF One
  <2> HIDE DEF p
  <2>4. x = p + r
    BY SMT, <1>2 DEF p
  <2>5. \/ y = p + u /\ 2 * r >= u
        \/ y = p /\ 2 * r <= u
    BY SMT, <1>3, <2>3 DEF p
  <2> QED BY SMT, <1>1, <1>2, <2>3, <2>4, <2>5 DEF y, One
<1> QED BY SMT, <1>4, <1>5 DEF One

(* The six ranks as floats. *)
LEMMA SixRanks ==
  /\ FloatRank(500) = 8388608 /\ FloatRank(750) = 12582912 /\ FloatRank(950) = 15938355
  /\ FloatRank(980) = 16441672 /\ FloatRank(990) = 16609444 /\ FloatRank(999) = 16760439
BY SMT DEF FloatRank

(* What histo_percentile computes for n values and a rank m, in units of 2^-24. *)
LEMMA ProductFacts ==
  ASSUME NEW n \in Nat \ {0}, n < Word16, NEW m \in Nat, 8388608 <= m, m <= 16760439
  PROVE  LET y == ToFloat(ToFloat(m * n) + One \div 2) IN
         /\ y \in Nat /\ One <= y
         /\ y <= m * n + 8388608 + 2 * n /\ m * n + 8388608 <= y + 2 * n
<1> DEFINE x == m * n
           a == ToFloat(x)
           b == a + One \div 2
           y == ToFloat(b)
<1>1. x \in Nat /\ 8388608 * n <= x /\ x <= 16760439 * n /\ x < 65536 * One
  <2>1. PICK i \in Nat, j \in Nat : m = 8388608 + i /\ 16760439 = m + j
    <3>1. m - 8388608 \in Nat /\ 16760439 - m \in Nat
      BY SMT
    <3> QED BY SMT, <3>1
  <2>2. x = 8388608 * n + i * n /\ i * n \in Nat /\ 16760439 * n = x + j * n /\ j * n \in Nat
    BY SMT, <2>1
  <2> QED BY SMT, <2>2 DEF One, Word16
<1> HIDE DEF x
<1>2. /\ a \in Nat /\ One * (a - x) <= x /\ One * (x - a) <= x
      /\ One <= x => One <= a
  BY SMT, <1>1, FloatFacts
<1> HIDE DEF a
<1>3. a <= x + n /\ x <= a + n
  BY SMT, <1>1, <1>2 DEF One
<1>4. b \in Nat /\ b = a + 8388608 /\ b < 65536 * One
  BY SMT, <1>1, <1>2, <1>3 DEF One, Word16
<1> HIDE DEF b
<1>5. /\ y \in Nat /\ One * (y - b) <= b /\ One * (b - y) <= b
      /\ One <= b => One <= y
  BY SMT, <1>4, FloatFacts
<1> HIDE DEF y
<1>6. y <= b + n /\ b <= y + n
  BY SMT, <1>1, <1>2, <1>3, <1>4, <1>5 DEF One
<1>7. One <= b
  <2>1. CASE n = 1
    BY SMT, <2>1, <1>1, <1>2, <1>4 DEF One
  <2>2. CASE n # 1
    BY SMT, <2>2, <1>1, <1>2, <1>4 DEF One
  <2> QED BY SMT, <2>1, <2>2
<1>8. /\ y \in Nat /\ One <= y
      /\ y <= x + 8388608 + 2 * n /\ x + 8388608 <= y + 2 * n
  BY SMT, <1>1, <1>2, <1>3, <1>4, <1>5, <1>6, <1>7
<1> QED BY SMT, <1>8 DEF y, b, a, x

(* The index is the rounded product of m/2^24 and n, up to 2n units of 2^-24. *)
Near(mille, m, n) ==
  /\ Rank(mille, n) \in Nat \ {0}
  /\ 16777216 * Rank(mille, n) <= m * n + 8388608 + 2 * n
  /\ m * n + 8388608 < 16777216 * Rank(mille, n) + 16777216 + 2 * n

LEMMA RankNear ==
  ASSUME NEW n \in Nat \ {0}, n < Word16, NEW mille,
         FloatRank(mille) \in Nat, 8388608 <= FloatRank(mille), FloatRank(mille) <= 16760439
  PROVE  Near(mille, FloatRank(mille), n)
<1> DEFINE m == FloatRank(mille)
           y == ToFloat(ToFloat(m * n) + One \div 2)
<1>1. /\ y \in Nat /\ One <= y
      /\ y <= m * n + 8388608 + 2 * n /\ m * n + 8388608 <= y + 2 * n
  BY SMT, ProductFacts
<1>2. Rank(mille, n) = y \div One
  BY SMT DEF Rank
<1> HIDE DEF y, m
<1>3. /\ Rank(mille, n) \in Nat \ {0} /\ 16777216 * Rank(mille, n) <= y
      /\ y < 16777216 * Rank(mille, n) + 16777216
  BY SMT, <1>1, <1>2 DEF One
<1>4. m * n \in Nat
  BY SMT DEF m
<1> QED BY SMT, <1>1, <1>3, <1>4 DEF Near, m

LEMMA SixNear ==
  ASSUME NEW n \in Nat \ {0}, n < Word16
  PROVE  /\ Near(500, 8388608, n) /\ Near(750, 12582912, n) /\ Near(950, 15938355, n)
         /\ Near(980, 16441672, n) /\ Near(990, 16609444, n) /\ Near(999, 16760439, n)
<1>1. Near(500, 8388608, n)
  BY SMT, SixRanks, RankNear
<1>2. Near(750, 12582912, n)
  BY SMT, SixRanks, RankNear
<1>3. Near(950, 15938355, n)
  BY SMT, SixRanks, RankNear
<1>4. Near(980, 16441672, n)
  BY SMT, SixRanks, RankNear
<1>5. Near(990, 16609444, n)
  BY SMT, SixRanks, RankNear
<1>6. Near(999, 16760439, n)
  BY SMT, SixRanks, RankNear
<1> QED BY <1>1, <1>2, <1>3, <1>4, <1>5, <1>6

(* histo_percentile reads values[irank - 1]: for every number of values that fits 16
   bits and each of the six ranks that brubeck_histo_sample asks for, that is one of
   them, and a higher rank never reads a lower position, whatever the float arithmetic
   rounds away. *)
THEOREM RankInRange ==
  ASSUME NEW n \in Nat, n > 0, n < Word16
  PROVE /\ 1 <= Rank(500, n) /\ Rank(500, n) <= Rank(750, n) /\ Rank(750, n) <= Rank(950, n)
        /\ Rank(950, n) <= Rank(980, n) /\ Rank(980, n) <= Rank(990, n)
        /\ Rank(990, n) <= Rank(999, n) /\ Rank(999, n) <= n
<1>1. /\ Near(500, 8388608, n) /\ Near(750, 12582912, n) /\ Near(950, 15938355, n)
      /\ Near(980, 16441672, n) /\ Near(990, 16609444, n) /\ Near(999, 16760439, n)
  BY SMT, SixNear
<1>3. 1 <= Rank(500, n) /\ Rank(500, n) <= Rank(750, n)
  BY SMT, <1>1 DEF Near
<1>4. Rank(750, n) <= Rank(950, n) /\ Rank(950, n) <= Rank(980, n)
  BY SMT, <1>1 DEF Near
<1>5. Rank(980, n) <= Rank(990, n) /\ Rank(990, n) <= Rank(999, n)
  BY SMT, <1>1 DEF Near
<1>6. Rank(999, n) <= n
  BY SMT, <1>1 DEF Near
<1> QED
  BY SMT, <1>3, <1>4, <1>5, <1>6
-----------------------------------------------------------------------------
(* The array holds the values pushed since the last sample, up to the limit. *)
KeptInv ==
  /\ recent \in Seq(Value) /\ size = Lesser(Len(recent), USHRT_MAX)
  /\ \A i \in 1 .. size : values[i] = recent[i]

LEMMA PushKept ==
  ASSUME HInv, KeptInv, NEW v \in Value, NEW f \in Freq, HistoPush(v, f) PROVE KeptInv'
<1> DEFINE n == Len(values)
           m == Len(recent)
<1>1. /\ values \in Seq(Value) /\ recent \in Seq(Value) /\ n \in Nat /\ m \in Nat
      /\ n = (IF m <= USHRT_MAX THEN m ELSE USHRT_MAX) /\ n <= alloc /\ alloc <= USHRT_MAX
      /\ alloc \in Nat /\ USHRT_MAX \in Nat /\ \A i \in 1 .. n : values[i] = recent[i]
  BY HistogramAssumption DEF HInv, KeptInv, InBounds, size, Lesser
<1>2. recent' = Append(recent, v)
  BY DEF HistoPush
<1>3. /\ recent' \in Seq(Value) /\ Len(recent') = m + 1 /\ recent'[m + 1] = v
      /\ \A i \in 1 .. m : recent'[i] = recent[i]
  BY <1>1, <1>2
<1>4. CASE Full /\ values' = values
  <2>1. n = USHRT_MAX
    BY <1>4 DEF Full, size
  <2>2. Len(values') = n /\ \A i \in 1 .. n : values'[i] = recent'[i]
    BY <1>1, <1>3, <1>4
  <2> QED BY <1>1, <1>3, <2>1, <2>2 DEF KeptInv, size, Lesser
<1>5. CASE ~Full /\ values' = Append(values, v)
  <2>1. n < USHRT_MAX /\ n = m
    BY <1>1, <1>5 DEF Full, size
  <2>2. Len(values') = n + 1 /\ values'[n + 1] = v /\ \A i \in 1 .. n : values'[i] = values[i]
    BY <1>1, <1>5
  <2>3. \A i \in 1 .. (n + 1) : values'[i] = recent'[i]
    <3>1. values'[n + 1] = recent'[n + 1]
      BY <1>3, <2>1, <2>2
    <3>2. \A i \in 1 .. n : values'[i] = recent'[i]
      BY <1>1, <1>3, <2>1, <2>2
    <3>3. \A i \in 1 .. (n + 1) : i = n + 1 \/ i \in 1 .. n
      BY <1>1
    <3> QED BY <3>1, <3>2, <3>3
  <2> QED BY <1>1, <1>3, <2>1, <2>2, <2>3 DEF KeptInv, size, Lesser
<1> QED BY <1>4, <1>5 DEF HistoPush

LEMMA SampleKept == ASSUME HInv, KeptInv, HistoSample PROVE KeptInv'
<1>1. recent' = <<>> /\ Len(values') = 0
  <2>1. CASE size = 0 /\ values' = values
    BY <2>1 DEF HistoSample, size
  <2>2. CASE values' = <<>>
    BY <2>2 DEF HistoSample
  <2> QED BY <2>1, <2>2 DEF HistoSample
<1> QED BY <1>1, HistogramAssumption DEF KeptInv, size, Lesser

(* q is a position of n, and the nearest one to mille/1000 of them up to a hundredth. *)
Rounds(q, mille, n) ==
  /\ q \in 1 .. n
  /\ 1000 * (q - 1) + 500 <= mille * n + 10 /\ mille * n < 1000 * q + 510

(* The six ranks are rounded to a position in range. *)
LEMMA RankRounds ==
  ASSUME NEW n \in Nat \ {0}, n < Word16, NEW mille \in {500, 750, 950, 980, 990, 999}
  PROVE  Rounds(Rank(mille, n), mille, n)
<1> USE DEF Rounds
<1>0. n < 65536
  BY SMT DEF Word16
<1>1. CASE mille = 500
  BY SMT, <1>0, <1>1, SixNear DEF Near
<1>2. CASE mille = 750
  BY SMT, <1>0, <1>2, SixNear DEF Near
<1>3. CASE mille = 950
  BY SMT, <1>0, <1>3, SixNear DEF Near
<1>4. CASE mille = 980
  BY SMT, <1>0, <1>4, SixNear DEF Near
<1>5. CASE mille = 990
  BY SMT, <1>0, <1>5, SixNear DEF Near
<1>6. CASE mille = 999
  BY SMT, <1>0, <1>6, SixNear DEF Near
<1> QED BY SMT, <1>1, <1>2, <1>3, <1>4, <1>5, <1>6

(* What brubeck_histo_sample reports of the values it holds. *)
LEMMA Summary ==
  ASSUME NEW n \in Nat \ {0}, n < Word16, NEW s, DOMAIN s = 1 .. n, Len(s) = n,
         \A i \in 1 .. n : s[i] \in Nat
  PROVE  /\ Sorted(s)[1] = Min(Range(s)) /\ Sorted(s)[n] = Max(Range(s))
         /\ SumFunction(Sorted(s)) = SumFunction(s)
         /\ \A i \in DOMAIN Permille : NearestRank(s, Percentile(Sorted(s), Permille[i]), Permille[i])
<1> DEFINE t == Sorted(s)
<1>1. /\ DOMAIN t = 1 .. n /\ \A i \in 1 .. n : t[i] \in Nat /\ t[i] \in Range(s)
      /\ InOrder(t) /\ Range(t) = Range(s)
  BY SortedFacts
<1>2. ASSUME NEW i \in 1 .. n, NEW j \in 1 .. n PROVE t[i] <= t[j] \/ j < i
  <2> HIDE DEF t
  <2>1. i < j => t[i] <= t[j]
    BY <1>1 DEF InOrder
  <2>2. i = j => t[i] <= t[j]
    BY <1>1
  <2> QED BY <2>1, <2>2
<1>3. \A v \in Range(s) : v \in Nat /\ \E i \in 1 .. n : t[i] = v
  BY <1>1 DEF Range
<1>4. SumFunction(t) = SumFunction(s)
  BY SortedSum
<1>5. Len(t) = n
  BY <1>1
<1> HIDE DEF t
<1>6. t[1] = Min(Range(s))
  <2>1. t[1] \in Range(s) /\ \A v \in Range(s) : t[1] <= v
    BY <1>1, <1>2, <1>3
  <2>2. \A u \in Range(s) : (\A v \in Range(s) : u <= v) => u = t[1]
    BY <1>3, <2>1
  <2> QED BY <2>1, <2>2 DEF Min
<1>7. t[n] = Max(Range(s))
  <2>1. t[n] \in Range(s) /\ \A v \in Range(s) : t[n] >= v
    BY <1>1, <1>2, <1>3
  <2>2. \A u \in Range(s) : (\A v \in Range(s) : u >= v) => u = t[n]
    BY <1>3, <2>1
  <2> QED BY <2>1, <2>2 DEF Max
<1>8. ASSUME NEW i \in DOMAIN Permille PROVE NearestRank(s, Percentile(t, Permille[i]), Permille[i])
  <2> DEFINE mille == Permille[i]
             q == Rank(mille, n)
  <2>1. mille \in {500, 750, 950, 980, 990, 999}
    <3>1. i \in 1 .. 6
      BY DEF Permille
    <3>2. i = 1 \/ i = 2 \/ i = 3 \/ i = 4 \/ i = 5 \/ i = 6
      BY <3>1
    <3> QED BY <3>2 DEF Permille
  <2>2. /\ q \in 1 .. n
        /\ 1000 * (q - 1) + 500 <= mille * n + 10 /\ mille * n < 1000 * q + 510
    <3>1. Rounds(q, mille, n)
      <4> HIDE DEF mille
      <4> QED BY <2>1, RankRounds
    <3> QED BY <3>1 DEF Rounds
  <2> HIDE DEF q, mille
  <2>3. /\ t[q] \in Range(s) /\ Below(s, t[q]) \in Nat /\ Below(s, t[q]) < q
        /\ AtMost(s, t[q]) \in Nat /\ q <= AtMost(s, t[q])
    BY <2>2, SortedRank DEF t
  <2>4. Percentile(t, mille) = t[q]
    BY <1>1, <1>5, <2>2 DEF Percentile, q
  <2>5. NearestRank(s, t[q], mille)
    <3> DEFINE w == mille * n
               lo == Below(s, t[q])
               hi == AtMost(s, t[q])
    <3>1. /\ w \in Nat /\ 1000 * (q - 1) + 500 <= w + 10 /\ w < 1000 * q + 510
      BY <2>1, <2>2
    <3>2. q \in Nat /\ lo \in Nat /\ lo < q /\ hi \in Nat /\ q <= hi
      BY <2>2, <2>3
    <3> HIDE DEF w, lo, hi
    <3>3. 1000 * lo + 500 <= w + 10 /\ w < 1000 * hi + 500 + 10
      BY <3>1, <3>2
    <3> QED BY <2>3, <3>3 DEF NearestRank, w, lo, hi
  <2> QED BY <2>4, <2>5 DEF mille
<1> QED BY <1>4, <1>6, <1>7, <1>8 DEF t

LEMMA SampleReports ==
  ASSUME HInv, KeptInv, HistoSample, recent # <<>>
  PROVE  LET kept == SubSeq(recent, 1, Lesser(Len(recent), USHRT_MAX)) IN
         /\ sample'.min = Min(Range(kept)) /\ sample'.max = Max(Range(kept))
         /\ sample'.sum = SumFunction(kept)
         /\ \A i \in DOMAIN Permille : NearestRank(kept, sample'.percentile[i], Permille[i])
<1> DEFINE n == Len(values)
           t == Sorted(values)
           reports == [i \in DOMAIN Permille |-> Percentile(t, Permille[i])]
           kept == SubSeq(recent, 1, Lesser(Len(recent), USHRT_MAX))
<1>1. /\ values \in Seq(Value) /\ recent \in Seq(Value) /\ n \in Nat \ {0} /\ n <= Len(recent)
      /\ n = Lesser(Len(recent), USHRT_MAX) /\ \A i \in 1 .. n : values[i] = recent[i]
      /\ n < Word16
  <2>1. Len(recent) \in Nat \ {0} /\ USHRT_MAX \in Nat \ {0} /\ USHRT_MAX < Word16
    BY HistogramAssumption DEF KeptInv
  <2>2. /\ values \in Seq(Value) /\ recent \in Seq(Value) /\ n \in Nat \ {0} /\ n <= Len(recent)
        /\ n = Lesser(Len(recent), USHRT_MAX) /\ \A i \in 1 .. n : values[i] = recent[i]
    BY <2>1 DEF HInv, KeptInv, size, Lesser
  <2>3. n < Word16
    <3> HIDE DEF n
    <3> QED BY SMT, <2>1, <2>2 DEF Lesser, Word16
  <2> QED BY <2>2, <2>3
<1>2. kept = values
  <2>1. kept = [i \in 1 .. n |-> recent[i]]
    BY <1>1
  <2>2. values = [i \in 1 .. n |-> values[i]]
    BY <1>1
  <2> QED BY <1>1, <2>1, <2>2
<1>3. DOMAIN values = 1 .. n /\ \A i \in 1 .. n : values[i] \in Nat
  <2>1. DOMAIN values = 1 .. n /\ \A i \in 1 .. n : values[i] \in Value
    BY <1>1
  <2>2. \A v \in Value : v \in Nat
    BY SMTT(30), HistogramAssumption
  <2> QED BY <2>1, <2>2
<1>4. sample' = [count |-> count, keys |-> ReportedKeys(count), min |-> t[1], max |-> t[n],
                 sum |-> SumFunction(t), percentile |-> reports]
  BY <1>1 DEF HistoSample, size
<1>5. /\ t[1] = Min(Range(values)) /\ t[n] = Max(Range(values))
      /\ SumFunction(t) = SumFunction(values)
      /\ \A i \in DOMAIN Permille : NearestRank(values, Percentile(t, Permille[i]), Permille[i])
  BY <1>1, <1>3, Summary
<1>6. \A i \in DOMAIN Permille : reports[i] = Percentile(t, Permille[i])
  OBVIOUS
<1> HIDE DEF t, n, reports, kept
<1>7. /\ sample'.min = t[1] /\ sample'.max = t[n] /\ sample'.sum = SumFunction(t)
      /\ sample'.percentile = reports
  BY <1>4
<1>8. /\ sample'.min = Min(Range(kept)) /\ sample'.max = Max(Range(kept))
      /\ sample'.sum = SumFunction(kept)
      /\ \A i \in DOMAIN Permille : NearestRank(kept, sample'.percentile[i], Permille[i])
  BY <1>2, <1>5, <1>6, <1>7
<1> QED BY <1>8 DEF kept

(* A sample reports the extremes, the sum and the nearest ranks of the first USHRT_MAX
   values pushed since the last one, for any limit of 16 bits and any number of values. *)
THEOREM SamplesSummarise == Spec => SampleSummarises
<1>1. Init => HInv /\ KeptInv
  <2>1. Init => HInv
    BY HistogramAssumption DEF Init, HInv, InBounds, size
  <2>2. Init => KeptInv
    BY HistogramAssumption DEF Init, KeptInv, size, Lesser
  <2> QED BY <2>1, <2>2
<1>2. HInv /\ KeptInv /\ [Next]_vars => HInv' /\ KeptInv'
  <2>1. HInv /\ KeptInv /\ UNCHANGED vars => HInv' /\ KeptInv'
    BY DEF HInv, KeptInv, InBounds, size, vars
  <2> QED BY <2>1, PushInBounds, SampleInBounds, PushKept, SampleKept DEF Next
<1> DEFINE Summarises ==
      HistoSample /\ recent # <<>> =>
        LET kept == SubSeq(recent, 1, Lesser(Len(recent), USHRT_MAX)) IN
        /\ sample'.min = Min(Range(kept)) /\ sample'.max = Max(Range(kept))
        /\ sample'.sum = SumFunction(kept)
        /\ \A i \in DOMAIN Permille : NearestRank(kept, sample'.percentile[i], Permille[i])
<1>3. HInv /\ KeptInv => Summarises
  BY SampleReports, Zenon
<1>4. Spec => [][Summarises]_vars
  <2> HIDE DEF Summarises
  <2> QED BY <1>1, <1>2, <1>3, PTL DEF Spec
<1> QED BY <1>4 DEF SampleSummarises
-----------------------------------------------------------------------------
(* The sums of module MetricTypes are those of DataLemmas. *)
LEMMA SameSum ==
  ASSUME NEW g, NEW S
  PROVE  Simple!SumFunctionOnSet(g, S) = SumFunctionOnSet(g, S)
BY DEF Simple!SumFunctionOnSet, Simple!FoldFunctionOnSet, Simple!MapThenFoldSet,
       SumFunctionOnSet, FoldFunctionOnSet, MapThenFoldSet

(* What a gauge, a meter or a counter holds and what was recorded for it. *)
Message == [v : Int, f : Int, relative : BOOLEAN]
SimpleType ==
  /\ type \in {"gauge", "meter", "counter", "histogram"}
  /\ value \in Int /\ previous \in Int /\ emitted \in Seq(Int) /\ log \in Seq(Message)

(* The readings of the messages recorded, and their values, are sequences. *)
LEMMA HistoryType ==
  ASSUME SimpleType
  PROVE  /\ Len(log) \in Nat /\ DOMAIN log = 1 .. Len(log)
         /\ Simple!Readings \in Seq(Int) /\ Len(Simple!Readings) = Len(log)
         /\ Simple!Values \in Seq(Int) /\ Len(Simple!Values) = Len(log)
<1>1. /\ Len(log) \in Nat /\ DOMAIN log = 1 .. Len(log)
      /\ \A n \in 1 .. Len(log) : log[n].v \in Int /\ log[n].f \in Int
  <2>1. /\ Len(log) \in Nat /\ DOMAIN log = 1 .. Len(log)
        /\ \A n \in 1 .. Len(log) : log[n] \in Message
    BY DEF SimpleType
  <2>2. \A m \in Message : m.v \in Int /\ m.f \in Int
    BY DEF Message
  <2> QED BY <2>1, <2>2
<1>2. \A n \in 1 .. Len(log) : log[n].v * log[n].f \in Int
  BY <1>1
<1> QED BY <1>1, <1>2 DEF Simple!Readings, Simple!Values

(* A message recorded is the last one. *)
LEMMA Recorded ==
  ASSUME SimpleType, NEW v \in SignedValue, NEW f \in WholeFreq, NEW relative \in BOOLEAN,
         Simple!Logged(v, f, relative)
  PROVE  /\ log' \in Seq(Message) /\ type' = type /\ emitted' = emitted
         /\ Len(log') = Len(log) + 1 /\ DOMAIN log' = 1 .. (Len(log) + 1)
         /\ log'[Len(log) + 1].relative = relative
         /\ \A n \in 1 .. Len(log) : log'[n] = log[n]
         /\ v * f \in Int /\ Simple!Readings' = Append(Simple!Readings, v * f)
         /\ v \in Int /\ Simple!Values' = Append(Simple!Values, v)
<1> DEFINE m == [v |-> v, f |-> f, relative |-> relative]
<1>1. v \in Int /\ f \in Int /\ m \in Message /\ v * f \in Int
  BY MetricAssumption DEF Message
<1>2. log' = Append(log, m) /\ type' = type /\ emitted' = emitted /\ log \in Seq(Message)
  BY DEF Simple!Logged, SimpleType
<1>3. m.v = v /\ m.f = f /\ m.relative = relative
  OBVIOUS
<1> HIDE DEF m
<1>4. /\ Len(log') = Len(log) + 1 /\ DOMAIN log' = 1 .. (Len(log) + 1) /\ log'[Len(log) + 1] = m
      /\ log' \in Seq(Message) /\ \A n \in 1 .. Len(log) : log'[n] = log[n]
  BY <1>1, <1>2
<1>5. Simple!Readings' = Append(Simple!Readings, v * f)
  <2>1. ASSUME NEW n \in 1 .. (Len(log) + 1)
        PROVE  log'[n].v * log'[n].f = Append(Simple!Readings, v * f)[n]
    BY <1>1, <1>3, <1>4, HistoryType DEF Simple!Readings
  <2>2. DOMAIN Append(Simple!Readings, v * f) = 1 .. (Len(log) + 1)
    BY <1>1, HistoryType
  <2> QED BY <1>4, <2>1, <2>2, HistoryType DEF Simple!Readings
<1>6. Simple!Values' = Append(Simple!Values, v)
  <2>1. ASSUME NEW n \in 1 .. (Len(log) + 1)
        PROVE  log'[n].v = Append(Simple!Values, v)[n]
    BY <1>1, <1>3, <1>4, HistoryType DEF Simple!Values
  <2>2. DOMAIN Append(Simple!Values, v) = 1 .. (Len(log) + 1)
    BY <1>1, HistoryType
  <2> QED BY <1>4, <2>1, <2>2, HistoryType DEF Simple!Values
<1> QED BY <1>1, <1>2, <1>3, <1>4, <1>5, <1>6

-----------------------------------------------------------------------------
(* The histories of the three types. *)
GaugeInv   == Stands(value, Len(log), Simple!Values, Simple!Absolute)
MeterInv   == SumFunction(emitted) + value = SumFunction(Simple!Readings)
CounterInv == Tracks(SumFunction(emitted) + value, previous, Simple!Readings)

SimpleInv ==
  /\ SimpleType
  /\ type = "gauge" => GaugeInv
  /\ type = "meter" => MeterInv
  /\ type = "counter" => CounterInv

LEMMA SimpleInit == ASSUME Simple!Init PROVE SimpleInv
<1>1. SimpleType /\ value = 0 /\ previous = 0 /\ emitted = <<>> /\ log = <<>>
  BY DEF Simple!Init, SimpleType
<1>2. Simple!Readings = <<>> /\ Simple!Values = <<>> /\ Simple!Absolute = {} /\ Len(log) = 0
  BY <1>1 DEF Simple!Readings, Simple!Values, Simple!Absolute
<1>3. SumFunction(<<>>) = 0
  <2>1. DOMAIN <<>> = {}
    OBVIOUS
  <2> QED BY <2>1, SumOfNone DEF SumFunction
<1>4. SumFunctionOnSet(<<>>, 1 .. 0) = 0
  <2>1. 1 .. 0 = {}
    OBVIOUS
  <2> QED BY <2>1, SumOfNone
<1>5. GaugeInv
  BY <1>1, <1>2, <1>4 DEF GaugeInv, Stands
<1> QED BY <1>1, <1>2, <1>3, <1>5 DEF SimpleInv, MeterInv, CounterInv, Tracks

LEMMA GaugeRecorded ==
  ASSUME SimpleInv, NEW v \in SignedValue, NEW f \in WholeFreq, NEW relative \in BOOLEAN,
         Simple!GaugeRecord(v, f, relative)
  PROVE  SimpleInv'
<1> DEFINE n == Len(log)
           g == Simple!Values
           h == Simple!Values'
           A == Simple!Absolute
<1>1. /\ type = "gauge" /\ SimpleType /\ GaugeInv /\ Simple!Logged(v, f, relative)
      /\ value' = IF relative THEN value + v ELSE v
      /\ previous' = previous
  BY DEF Simple!GaugeRecord, SimpleInv
<1>2. /\ n \in Nat /\ DOMAIN log = 1 .. n /\ g \in Seq(Int) /\ Len(g) = n
      /\ log' \in Seq(Message) /\ type' = type /\ emitted' = emitted
      /\ Len(log') = n + 1 /\ DOMAIN log' = 1 .. (n + 1) /\ log'[n + 1].relative = relative
      /\ \A k \in 1 .. n : log'[k] = log[k]
      /\ v \in Int /\ h = Append(g, v)
  BY <1>1, Recorded, HistoryType
<1>3. SimpleType'
  BY <1>1, <1>2 DEF SimpleType
<1>4. A \in SUBSET (1 .. n) /\ Simple!Absolute' = IF relative THEN A ELSE A \cup {n + 1}
  BY <1>2 DEF Simple!Absolute
<1>5. h[n + 1] = v /\ h[n + 1] \in Int /\ \A k \in 1 .. n : g[k] \in Int /\ h[k] = g[k]
  BY <1>2
<1>6. Stands(value, n, g, A)
  BY <1>1 DEF GaugeInv
<1> HIDE DEF n, g, h, A
<1>7. Stands(h[n + 1], n + 1, h, A \cup {n + 1})
  BY <1>2, <1>4, <1>5, StandsRestarted
<1>8. Stands(value + h[n + 1], n + 1, h, A)
  BY <1>2, <1>4, <1>5, <1>6, StandsMoved
<1>9. Stands(value', n + 1, h, Simple!Absolute')
  BY <1>1, <1>4, <1>5, <1>7, <1>8
<1>10. GaugeInv'
  BY <1>2, <1>9 DEF GaugeInv, h
<1> QED BY <1>1, <1>2, <1>3, <1>10 DEF SimpleInv

LEMMA MeterRecorded ==
  ASSUME SimpleInv, NEW v \in SignedValue, NEW f \in WholeFreq, NEW relative \in BOOLEAN,
         Simple!MeterRecord(v, f, relative)
  PROVE  SimpleInv'
<1> DEFINE x == v * f
           r == Simple!Readings
<1>1. /\ type = "meter" /\ SimpleType /\ MeterInv /\ Simple!Logged(v, f, relative)
      /\ value' = value + x /\ previous' = previous
  BY DEF Simple!MeterRecord, Simple!Upsampled, SimpleInv
<1>2. /\ r \in Seq(Int) /\ x \in Int /\ Simple!Readings' = Append(r, x)
      /\ log' \in Seq(Message) /\ type' = type /\ emitted' = emitted
  BY <1>1, Recorded, HistoryType
<1>3. value \in Int /\ emitted \in Seq(Int) /\ previous \in Int
  BY <1>1 DEF SimpleType
<1> HIDE DEF x, r
<1>4. SimpleType'
  BY <1>1, <1>2, <1>3 DEF SimpleType
<1>5. SumFunction(Append(r, x)) = SumFunction(r) + x /\ SumFunction(r) \in Int
  BY <1>2, SumOfSeq
<1>6. SumFunction(emitted) \in Int
  BY <1>3, SumOfSeq
<1>7. SumFunction(emitted) + value = SumFunction(r)
  BY <1>1 DEF MeterInv, r
<1>8. SumFunction(emitted') + value' = SumFunction(Simple!Readings')
  BY <1>1, <1>2, <1>3, <1>5, <1>6, <1>7
<1>9. MeterInv'
  BY <1>8 DEF MeterInv
<1> QED BY <1>1, <1>2, <1>4, <1>9 DEF SimpleInv

LEMMA CounterRecorded ==
  ASSUME SimpleInv, NEW v \in SignedValue, NEW f \in WholeFreq, NEW relative \in BOOLEAN,
         Simple!CounterRecord(v, f, relative)
  PROVE  SimpleInv'
<1> DEFINE x == v * f
           r == Simple!Readings
           inc == Simple!Increase(x)
           total == SumFunction(emitted) + value
<1>1. /\ type = "counter" /\ SimpleType /\ CounterInv /\ Simple!Logged(v, f, relative)
      /\ value' = value + inc /\ previous' = x
  BY DEF Simple!CounterRecord, Simple!Upsampled, SimpleInv
<1>2. /\ r \in Seq(Int) /\ x \in Int /\ Simple!Readings' = Append(r, x)
      /\ log' \in Seq(Message) /\ type' = type /\ emitted' = emitted
  BY <1>1, Recorded, HistoryType
<1>3. value \in Int /\ emitted \in Seq(Int) /\ previous \in Int
  BY <1>1 DEF SimpleType
<1>4. Tracks(total, previous, r)
  BY <1>1 DEF CounterInv
<1>5. SumFunction(emitted) \in Int /\ total \in Int
  BY <1>3, SumOfSeq
<1> HIDE DEF x, r, total
<1>6. /\ inc \in Int
      /\ previous <= 0 => inc = 0
      /\ previous > 0 /\ x >= previous => inc = x - previous
      /\ previous > 0 /\ x < previous => inc = x
  <2>1. CASE previous <= 0
    BY <1>2, <1>3, <2>1 DEF Simple!Increase
  <2>2. CASE previous > 0 /\ x >= previous
    BY <1>2, <1>3, <2>2 DEF Simple!Increase
  <2>3. CASE previous > 0 /\ x < previous
    BY <1>2, <1>3, <2>3 DEF Simple!Increase
  <2> QED BY <1>2, <1>3, <2>1, <2>2, <2>3
<1> HIDE DEF inc
<1>7. Tracks(total + inc, x, Append(r, x))
  BY <1>2, <1>3, <1>4, <1>5, <1>6, TracksNext
<1>8. SumFunction(emitted') + value' = total + inc
  BY <1>1, <1>2, <1>3, <1>5, <1>6 DEF total
<1>9. CounterInv'
  BY <1>1, <1>2, <1>7, <1>8 DEF CounterInv
<1>10. SimpleType'
  BY <1>1, <1>2, <1>3, <1>6 DEF SimpleType
<1> QED BY <1>1, <1>2, <1>9, <1>10 DEF SimpleInv

(* A sample moves what a meter or a counter holds into what was reported. *)
LEMMA Sampled == ASSUME SimpleInv, Simple!Sample PROVE SimpleInv'
<1>1. /\ SimpleType /\ emitted' = Append(emitted, value) /\ value' = Simple!AfterSample
      /\ type' = type /\ previous' = previous /\ log' = log
  BY DEF Simple!Sample, SimpleInv
<1>2. value \in Int /\ emitted \in Seq(Int) /\ previous \in Int /\ log \in Seq(Message)
  BY <1>1 DEF SimpleType
<1>3. SimpleType' /\ value' = IF type = "gauge" THEN value ELSE 0
  BY <1>1, <1>2 DEF SimpleType, Simple!AfterSample
<1>4. /\ Simple!Readings' = Simple!Readings /\ Simple!Values' = Simple!Values
      /\ Simple!Absolute' = Simple!Absolute
  BY <1>1 DEF Simple!Readings, Simple!Values, Simple!Absolute
<1>5. SumFunction(emitted') = SumFunction(emitted) + value /\ SumFunction(emitted) \in Int
  BY <1>1, <1>2, SumOfSeq
<1>6. type # "gauge" => SumFunction(emitted') + value' = SumFunction(emitted) + value
  BY <1>2, <1>3, <1>5
<1>7. type = "gauge" => GaugeInv'
  BY <1>1, <1>3, <1>4 DEF SimpleInv, GaugeInv
<1>8. type = "meter" => MeterInv'
  BY <1>4, <1>6 DEF SimpleInv, MeterInv
<1>9. type = "counter" => CounterInv'
  BY <1>1, <1>4, <1>6 DEF SimpleInv, CounterInv
<1> QED BY <1>1, <1>3, <1>7, <1>8, <1>9 DEF SimpleInv

(* No step of the metric disturbs the histories. *)
LEMMA SimpleStep == ASSUME SimpleInv, [MetricNext]_allVars PROVE SimpleInv'
<1>1. CASE UNCHANGED simpleVars
  BY <1>1 DEF SimpleInv, SimpleType, GaugeInv, MeterInv, CounterInv, simpleVars,
              Simple!Readings, Simple!Values, Simple!Absolute
<1>2. CASE Simple!Next
  BY <1>2, GaugeRecorded, MeterRecorded, CounterRecorded, Sampled DEF Simple!Next
<1> QED BY <1>1, <1>2 DEF MetricNext, allVars

(* The histories are what the three invariants say. *)
LEMMA SimpleMeans ==
  ASSUME SimpleInv PROVE GaugeFollowsUpdates /\ MeterConserves /\ CounterTotal
<1>1. \A s : Simple!Total(s) = SumFunction(s)
  BY SameSum DEF Simple!Total, Simple!SumFunction, SumFunction
<1>2. ASSUME type = "gauge" PROVE Simple!Follows
  BY <1>2, SameSum DEF SimpleInv, GaugeInv, Stands, Simple!Follows
<1>3. ASSUME type = "meter" PROVE Simple!Conserves
  BY <1>1, <1>3 DEF SimpleInv, MeterInv, Simple!Conserves
<1>4. ASSUME type = "counter" PROVE Simple!Rises
  <2> DEFINE r == Simple!Readings
             total == SumFunction(emitted) + value
  <2>1. SimpleType /\ Tracks(total, previous, r)
    BY <1>4 DEF SimpleInv, CounterInv
  <2>2. /\ DOMAIN r = DOMAIN log /\ Len(r) = Len(log)
        /\ log # <<>> => r # <<>>
        /\ Simple!Peaks = PeaksOf(r)
    BY <2>1, HistoryType DEF Simple!Readings, Simple!Peaks, PeaksOf
  <2>3. Simple!SumFunctionOnSet(r, Simple!Peaks) - r[1] = RiseOf(r)
    BY <2>2, SameSum DEF RiseOf
  <2>4. Simple!Total(emitted) + value = total
    BY <1>1
  <2>5. ASSUME log # <<>>
        PROVE  /\ (\A n \in DOMAIN log : r[n] >= 0) => total <= RiseOf(r)
               /\ (\A n \in DOMAIN log : r[n] > 0)  => total = RiseOf(r)
    <3> HIDE DEF r, total
    <3> QED BY <2>1, <2>2, <2>5 DEF Tracks
  <2> QED BY <2>3, <2>4, <2>5, Zenon DEF Simple!Rises
<1> QED BY <1>2, <1>3, <1>4 DEF GaugeFollowsUpdates, MeterConserves, CounterTotal

(* A gauge stands where its updates put it, for any messages and samples in any order. *)
THEOREM GaugeFollows == MetricSpec => []GaugeFollowsUpdates
<1>1. MetricInit => SimpleInv
  BY SimpleInit DEF MetricInit
<1> QED BY <1>1, SimpleStep, SimpleMeans, PTL DEF MetricSpec

(* A meter neither loses nor invents a value between samples. *)
THEOREM MeterConserved == MetricSpec => []MeterConserves
<1>1. MetricInit => SimpleInv
  BY SimpleInit DEF MetricInit
<1> QED BY <1>1, SimpleStep, SimpleMeans, PTL DEF MetricSpec

(* A counter reports no more than its readings rose, and all of it when none is 0. *)
THEOREM CounterFollowed == MetricSpec => []CounterTotal
<1>1. MetricInit => SimpleInv
  BY SimpleInit DEF MetricInit
<1> QED BY <1>1, SimpleStep, SimpleMeans, PTL DEF MetricSpec

(* Whatever type a metric has, its histogram only does what Histogram says: the theorems
   about it hold of every metric. *)
THEOREM HistogramComposed == MetricSpec => Spec
<1>1. MetricInit => Init
  BY DEF MetricInit
<1>2. [MetricNext]_allVars => [Next]_vars
  BY DEF MetricNext, allVars
<1> QED BY <1>1, <1>2, PTL DEF MetricSpec, Spec
=============================================================================
