----------------------------- MODULE DataLemmas -----------------------------
(***************************************************************************)
(* Facts about the data of the models that need induction.  The induction  *)
(* is over a set of numbers, and so are its uses: what is to be shown for   *)
(* every number is a set that holds them all.  Summands are the values of   *)
(* a function on a finite set, in any order.                                *)
(***************************************************************************)
EXTENDS Integers, Sequences, Functions, Decimals, FiniteSetTheorems, WellFoundedInduction, TLAPS

(* A set of natural numbers has a least element. *)
LEMMA LeastNumber ==
  ASSUME NEW S \in SUBSET Nat, S # {}
  PROVE  \E m \in S : \A n \in S : m <= n
<1>1. PICK m \in S : \A n \in S : <<n, m>> \notin OpToRel(<, Nat)
  BY NatLessThanWellFounded, WFMin
<1>2. ASSUME NEW n \in S PROVE m <= n
  <2>1. <<n, m>> \in Nat \X Nat /\ <<n, m>> \notin OpToRel(<, Nat)
    BY <1>1
  <2> QED BY <2>1 DEF OpToRel
<1> QED BY <1>2

(* Induction: a set that holds 0 and the successor of each number it holds. *)
LEMMA SetInduction ==
  ASSUME NEW S, 0 \in S, \A n \in Nat : n \in S => n + 1 \in S
  PROVE  Nat \subseteq S
<1> SUFFICES ASSUME Nat \ S # {} PROVE FALSE
  OBVIOUS
<1>1. PICK m \in Nat \ S : \A n \in Nat \ S : m <= n
  BY LeastNumber
<1>2. m - 1 \in Nat /\ m - 1 \in S
  BY <1>1
<1> QED BY <1>1, <1>2

(* The same from all smaller numbers. *)
LEMMA StrongInduction ==
  ASSUME NEW S, \A n \in Nat : (\A m \in 0 .. (n - 1) : m \in S) => n \in S
  PROVE  Nat \subseteq S
<1> SUFFICES ASSUME Nat \ S # {} PROVE FALSE
  OBVIOUS
<1>1. PICK m \in Nat \ S : \A n \in Nat \ S : m <= n
  BY LeastNumber
<1>2. \A k \in 0 .. (m - 1) : k \in S
  BY <1>1
<1> QED BY <1>1, <1>2

(* Division with remainder. *)
LEMMA DivMod ==
  ASSUME NEW x \in Nat, NEW p \in Nat \ {0}
  PROVE  /\ x \div p \in Nat /\ x % p \in Nat /\ x % p < p
         /\ p * (x \div p) + (x % p) = x
<1> DEFINE q == x \div p
           r == x % p
<1>1. q \in Int /\ r \in 0 .. (p - 1)
  OBVIOUS
<1>2. q = x \div p /\ r = x % p
  OBVIOUS
<1> HIDE DEF q, r
<1>3. p * q + r = x
  BY <1>1, <1>2
<1>4. q >= 0
  BY <1>1, <1>3
<1> QED BY <1>1, <1>2, <1>3, <1>4
-----------------------------------------------------------------------------
(* The function that the definition of SumFunctionOnSet chooses for g and S. *)
Some(s) == CHOOSE x \in s : TRUE
Summed(G, g, s) == IF s = {} THEN 0 ELSE g[Some(s)] + G[s \ {Some(s)}]
IsSum(G, g, S) == G = [s \in SUBSET S |-> Summed(G, g, s)]
(* The parts of S with at most n elements. *)
Up(S, n) == {s \in SUBSET S : Cardinality(s) <= n}

(* Some chooses an element. *)
LEMMA SomeIn == ASSUME NEW s, s # {} PROVE Some(s) \in s
BY DEF Some

(* A part without one of its elements is a smaller part. *)
LEMMA Smaller ==
  ASSUME NEW S, IsFiniteSet(S), NEW s \in SUBSET S, NEW x \in s
  PROVE  /\ IsFiniteSet(s) /\ Cardinality(s) \in Nat \ {0}
         /\ s \ {x} \in SUBSET S /\ Cardinality(s \ {x}) = Cardinality(s) - 1
<1>1. IsFiniteSet(s)
  BY FS_Subset
<1>2. Cardinality(s) \in Nat
  BY <1>1, FS_CardinalityType
<1>3. Cardinality(s) # 0
  BY <1>1, FS_EmptySet
<1>4. Cardinality(s \ {x}) = Cardinality(s) - 1
  BY <1>1, FS_RemoveElement
<1> QED BY <1>1, <1>2, <1>3, <1>4

(* A recursion that takes one element away at a time is defined for every finite set. *)
LEMMA SumExists ==
  ASSUME NEW S, IsFiniteSet(S), NEW g, \A x \in S : g[x] \in Int
  PROVE  \E G \in [SUBSET S -> Int] : IsSum(G, g, S)
<1> DEFINE Good(G, n) == \A s \in Up(S, n) : G[s] = Summed(G, g, s)
           N == {n \in Nat : \E G \in [Up(S, n) -> Int] : Good(G, n)}
<1>1. 0 \in N
  <2> DEFINE G == [s \in Up(S, 0) |-> 0]
  <2>1. ASSUME NEW s \in Up(S, 0) PROVE s = {}
    <3>1. IsFiniteSet(s) /\ Cardinality(s) \in Nat /\ Cardinality(s) <= 0
      BY FS_Subset, FS_CardinalityType DEF Up
    <3> QED BY <3>1, FS_EmptySet
  <2>2. G \in [Up(S, 0) -> Int] /\ Good(G, 0)
    BY <2>1 DEF Summed
  <2> QED BY <2>2
<1>2. ASSUME NEW n \in Nat, n \in N PROVE n + 1 \in N
  <2>1. PICK G \in [Up(S, n) -> Int] : Good(G, n)
    BY <1>2
  <2> DEFINE H == [s \in Up(S, n + 1) |-> IF s \in Up(S, n) THEN G[s] ELSE Summed(G, g, s)]
  <2>2. ASSUME NEW s \in Up(S, n + 1), s # {}
        PROVE  Some(s) \in S /\ s \ {Some(s)} \in Up(S, n) /\ s \ {Some(s)} \in Up(S, n + 1)
    <3>1. Some(s) \in s /\ s \in SUBSET S /\ Cardinality(s) <= n + 1
      BY <2>2, SomeIn DEF Up
    <3>2. Cardinality(s) \in Nat \ {0} /\ s \ {Some(s)} \in SUBSET S
          /\ Cardinality(s \ {Some(s)}) = Cardinality(s) - 1
      BY <3>1, Smaller
    <3> QED BY <3>1, <3>2 DEF Up
  <2>3. ASSUME NEW s \in Up(S, n + 1) PROVE H[s] \in Int /\ H[s] = Summed(H, g, s)
    <3>1. CASE s = {}
      <4>1. {} \in Up(S, n)
        BY FS_EmptySet DEF Up
      <4>2. H[s] = G[s] /\ G[s] = Summed(G, g, s) /\ G[s] \in Int
        BY <2>1, <3>1, <4>1
      <4> QED BY <3>1, <4>2 DEF Summed
    <3>2. CASE s # {}
      <4> DEFINE r == s \ {Some(s)}
      <4>1. Some(s) \in S /\ r \in Up(S, n) /\ r \in Up(S, n + 1)
        BY <2>2, <3>2
      <4>2. H[r] = G[r] /\ G[r] \in Int /\ g[Some(s)] \in Int
        BY <4>1, <2>1
      <4>3. H[s] = Summed(G, g, s)
        BY <2>1
      <4> QED BY <3>2, <4>2, <4>3 DEF Summed
    <3> QED BY <3>1, <3>2
  <2>4. H \in [Up(S, n + 1) -> Int] /\ Good(H, n + 1)
    BY <2>3
  <2> HIDE DEF H, Good
  <2> QED BY <2>4
<1>3. Cardinality(S) \in N
  <2>1. Nat \subseteq N
    <3> HIDE DEF N
    <3> QED BY <1>1, <1>2, SetInduction
  <2> QED BY <2>1, FS_CardinalityType
<1>4. Up(S, Cardinality(S)) = SUBSET S
  BY FS_Subset DEF Up
<1>5. PICK G \in [SUBSET S -> Int] : \A s \in SUBSET S : G[s] = Summed(G, g, s)
  BY <1>3, <1>4
<1>6. G = [s \in SUBSET S |-> Summed(G, g, s)]
  BY <1>5
<1> QED BY <1>5, <1>6 DEF IsSum

(* The sum over a part only depends on the function there. *)
LEMMA SumsAgree ==
  ASSUME NEW S, NEW T, NEW g, NEW h, NEW G, NEW H, IsSum(G, g, S), IsSum(H, h, T),
         NEW U, U \subseteq S, U \subseteq T, IsFiniteSet(U), \A x \in U : g[x] = h[x]
  PROVE  G[U] = H[U]
<1> DEFINE N == {n \in Nat : \A s \in SUBSET U : Cardinality(s) = n => G[s] = H[s]}
<1>1. ASSUME NEW s \in SUBSET U PROVE G[s] = Summed(G, g, s) /\ H[s] = Summed(H, h, s)
  <2>1. s \in SUBSET S /\ s \in SUBSET T
    OBVIOUS
  <2> QED BY <2>1 DEF IsSum
<1>2. 0 \in N
  <2>1. ASSUME NEW s \in SUBSET U, Cardinality(s) = 0 PROVE G[s] = H[s]
    <3>1. s = {}
      BY <2>1, FS_Subset, FS_EmptySet
    <3> QED BY <1>1, <3>1 DEF Summed
  <2> QED BY <2>1
<1>3. ASSUME NEW n \in Nat, n \in N PROVE n + 1 \in N
  <2>1. ASSUME NEW s \in SUBSET U, Cardinality(s) = n + 1 PROVE G[s] = H[s]
    <3>1. s # {}
      BY <2>1, FS_EmptySet
    <3>2. Some(s) \in s /\ s \ {Some(s)} \in SUBSET U /\ Cardinality(s \ {Some(s)}) = n
      BY <2>1, <3>1, SomeIn, Smaller
    <3>3. G[s \ {Some(s)}] = H[s \ {Some(s)}] /\ g[Some(s)] = h[Some(s)]
      BY <1>3, <3>2
    <3> QED BY <1>1, <3>1, <3>3 DEF Summed
  <2> QED BY <2>1
<1>4. Nat \subseteq N
  <2> HIDE DEF N
  <2> QED BY <1>2, <1>3, SetInduction
<1> QED BY <1>4, FS_CardinalityType

(* Any element may come first. *)
Takes(G, g, S) == \A y \in S : G[S] = g[y] + G[S \ {y}]

(* A sum takes its elements in any order. *)
LEMMA TakeFirst ==
  ASSUME NEW S, IsFiniteSet(S), NEW g, \A x \in S : g[x] \in Int,
         NEW G, G \in [SUBSET S -> Int], IsSum(G, g, S)
  PROVE  Takes(G, g, S)
<1> DEFINE N == {n \in Nat : \A s \in SUBSET S : Cardinality(s) = n => Takes(G, g, s)}
<1>1. ASSUME NEW s \in SUBSET S, s # {} PROVE G[s] = g[Some(s)] + G[s \ {Some(s)}]
  BY <1>1 DEF IsSum, Summed
<1>2. 0 \in N
  <2>1. ASSUME NEW s \in SUBSET S, Cardinality(s) = 0 PROVE Takes(G, g, s)
    BY <2>1, FS_Subset, FS_EmptySet DEF Takes
  <2> QED BY <2>1
<1>3. ASSUME NEW n \in Nat, n \in N PROVE n + 1 \in N
  <2>1. ASSUME NEW s \in SUBSET S, Cardinality(s) = n + 1, NEW x \in s
        PROVE  G[s] = g[x] + G[s \ {x}]
    <3> DEFINE c == Some(s)
    <3>1. c \in s
      BY SomeIn
    <3>2. CASE x = c
      BY <1>1, <3>2
    <3>3. CASE x # c
      <4>1. /\ s \ {c} \in SUBSET S /\ Cardinality(s \ {c}) = n
            /\ s \ {x} \in SUBSET S /\ Cardinality(s \ {x}) = n
        BY <2>1, <3>1, Smaller
      <4>2. G[s \ {c}] = g[x] + G[(s \ {c}) \ {x}]
        BY <1>3, <4>1, <3>3 DEF Takes
      <4>3. G[s \ {x}] = g[c] + G[(s \ {x}) \ {c}]
        BY <1>3, <4>1, <3>3, <3>1 DEF Takes
      <4>4. (s \ {c}) \ {x} = (s \ {x}) \ {c} /\ (s \ {c}) \ {x} \in SUBSET S
        OBVIOUS
      <4>5. G[s] = g[c] + G[s \ {c}]
        BY <1>1, <3>1
      <4>6. g[c] \in Int /\ g[x] \in Int /\ G[(s \ {c}) \ {x}] \in Int
        BY <3>1, <4>4
      <4> HIDE DEF c
      <4>7. G[s \ {c}] \in Int /\ G[s \ {x}] \in Int
        BY <4>1
      <4>8. /\ G[s \ {c}] = g[x] + G[(s \ {c}) \ {x}]
            /\ G[s \ {x}] = g[c] + G[(s \ {c}) \ {x}]
        BY <4>2, <4>3, <4>4
      <4>9. \A a, b, d, e, f \in Int : d = a + f /\ e = b + f => b + d = a + e
        OBVIOUS
      <4> QED BY <4>5, <4>6, <4>7, <4>8, <4>9
    <3> QED BY <3>2, <3>3
  <2> QED BY <2>1 DEF Takes
<1>4. Nat \subseteq N
  <2> HIDE DEF N
  <2> QED BY <1>2, <1>3, SetInduction
<1> QED BY <1>4, FS_CardinalityType
-----------------------------------------------------------------------------
(* SumFunctionOnSet is such a function's value. *)
LEMMA SumIs ==
  ASSUME NEW S, IsFiniteSet(S), NEW g, \A x \in S : g[x] \in Int
  PROVE  \E G \in [SUBSET S -> Int] : IsSum(G, g, S) /\ SumFunctionOnSet(g, S) = G[S]
<1> DEFINE G == CHOOSE G : IsSum(G, g, S)
<1>1. PICK H \in [SUBSET S -> Int] : IsSum(H, g, S)
  BY SumExists
<1>2. IsSum(G, g, S)
  BY <1>1, Zenon
<1>3. SumFunctionOnSet(g, S) = G[S]
  BY DEF SumFunctionOnSet, FoldFunctionOnSet, MapThenFoldSet, IsSum, Summed, Some
<1> HIDE DEF G
<1>4. \A s \in SUBSET S : G[s] = H[s]
  <2> SUFFICES ASSUME NEW s \in SUBSET S PROVE G[s] = H[s]
    OBVIOUS
  <2>1. IsFiniteSet(s)
    BY FS_Subset
  <2> QED BY <1>1, <1>2, <2>1, SumsAgree
<1>5. DOMAIN G = SUBSET S /\ G = [s \in SUBSET S |-> G[s]]
  BY <1>2 DEF IsSum
<1>6. G \in [SUBSET S -> Int]
  BY <1>4, <1>5
<1> QED BY <1>2, <1>3, <1>6

(* An empty sum is 0. *)
LEMMA SumOfNone ==
  ASSUME NEW g PROVE SumFunctionOnSet(g, {}) = 0
<1>1. PICK G \in [SUBSET {} -> Int] : IsSum(G, g, {}) /\ SumFunctionOnSet(g, {}) = G[{}]
  BY SumIs, FS_EmptySet
<1> QED BY <1>1 DEF IsSum, Summed

(* A sum of integers is one. *)
LEMMA SumType ==
  ASSUME NEW S, IsFiniteSet(S), NEW g, \A x \in S : g[x] \in Int
  PROVE  SumFunctionOnSet(g, S) \in Int
<1>1. PICK G \in [SUBSET S -> Int] : IsSum(G, g, S) /\ SumFunctionOnSet(g, S) = G[S]
  BY SumIs
<1> QED BY <1>1

(* Nothing adds up to nothing. *)
LEMMA SumOfZeros ==
  ASSUME NEW S, IsFiniteSet(S), NEW g, \A x \in S : g[x] = 0
  PROVE  SumFunctionOnSet(g, S) = 0
<1> DEFINE Z == [s \in SUBSET S |-> 0]
<1>1. PICK G \in [SUBSET S -> Int] : IsSum(G, g, S) /\ SumFunctionOnSet(g, S) = G[S]
  <2>1. \A x \in S : g[x] \in Int
    OBVIOUS
  <2> QED BY <2>1, SumIs, Zenon
<1>2. ASSUME NEW s \in SUBSET S PROVE Z[s] = Summed(Z, g, s)
  <2>1. CASE s = {}
    BY <2>1 DEF Summed
  <2>2. CASE s # {}
    <3>1. Some(s) \in s
      BY <2>2, SomeIn
    <3>2. g[Some(s)] = 0 /\ s \ {Some(s)} \in SUBSET S
      BY <3>1
    <3>3. Z[s] = 0 /\ Z[s \ {Some(s)}] = 0
      BY <3>2
    <3> QED BY <2>2, <3>2, <3>3 DEF Summed
  <2> QED BY <2>1, <2>2
<1>3. IsSum(Z, g, S)
  BY <1>2, Zenon DEF IsSum
<1>4. G[S] = Z[S]
  BY <1>1, <1>3, SumsAgree
<1> QED BY <1>1, <1>4

(* Equal summands have equal sums. *)
LEMMA SumEqual ==
  ASSUME NEW S, IsFiniteSet(S), NEW g, NEW h, \A x \in S : g[x] \in Int /\ g[x] = h[x]
  PROVE  SumFunctionOnSet(g, S) = SumFunctionOnSet(h, S)
<1>1. PICK G \in [SUBSET S -> Int] : IsSum(G, g, S) /\ SumFunctionOnSet(g, S) = G[S]
  BY SumIs
<1>2. PICK H \in [SUBSET S -> Int] : IsSum(H, h, S) /\ SumFunctionOnSet(h, S) = H[S]
  BY SumIs
<1> QED BY <1>1, <1>2, SumsAgree

(* A summand can be taken out. *)
LEMMA SumTake ==
  ASSUME NEW S, IsFiniteSet(S), NEW g, \A x \in S : g[x] \in Int, NEW y \in S
  PROVE  SumFunctionOnSet(g, S) = g[y] + SumFunctionOnSet(g, S \ {y})
<1> DEFINE T == S \ {y}
<1>1. PICK G \in [SUBSET S -> Int] : IsSum(G, g, S) /\ SumFunctionOnSet(g, S) = G[S]
  BY SumIs
<1>2. IsFiniteSet(T)
  BY FS_Subset
<1>3. PICK H \in [SUBSET T -> Int] : IsSum(H, g, T) /\ SumFunctionOnSet(g, T) = H[T]
  BY SumIs, <1>2
<1>4. G[T] = H[T]
  BY <1>1, <1>2, <1>3, SumsAgree
<1>5. G[S] = g[y] + G[T]
  <2>1. Takes(G, g, S)
    BY <1>1, TakeFirst, Zenon
  <2> QED BY <2>1 DEF Takes
<1> QED BY <1>1, <1>3, <1>4, <1>5

(* Changing one summand changes the sum by as much. *)
LEMMA SumChange ==
  ASSUME NEW S, IsFiniteSet(S), NEW g, NEW h, \A x \in S : g[x] \in Int /\ h[x] \in Int,
         NEW y \in S, \A x \in S \ {y} : g[x] = h[x]
  PROVE  SumFunctionOnSet(h, S) = SumFunctionOnSet(g, S) - g[y] + h[y]
<1> DEFINE T == S \ {y}
<1>1. IsFiniteSet(T)
  BY FS_Subset
<1>2. SumFunctionOnSet(g, T) = SumFunctionOnSet(h, T) /\ SumFunctionOnSet(g, T) \in Int
  BY <1>1, SumEqual, SumType
<1>3. /\ SumFunctionOnSet(g, S) = g[y] + SumFunctionOnSet(g, T)
      /\ SumFunctionOnSet(h, S) = h[y] + SumFunctionOnSet(h, T)
  BY SumTake
<1> QED BY <1>2, <1>3

(* A summand can be added. *)
LEMMA SumAdd ==
  ASSUME NEW S, IsFiniteSet(S), NEW T, NEW y \in T, T \ {y} = S, y \notin S, NEW g, NEW h,
         \A x \in S : g[x] \in Int /\ h[x] = g[x], h[y] \in Int
  PROVE  SumFunctionOnSet(h, T) = SumFunctionOnSet(g, S) + h[y]
<1>1. IsFiniteSet(T) /\ \A x \in T : h[x] \in Int
  <2>1. T = S \cup {y}
    OBVIOUS
  <2> QED BY <2>1, FS_AddElement
<1>2. SumFunctionOnSet(h, T) = h[y] + SumFunctionOnSet(h, S)
  BY <1>1, SumTake
<1>3. SumFunctionOnSet(h, S) = SumFunctionOnSet(g, S) /\ SumFunctionOnSet(g, S) \in Int
  BY SumEqual, SumType
<1> QED BY <1>2, <1>3

(* The sum over an interval grows by the value of the number added. *)
LEMMA SumNext ==
  ASSUME NEW lo \in Int, NEW n \in Int, lo <= n + 1, NEW g, NEW h,
         \A i \in lo .. n : g[i] \in Int /\ h[i] = g[i], h[n + 1] \in Int
  PROVE  SumFunctionOnSet(h, lo .. (n + 1)) = SumFunctionOnSet(g, lo .. n) + h[n + 1]
<1>1. IsFiniteSet(lo .. (n + 1)) /\ IsFiniteSet(lo .. n)
  BY FS_Interval
<1>2. /\ (lo .. (n + 1)) \ {n + 1} = lo .. n /\ n + 1 \in lo .. (n + 1)
      /\ \A i \in lo .. (n + 1) : h[i] \in Int
  OBVIOUS
<1>3. SumFunctionOnSet(h, lo .. (n + 1)) = h[n + 1] + SumFunctionOnSet(h, lo .. n)
  BY <1>1, <1>2, SumTake
<1>4. SumFunctionOnSet(h, lo .. n) = SumFunctionOnSet(g, lo .. n) /\ SumFunctionOnSet(g, lo .. n) \in Int
  BY <1>1, SumEqual, SumType
<1> QED BY <1>3, <1>4

(* The sum of a sequence: an integer, 0 for none, and with one more element as much more. *)
LEMMA SumOfSeq ==
  ASSUME NEW s \in Seq(Int)
  PROVE  /\ SumFunction(s) \in Int
         /\ s = <<>> => SumFunction(s) = 0
         /\ \A x \in Int : SumFunction(Append(s, x)) = SumFunction(s) + x
<1>1. Len(s) \in Nat /\ DOMAIN s = 1 .. Len(s) /\ \A i \in 1 .. Len(s) : s[i] \in Int
  OBVIOUS
<1>2. SumFunction(s) \in Int
  BY <1>1, FS_Interval, SumType DEF SumFunction
<1>3. s = <<>> => SumFunction(s) = 0
  <2>1. DOMAIN <<>> = {}
    OBVIOUS
  <2> QED BY <2>1, SumOfNone DEF SumFunction
<1>4. ASSUME NEW x \in Int PROVE SumFunction(Append(s, x)) = SumFunction(s) + x
  <2> DEFINE t == Append(s, x)
  <2>1. /\ DOMAIN t = 1 .. (Len(s) + 1) /\ t[Len(s) + 1] = x
        /\ \A i \in 1 .. Len(s) : t[i] = s[i]
    OBVIOUS
  <2> HIDE DEF t
  <2>2. SumFunctionOnSet(t, 1 .. (Len(s) + 1)) = SumFunctionOnSet(s, 1 .. Len(s)) + t[Len(s) + 1]
    <3> DEFINE n == Len(s)
    <3>1. n \in Int /\ 1 <= n + 1 /\ t[n + 1] \in Int /\ \A i \in 1 .. n : s[i] \in Int /\ t[i] = s[i]
      BY <1>1, <2>1
    <3> HIDE DEF n
    <3>2. SumFunctionOnSet(t, 1 .. (n + 1)) = SumFunctionOnSet(s, 1 .. n) + t[n + 1]
      BY <3>1, SumNext
    <3> QED BY <3>2 DEF n
  <2>3. SumFunction(t) = SumFunction(s) + x
    BY <1>1, <2>1, <2>2 DEF SumFunction
  <2> QED BY <2>3 DEF t
<1> QED BY <1>2, <1>3, <1>4
-----------------------------------------------------------------------------
(* A function is defined by its value at 0 and what each step makes of the one before. *)
Steps(f, a, F, N) == f[0] = a /\ \A k \in 1 .. N : f[k] = F[k][f[k - 1]]

LEMMA StepsExist ==
  ASSUME NEW S, NEW a \in S, NEW N \in Nat, NEW F \in [1 .. N -> [S -> S]]
  PROVE  \E f \in [0 .. N -> S] : Steps(f, a, F, N)
<1> DEFINE X == {n \in Nat : n <= N => \E f \in [0 .. n -> S] : Steps(f, a, F, n)}
<1>1. 0 \in X
  <2> DEFINE f == [k \in 0 .. 0 |-> a]
  <2>1. f \in [0 .. 0 -> S] /\ Steps(f, a, F, 0)
    BY DEF Steps
  <2> QED BY <2>1
<1>2. ASSUME NEW n \in Nat, n \in X PROVE n + 1 \in X
  <2> SUFFICES ASSUME n + 1 <= N PROVE \E f \in [0 .. (n + 1) -> S] : Steps(f, a, F, n + 1)
    OBVIOUS
  <2>1. PICK f \in [0 .. n -> S] : Steps(f, a, F, n)
    BY <1>2
  <2> DEFINE g == [k \in 0 .. (n + 1) |-> IF k <= n THEN f[k] ELSE F[n + 1][f[n]]]
  <2>2. F[n + 1] \in [S -> S] /\ f[n] \in S
    BY <2>1
  <2>3. F[n + 1][f[n]] \in S
    BY <2>2
  <2>4. g \in [0 .. (n + 1) -> S]
    BY <2>1, <2>3
  <2>5. ASSUME NEW k \in 1 .. (n + 1) PROVE g[k] = F[k][g[k - 1]]
    <3>1. CASE k = n + 1
      BY <3>1
    <3>2. CASE k # n + 1
      <4>1. k \in 1 .. n /\ k - 1 \in 0 .. n /\ k \in 0 .. n
        BY <3>2
      <4> QED BY <4>1, <2>1 DEF Steps
    <3> QED BY <3>1, <3>2
  <2>6. g[0] = a
    BY <2>1 DEF Steps
  <2> QED BY <2>4, <2>5, <2>6 DEF Steps
<1>3. Nat \subseteq X
  <2> HIDE DEF X
  <2> QED BY <1>1, <1>2, SetInduction
<1> QED BY <1>3

(* Functions that start alike and go on alike are alike. *)
Alike(f, g, N) == f[0] = g[0] /\ \A k \in 1 .. N : f[k - 1] = g[k - 1] => f[k] = g[k]

LEMMA SameSteps ==
  ASSUME NEW f, NEW g, NEW N \in Nat, Alike(f, g, N)
  PROVE  \A k \in 0 .. N : f[k] = g[k]
<1> USE DEF Alike
<1> DEFINE X == {n \in Nat : n <= N => f[n] = g[n]}
<1>1. 0 \in X
  OBVIOUS
<1>2. ASSUME NEW n \in Nat, n \in X PROVE n + 1 \in X
  <2> SUFFICES ASSUME n + 1 <= N PROVE f[n + 1] = g[n + 1]
    OBVIOUS
  <2>1. n + 1 \in 1 .. N /\ (n + 1) - 1 = n /\ f[n] = g[n]
    BY <1>2
  <2> QED BY <2>1
<1>3. Nat \subseteq X
  <2> HIDE DEF X
  <2> QED BY <1>1, <1>2, SetInduction
<1> QED BY <1>3
-----------------------------------------------------------------------------
(* The powers of b up to n, by their recursion. *)
Powers(p, b, n) == p = [k \in 0 .. n |-> IF k = 0 THEN 1 ELSE b * p[k - 1]]

LEMMA PowIs ==
  ASSUME NEW b \in Nat, NEW n \in Nat
  PROVE  \E p \in [0 .. n -> Nat] :
           /\ Pow(b, n) = p[n] /\ p[0] = 1 /\ \A k \in 1 .. n : p[k] = b * p[k - 1]
<1> DEFINE F == [k \in 1 .. n |-> [x \in Nat |-> b * x]]
           p == CHOOSE p : Powers(p, b, n)
<1>1. F \in [1 .. n -> [Nat -> Nat]]
  OBVIOUS
<1>2. PICK q \in [0 .. n -> Nat] : Steps(q, 1, F, n)
  BY <1>1, StepsExist
<1>3. q[0] = 1 /\ \A k \in 1 .. n : q[k] = b * q[k - 1]
  <2>1. ASSUME NEW k \in 1 .. n PROVE q[k] = b * q[k - 1]
    <3>1. k - 1 \in 0 .. n /\ q[k - 1] \in Nat
      OBVIOUS
    <3>2. q[k] = F[k][q[k - 1]]
      <4> HIDE DEF F
      <4> QED BY <1>2 DEF Steps
    <3> QED BY <3>1, <3>2
  <2> QED BY <1>2, <2>1 DEF Steps
<1>4. Powers(q, b, n)
  BY <1>3 DEF Powers
<1>5. Powers(p, b, n)
  BY <1>4, Zenon
<1>6. Pow(b, n) = p[n]
  BY DEF Pow, Powers
<1> HIDE DEF p
<1>7. p[0] = 1 /\ DOMAIN p = 0 .. n /\ \A k \in 1 .. n : p[k] = b * p[k - 1]
  BY <1>5 DEF Powers
<1>8. \A k \in 0 .. n : p[k] = q[k]
  <2>1. ASSUME NEW k \in 1 .. n, p[k - 1] = q[k - 1] PROVE p[k] = q[k]
    BY <1>3, <1>7, <2>1
  <2>2. p[0] = q[0]
    BY <1>3, <1>7
  <2> HIDE DEF F
  <2>3. \A k \in 1 .. n : p[k - 1] = q[k - 1] => p[k] = q[k]
    BY <2>1
  <2>4. Alike(p, q, n)
    BY <2>2, <2>3 DEF Alike
  <2> QED BY <2>4, SameSteps
<1>9. p \in [0 .. n -> Nat]
  BY <1>5, <1>8 DEF Powers
<1> QED BY <1>6, <1>7, <1>9

(* The recursion of the powers. *)
LEMMA PowNext ==
  ASSUME NEW b \in Nat
  PROVE  /\ Pow(b, 0) = 1
         /\ \A n \in Nat : Pow(b, n) \in Nat /\ Pow(b, n + 1) = b * Pow(b, n)
<1>1. Pow(b, 0) = 1
  BY PowIs
<1>2. ASSUME NEW n \in Nat PROVE Pow(b, n) \in Nat /\ Pow(b, n + 1) = b * Pow(b, n)
  <2>1. PICK p \in [0 .. n -> Nat] :
          /\ Pow(b, n) = p[n] /\ p[0] = 1 /\ \A k \in 1 .. n : p[k] = b * p[k - 1]
    BY PowIs
  <2>2. PICK q \in [0 .. (n + 1) -> Nat] :
          /\ Pow(b, n + 1) = q[n + 1] /\ q[0] = 1 /\ \A k \in 1 .. (n + 1) : q[k] = b * q[k - 1]
    <3>1. n + 1 \in Nat
      OBVIOUS
    <3> QED BY <3>1, PowIs, Zenon
  <2>3. \A k \in 1 .. n : p[k - 1] = q[k - 1] => p[k] = q[k]
    BY <2>1, <2>2
  <2>4. p[n] = q[n]
    <3>1. p[0] = q[0] /\ n \in 0 .. n
      BY <2>1, <2>2
    <3>2. Alike(p, q, n)
      BY <3>1, <2>3 DEF Alike
    <3> QED BY <3>1, <3>2, SameSteps
  <2>5. n + 1 \in 1 .. (n + 1) /\ (n + 1) - 1 = n
    OBVIOUS
  <2> QED BY <2>1, <2>2, <2>4, <2>5
<1> QED BY <1>1, <1>2

(* Powers of a positive base are positive, and multiply by adding their exponents. *)
LEMMA PowFacts ==
  ASSUME NEW b \in Nat \ {0}, NEW m \in Nat, NEW n \in Nat
  PROVE  /\ Pow(b, n) \in Nat \ {0} /\ Pow(b, n) >= 1
         /\ Pow(b, m + n) = Pow(b, m) * Pow(b, n)
         /\ Pow(b, m) <= Pow(b, m + n)
<1> DEFINE X == {k \in Nat : Pow(b, k) >= 1 /\ Pow(b, m + k) = Pow(b, m) * Pow(b, k)}
<1>1. \A k \in Nat : Pow(b, k) \in Nat /\ Pow(b, k + 1) = b * Pow(b, k)
  BY PowNext
<1>2. 0 \in X
  <2>1. Pow(b, 0) = 1 /\ m + 0 = m /\ Pow(b, m) \in Nat
    BY PowNext
  <2> QED BY <2>1
<1>3. ASSUME NEW k \in Nat, k \in X PROVE k + 1 \in X
  <2>1. /\ Pow(b, k) \in Nat /\ Pow(b, k) >= 1 /\ Pow(b, m) \in Nat
        /\ Pow(b, k + 1) = b * Pow(b, k)
        /\ Pow(b, m + k) = Pow(b, m) * Pow(b, k)
    BY <1>1, <1>3
  <2>2. Pow(b, (m + k) + 1) = b * Pow(b, m + k) /\ (m + k) + 1 = m + (k + 1)
    BY <1>1
  <2>3. \A x \in Nat \ {0}, y \in Nat : y >= 1 => x * y >= 1
    OBVIOUS
  <2>4. \A x, y, z \in Nat : x * (y * z) = y * (x * z)
    OBVIOUS
  <2>5. Pow(b, m + (k + 1)) = Pow(b, m) * Pow(b, k + 1)
    BY <2>1, <2>2, <2>4
  <2>6. Pow(b, k + 1) >= 1
    BY <2>1, <2>3
  <2> QED BY <2>5, <2>6
<1>4. Nat \subseteq X
  <2> HIDE DEF X
  <2> QED BY <1>2, <1>3, SetInduction
<1>5. /\ Pow(b, n) >= 1 /\ Pow(b, m + n) = Pow(b, m) * Pow(b, n)
      /\ Pow(b, n) \in Nat /\ Pow(b, m) \in Nat
  BY <1>4, <1>1
<1>6. \A x, y \in Nat : y >= 1 => x <= x * y
  OBVIOUS
<1> QED BY <1>5, <1>6

(* The powers of ten that a text with four decimals needs. *)
LEMMA PowersOfTen ==
  Pow(10, 0) = 1 /\ Pow(10, 1) = 10 /\ Pow(10, 2) = 100 /\ Pow(10, 3) = 1000 /\ Pow(10, 4) = 10000
<1>1. Pow(10, 0) = 1
  BY PowNext
<1>2. ASSUME NEW n \in Nat PROVE Pow(10, n + 1) = 10 * Pow(10, n)
  BY PowNext
<1>3. Pow(10, 1) = 10
  BY <1>1, <1>2
<1>4. Pow(10, 2) = 100
  BY <1>3, <1>2
<1>5. Pow(10, 3) = 1000
  BY <1>4, <1>2
<1> QED BY <1>1, <1>3, <1>4, <1>5, <1>2
-----------------------------------------------------------------------------
(* The numbers that the first digits of ds stand for, by their recursion. *)
PartialValues(v, ds) == v = [k \in 0 .. Len(ds) |-> IF k = 0 THEN 0 ELSE 10 * v[k - 1] + ds[k]]

LEMMA DecimalIs ==
  ASSUME NEW ds \in Seq(Int)
  PROVE  \E v \in [0 .. Len(ds) -> Int] :
           /\ Decimal(ds) = v[Len(ds)] /\ v[0] = 0
           /\ \A k \in 1 .. Len(ds) : v[k] = 10 * v[k - 1] + ds[k]
<1> DEFINE n == Len(ds)
           F == [k \in 1 .. n |-> [x \in Int |-> 10 * x + ds[k]]]
           v == CHOOSE v : PartialValues(v, ds)
<1>0. n \in Nat /\ \A k \in 1 .. n : ds[k] \in Int
  OBVIOUS
<1>1. F \in [1 .. n -> [Int -> Int]]
  BY <1>0
<1>2. PICK q \in [0 .. n -> Int] : Steps(q, 0, F, n)
  <2>1. 0 \in Int
    OBVIOUS
  <2> HIDE DEF F, n
  <2> QED BY <2>1, <1>0, <1>1, StepsExist
<1>3. q[0] = 0 /\ \A k \in 1 .. n : q[k] = 10 * q[k - 1] + ds[k]
  <2>1. ASSUME NEW k \in 1 .. n PROVE q[k] = 10 * q[k - 1] + ds[k]
    <3>1. k - 1 \in 0 .. n /\ q[k - 1] \in Int
      BY <1>0
    <3>2. q[k] = F[k][q[k - 1]]
      <4> HIDE DEF F
      <4> QED BY <1>2 DEF Steps
    <3> QED BY <3>1, <3>2
  <2> QED BY <1>2, <2>1 DEF Steps
<1>4. PartialValues(q, ds)
  BY <1>0, <1>3 DEF PartialValues
<1>5. PartialValues(v, ds)
  BY <1>4, Zenon
<1>6. Decimal(ds) = v[n]
  BY DEF Decimal, PartialValues
<1> HIDE DEF v
<1>7. v[0] = 0 /\ DOMAIN v = 0 .. n /\ \A k \in 1 .. n : v[k] = 10 * v[k - 1] + ds[k]
  BY <1>0, <1>5 DEF PartialValues
<1>8. \A k \in 0 .. n : v[k] = q[k]
  <2>1. Alike(v, q, n)
    BY <1>3, <1>7 DEF Alike
  <2> HIDE DEF n
  <2> QED BY <1>0, <2>1, SameSteps
<1>9. v \in [0 .. n -> Int]
  BY <1>5, <1>8 DEF PartialValues
<1> QED BY <1>6, <1>7, <1>9

(* One more digit: ten times the number so far, and the digit. *)
LEMMA DecimalNext ==
  /\ Decimal(<<>>) = 0
  /\ \A ds \in Seq(Int) : Decimal(ds) \in Int
  /\ \A ds \in Seq(Int), d \in Int : Decimal(Append(ds, d)) = 10 * Decimal(ds) + d
<1>1. Decimal(<<>>) = 0
  <2>1. <<>> \in Seq(Int) /\ Len(<<>>) = 0
    OBVIOUS
  <2> QED BY <2>1, DecimalIs
<1>2. ASSUME NEW ds \in Seq(Int) PROVE Decimal(ds) \in Int
  <2>1. PICK v \in [0 .. Len(ds) -> Int] : Decimal(ds) = v[Len(ds)]
    BY DecimalIs
  <2>2. Len(ds) \in 0 .. Len(ds)
    OBVIOUS
  <2> QED BY <2>1, <2>2
<1>3. ASSUME NEW ds \in Seq(Int), NEW d \in Int
      PROVE  Decimal(Append(ds, d)) = 10 * Decimal(ds) + d
  <2> DEFINE n == Len(ds)
             es == Append(ds, d)
  <2>0. /\ n \in Nat /\ es \in Seq(Int) /\ Len(es) = n + 1 /\ es[n + 1] = d
        /\ \A k \in 1 .. n : es[k] = ds[k]
    OBVIOUS
  <2>1. PICK v \in [0 .. n -> Int] :
          Decimal(ds) = v[n] /\ v[0] = 0 /\ \A k \in 1 .. n : v[k] = 10 * v[k - 1] + ds[k]
    BY DecimalIs
  <2> HIDE DEF es
  <2>2. PICK w \in [0 .. Len(es) -> Int] :
          /\ Decimal(es) = w[Len(es)] /\ w[0] = 0
          /\ \A k \in 1 .. Len(es) : w[k] = 10 * w[k - 1] + es[k]
    BY <2>0, DecimalIs
  <2> HIDE DEF n
  <2>3. Alike(v, w, n)
    BY <2>0, <2>1, <2>2 DEF Alike
  <2>4. v[n] = w[n]
    <3>1. n \in 0 .. n
      BY <2>0
    <3>2. n \in Nat
      BY <2>0
    <3> QED BY <3>1, <3>2, <2>3, SameSteps
  <2>5. w[n + 1] = 10 * w[n] + d /\ w[n + 1] = Decimal(es)
    BY <2>0, <2>2
  <2> QED BY <2>1, <2>4, <2>5 DEF es
<1> QED BY <1>1, <1>2, <1>3
-----------------------------------------------------------------------------
(* Sequences: an element, one more element, and the first elements. *)
LEMMA SeqElement ==
  ASSUME NEW S, NEW s \in Seq(S), NEW i \in 1 .. Len(s)
  PROVE  s[i] \in S
OBVIOUS

LEMMA SeqAppend ==
  ASSUME NEW S, NEW s \in Seq(S), NEW x \in S
  PROVE  /\ Append(s, x) \in Seq(S) /\ Len(Append(s, x)) = Len(s) + 1
         /\ Append(s, x)[Len(s) + 1] = x
         /\ \A i \in 1 .. Len(s) : Append(s, x)[i] = s[i]
OBVIOUS

LEMMA SeqPrefix ==
  ASSUME NEW S, NEW s \in Seq(S), NEW k \in 0 .. Len(s)
  PROVE  /\ SubSeq(s, 1, k) \in Seq(S) /\ Len(SubSeq(s, 1, k)) = k
         /\ \A i \in 1 .. k : SubSeq(s, 1, k)[i] = s[i]
OBVIOUS

(* Two sequences with the same elements. *)
LEMMA SeqSame ==
  ASSUME NEW S, NEW s \in Seq(S), NEW t \in Seq(S), Len(s) = Len(t),
         \A i \in 1 .. Len(s) : s[i] = t[i]
  PROVE  s = t
OBVIOUS

(* A longer part of s behind t is one element more. *)
Grows(S, t, s, k) ==
  /\ t \o SubSeq(s, 1, 0) = t
  /\ t \o SubSeq(s, 1, k) \in Seq(S) /\ s[k + 1] \in S
  /\ t \o SubSeq(s, 1, k + 1) = Append(t \o SubSeq(s, 1, k), s[k + 1])

LEMMA PrefixNext ==
  ASSUME NEW S, NEW t \in Seq(S), NEW s \in Seq(S), NEW k \in 0 .. (Len(s) - 1)
  PROVE  Grows(S, t, s, k)
<1> DEFINE p == SubSeq(s, 1, k)
           q == SubSeq(s, 1, k + 1)
           a == t \o p
           b == t \o q
           c == Append(a, s[k + 1])
<1>1. p \in Seq(S) /\ Len(p) = k /\ \A i \in 1 .. k : p[i] = s[i]
  OBVIOUS
<1>2. q \in Seq(S) /\ Len(q) = k + 1 /\ \A i \in 1 .. (k + 1) : q[i] = s[i]
  OBVIOUS
<1>3. s[k + 1] \in S /\ t \o SubSeq(s, 1, 0) = t
  OBVIOUS
<1>4. Len(t) \in Nat /\ k \in Nat
  OBVIOUS
<1> HIDE DEF p, q
<1>5. a \in Seq(S) /\ Len(a) = Len(t) + k
      /\ \A i \in 1 .. Len(a) : a[i] = IF i <= Len(t) THEN t[i] ELSE p[i - Len(t)]
  BY <1>1
<1>6. b \in Seq(S) /\ Len(b) = Len(t) + k + 1
      /\ \A i \in 1 .. Len(b) : b[i] = IF i <= Len(t) THEN t[i] ELSE q[i - Len(t)]
  BY <1>2
<1> HIDE DEF a, b
<1>7. c \in Seq(S) /\ Len(c) = Len(a) + 1 /\ c[Len(a) + 1] = s[k + 1]
      /\ \A i \in 1 .. Len(a) : c[i] = a[i]
  <2>1. a \in Seq(S) /\ s[k + 1] \in S
    BY <1>3, <1>5
  <2> QED BY ONLY <2>1, SeqAppend
<1> HIDE DEF c
<1>8. ASSUME NEW i \in 1 .. Len(b) PROVE b[i] = c[i]
  <2>1. CASE i <= Len(t)
    <3>1. i \in 1 .. Len(a)
      BY <1>4, <1>5, <2>1
    <3>2. c[i] = a[i] /\ a[i] = t[i]
      BY <1>5, <1>7, <2>1, <3>1
    <3>3. b[i] = t[i]
      BY <1>6, <2>1
    <3> QED BY <3>2, <3>3
  <2>2. CASE i > Len(t) /\ i <= Len(t) + k
    <3>1. i - Len(t) \in 1 .. k
      BY <1>4, <2>2
    <3>2. p[i - Len(t)] = q[i - Len(t)]
      BY <1>1, <1>2, <3>1
    <3>3. i \in 1 .. Len(a)
      BY <1>4, <1>5, <2>2
    <3>4. c[i] = a[i] /\ a[i] = p[i - Len(t)]
      BY <1>4, <1>5, <1>7, <2>2, <3>3
    <3>5. b[i] = q[i - Len(t)]
      BY <1>4, <1>6, <2>2
    <3> QED BY <3>2, <3>4, <3>5
  <2>3. CASE i = Len(t) + k + 1
    <3>1. b[i] = q[k + 1] /\ q[k + 1] = s[k + 1]
      BY <1>2, <1>4, <1>6, <2>3
    <3>2. c[i] = s[k + 1]
      BY <1>4, <1>5, <1>7, <2>3
    <3> QED BY <3>1, <3>2
  <2>4. i <= Len(t) + k + 1
    BY <1>4, <1>6
  <2> QED BY <1>4, <2>1, <2>2, <2>3, <2>4
<1>9. b = c
  BY <1>4, <1>5, <1>6, <1>7, <1>8, SeqSame
<1> QED BY <1>3, <1>5, <1>9 DEF a, b, c, p, q, Grows

(* A part of s. *)
LEMMA SeqPart ==
  ASSUME NEW S, NEW s \in Seq(S), NEW a \in 1 .. (Len(s) + 1), NEW b \in (a - 1) .. Len(s)
  PROVE  /\ SubSeq(s, a, b) \in Seq(S) /\ Len(SubSeq(s, a, b)) = b - a + 1
         /\ \A k \in 1 .. (b - a + 1) : SubSeq(s, a, b)[k] = s[a + k - 1]
OBVIOUS

(* One element in front. *)
LEMMA SeqFront ==
  ASSUME NEW S, NEW s \in Seq(S), NEW d \in S
  PROVE  /\ <<d>> \o s \in Seq(S) /\ Len(<<d>> \o s) = Len(s) + 1 /\ (<<d>> \o s)[1] = d
         /\ \A k \in 1 .. Len(s) : (<<d>> \o s)[k + 1] = s[k]
OBVIOUS

LEMMA FrontAppend ==
  ASSUME NEW S, NEW s \in Seq(S), NEW d \in S, NEW x \in S
  PROVE  <<d>> \o Append(s, x) = Append(<<d>> \o s, x)
<1> DEFINE t == Append(s, x)
           a == <<d>> \o t
           f == <<d>> \o s
           b == Append(f, x)
           n == Len(s)
<1>1. t \in Seq(S) /\ Len(t) = n + 1 /\ t[n + 1] = x /\ \A k \in 1 .. n : t[k] = s[k]
  BY SeqAppend
<1>2. f \in Seq(S) /\ Len(f) = n + 1 /\ f[1] = d /\ \A k \in 1 .. n : f[k + 1] = s[k]
  BY SeqFront
<1>3. n \in Nat
  OBVIOUS
<1> HIDE DEF t, f, n
<1>4. a \in Seq(S) /\ Len(a) = Len(t) + 1 /\ a[1] = d /\ \A k \in 1 .. Len(t) : a[k + 1] = t[k]
  BY <1>1, SeqFront
<1>5. b \in Seq(S) /\ Len(b) = Len(f) + 1 /\ b[Len(f) + 1] = x /\ \A k \in 1 .. Len(f) : b[k] = f[k]
  BY <1>2, SeqAppend
<1> HIDE DEF a, b
<1>6. ASSUME NEW k \in 1 .. Len(a) PROVE a[k] = b[k]
  <2>1. CASE k = 1
    <3>1. 1 \in 1 .. Len(f)
      BY <1>2, <1>3
    <3> QED BY <1>2, <1>4, <1>5, <2>1, <3>1
  <2>2. CASE k = n + 2
    <3>1. a[n + 1 + 1] = t[n + 1]
      BY <1>1, <1>3, <1>4
    <3>2. b[n + 1 + 1] = x
      BY <1>2, <1>5
    <3>3. n + 1 + 1 = k
      BY <1>3, <2>2
    <3> QED BY <1>1, <3>1, <3>2, <3>3
  <2>3. CASE k # 1 /\ k # n + 2
    <3> DEFINE m == k - 1
    <3>1. m \in 1 .. n /\ k = m + 1 /\ m + 1 \in 1 .. (n + 1) /\ m \in 1 .. (n + 1)
      BY <1>1, <1>3, <1>4, <2>3
    <3> HIDE DEF m
    <3>2. a[m + 1] = t[m] /\ t[m] = s[m]
      BY <1>1, <1>4, <3>1
    <3>3. b[m + 1] = f[m + 1] /\ f[m + 1] = s[m]
      BY <1>2, <1>5, <3>1
    <3> QED BY <3>1, <3>2, <3>3
  <2> QED BY <2>1, <2>2, <2>3
<1>7. Len(a) = Len(b)
  BY <1>1, <1>2, <1>4, <1>5
<1>8. a = b
  BY <1>4, <1>5, <1>6, <1>7, SeqSame
<1> QED BY <1>8 DEF a, b, f, t

(* Two sequences in a row. *)
LEMMA SeqConcat ==
  ASSUME NEW S, NEW p \in Seq(S), NEW u \in Seq(S)
  PROVE  /\ p \o u \in Seq(S)
         /\ Len(p \o u) = Len(p) + Len(u)
         /\ \A k \in 1 .. (Len(p) + Len(u)) :
              (p \o u)[k] = IF k <= Len(p) THEN p[k] ELSE u[k - Len(p)]
OBVIOUS

(* A part in front of u, without its first element. *)
PartFirst(t, u, m, n) ==
  /\ SubSeq(t, n + 1, n) \o u = u
  /\ SubSeq(t, m, n) \o u = <<t[m]>> \o (SubSeq(t, m + 1, n) \o u)

LEMMA PartFront ==
  ASSUME NEW S, NEW t \in Seq(S), NEW u \in Seq(S), NEW n \in 1 .. Len(t), NEW m \in 1 .. n
  PROVE  PartFirst(t, u, m, n)
<1> DEFINE p == SubSeq(t, m, n)
           q == SubSeq(t, m + 1, n)
           a == p \o u
           b == q \o u
           c == <<t[m]>> \o b
           l == n - m
           j == Len(u)
<1>0. l \in Nat /\ j \in Nat /\ n = m + l /\ m \in Nat /\ t[m] \in S
  OBVIOUS
<1>1. p \in Seq(S) /\ Len(p) = l + 1 /\ \A k \in 1 .. (l + 1) : p[k] = t[m + k - 1]
  <2>1. p \in Seq(S) /\ Len(p) = n - m + 1 /\ \A k \in 1 .. (n - m + 1) : p[k] = t[m + k - 1]
    <3>1. m \in 1 .. (Len(t) + 1) /\ n \in (m - 1) .. Len(t)
      OBVIOUS
    <3> QED BY <3>1, SeqPart
  <2> HIDE DEF p
  <2> QED BY <2>1
<1>2. q \in Seq(S) /\ Len(q) = l /\ \A k \in 1 .. l : q[k] = t[m + k]
  <2>1. q \in Seq(S) /\ Len(q) = n - (m + 1) + 1 /\ \A k \in 1 .. (n - (m + 1) + 1) : q[k] = t[m + 1 + k - 1]
    <3>1. m + 1 \in 1 .. (Len(t) + 1) /\ n \in ((m + 1) - 1) .. Len(t)
      OBVIOUS
    <3> QED BY <3>1, SeqPart
  <2> HIDE DEF q
  <2>2. n - (m + 1) + 1 = l /\ \A k \in 1 .. l : m + 1 + k - 1 = m + k
    OBVIOUS
  <2> QED BY <2>1, <2>2
<1>3. SubSeq(t, n + 1, n) \o u = u
  OBVIOUS
<1> HIDE DEF p, q, l, j
<1>4. a \in Seq(S) /\ Len(a) = Len(p) + j
      /\ \A k \in 1 .. (Len(p) + j) : a[k] = IF k <= Len(p) THEN p[k] ELSE u[k - Len(p)]
  BY <1>1, SeqConcat DEF j
<1>5. b \in Seq(S) /\ Len(b) = Len(q) + j
      /\ \A k \in 1 .. (Len(q) + j) : b[k] = IF k <= Len(q) THEN q[k] ELSE u[k - Len(q)]
  BY <1>2, SeqConcat DEF j
<1> HIDE DEF a, b
<1>6. c \in Seq(S) /\ Len(c) = Len(b) + 1 /\ c[1] = t[m] /\ \A k \in 1 .. Len(b) : c[k + 1] = b[k]
  BY <1>0, <1>5, SeqFront
<1> HIDE DEF c
<1>7. ASSUME NEW k \in 1 .. Len(a) PROVE a[k] = c[k]
  <2>1. CASE k = 1
    <3>1. a[1] = p[1] /\ p[1] = t[m + 1 - 1]
      BY <1>0, <1>1, <1>4
    <3>2. m + 1 - 1 = m
      BY <1>0
    <3> QED BY <1>6, <2>1, <3>1, <3>2
  <2>2. CASE k # 1
    <3> DEFINE h == k - 1
    <3>1. h \in 1 .. (l + j) /\ k = h + 1 /\ h + 1 \in 1 .. (l + 1 + j)
      BY <1>0, <1>1, <1>4, <2>2
    <3> HIDE DEF h
    <3>2. c[h + 1] = b[h] /\ b[h] = IF h <= l THEN q[h] ELSE u[h - l]
      BY <1>2, <1>5, <1>6, <3>1
    <3>3. a[h + 1] = IF h + 1 <= l + 1 THEN p[h + 1] ELSE u[h + 1 - (l + 1)]
      BY <1>1, <1>4, <3>1
    <3>4. CASE h <= l
      <4>1. h \in 1 .. l /\ h + 1 \in 1 .. (l + 1) /\ h + 1 <= l + 1 /\ m + (h + 1) - 1 = m + h
        BY <1>0, <3>1, <3>4
      <4>2. q[h] = t[m + h] /\ p[h + 1] = t[m + (h + 1) - 1]
        BY <1>1, <1>2, <4>1
      <4> QED BY <3>1, <3>2, <3>3, <3>4, <4>1, <4>2
    <3>5. CASE ~ (h <= l)
      <4>1. ~ (h + 1 <= l + 1) /\ h + 1 - (l + 1) = h - l
        BY <1>0, <3>1, <3>5
      <4> QED BY <3>1, <3>2, <3>3, <3>5, <4>1
    <3> QED BY <3>4, <3>5
  <2> QED BY <2>1, <2>2
<1>8. Len(a) = Len(c)
  BY <1>0, <1>1, <1>2, <1>4, <1>5, <1>6
<1>9. a = c
  BY <1>4, <1>6, <1>7, <1>8, SeqSame
<1> QED BY <1>3, <1>9 DEF a, b, c, p, q, PartFirst

(* A part of a part. *)
Within(s, a, j, x, y) ==
  SubSeq(SubSeq(s, a, j - 1), x, y) = SubSeq(s, a + x - 1, a + y - 1)

LEMMA PartOfPart ==
  ASSUME NEW S, NEW s \in Seq(S), NEW a \in 1 .. (Len(s) + 1), NEW j \in a .. (Len(s) + 1),
         NEW x \in Nat \ {0}, NEW y \in 0 .. (j - a)
  PROVE  Within(s, a, j, x, y)
<1> DEFINE n == Len(s)
           t == SubSeq(s, a, j - 1)
           p == SubSeq(t, x, y)
           b == a + x - 1
           c == a + y - 1
           q == SubSeq(s, b, c)
<1>0. n \in Nat /\ a \in 1 .. (n + 1) /\ j \in a .. (n + 1)
  OBVIOUS
<1>1. t \in Seq(S) /\ Len(t) = j - a /\ \A k \in 1 .. (j - a) : t[k] = s[a + k - 1]
  <2>1. j - 1 \in (a - 1) .. n
    <3> HIDE DEF n
    <3> QED BY <1>0
  <2>2. t \in Seq(S) /\ Len(t) = (j - 1) - a + 1 /\ \A k \in 1 .. ((j - 1) - a + 1) : t[k] = s[a + k - 1]
    BY <2>1, SeqPart
  <2>3. (j - 1) - a + 1 = j - a
    <3> HIDE DEF n
    <3> QED BY <1>0
  <2> HIDE DEF t
  <2> QED BY <2>2, <2>3
<1> HIDE DEF t
<1>2. CASE x <= y + 1
  <2> DEFINE l == y - x + 1
  <2>1. x \in 1 .. (Len(t) + 1) /\ y \in (x - 1) .. Len(t)
    <3>1. x \in 1 .. (j - a + 1) /\ y \in (x - 1) .. (j - a)
      <4> HIDE DEF n
      <4> QED BY <1>0, <1>2
    <3> QED BY <1>1, <3>1
  <2>2. p \in Seq(S) /\ Len(p) = l /\ \A k \in 1 .. l : p[k] = t[x + k - 1]
    BY <1>1, <2>1, SeqPart
  <2>3. b \in 1 .. (n + 1) /\ c \in (b - 1) .. n /\ c - b + 1 = l
    <3> HIDE DEF n
    <3> QED BY <1>0, <1>2
  <2> HIDE DEF b, c
  <2>4. q \in Seq(S) /\ Len(q) = c - b + 1 /\ \A k \in 1 .. (c - b + 1) : q[k] = s[b + k - 1]
    BY <2>3, SeqPart
  <2> HIDE DEF p, q
  <2>5. Len(q) = l /\ \A k \in 1 .. l : q[k] = s[b + k - 1]
    <3> HIDE DEF l
    <3> QED BY <2>3, <2>4
  <2>6. ASSUME NEW k \in 1 .. l PROVE p[k] = q[k]
    <3> DEFINE h == x + k - 1
    <3>1. h \in 1 .. (j - a) /\ a + h - 1 = b + k - 1
      <4> HIDE DEF n
      <4> QED BY <1>0, <1>2 DEF b
    <3>2. p[k] = t[h]
      BY <2>2
    <3> HIDE DEF h
    <3>3. t[h] = s[a + h - 1]
      BY <1>1, <3>1
    <3>4. q[k] = s[b + k - 1]
      BY <2>5
    <3> QED BY <3>1, <3>2, <3>3, <3>4
  <2>7. p = q
    <3> HIDE DEF l
    <3> QED BY <2>2, <2>4, <2>5, <2>6, SeqSame
  <2> QED BY <2>7 DEF Within, p, q, t, b, c
<1>3. CASE ~ (x <= y + 1)
  <2>1. x > y /\ b > c /\ x \in Int /\ y \in Int /\ b \in Int /\ c \in Int
    <3> HIDE DEF n
    <3> QED BY <1>0, <1>3
  <2> HIDE DEF b, c
  <2>2. p = <<>>
    BY <1>1, <2>1
  <2>3. q = <<>>
    BY <2>1
  <2> QED BY <2>2, <2>3 DEF Within, p, q, t, b, c
<1> QED BY <1>2, <1>3

(* One digit in front. *)
LEMMA DecimalFront ==
  ASSUME NEW ds \in Seq(Int), NEW d \in Int
  PROVE  Decimal(<<d>> \o ds) = d * Pow(10, Len(ds)) + Decimal(ds)
<1> DEFINE Holds(s) == Decimal(<<d>> \o s) = d * Pow(10, Len(s)) + Decimal(s)
           X == {n \in Nat : \A s \in Seq(Int) : Len(s) = n => Holds(s)}
<1>1. 0 \in X
  <2> SUFFICES ASSUME NEW s \in Seq(Int), Len(s) = 0 PROVE Holds(s)
    OBVIOUS
  <2>1. s = <<>> /\ <<d>> \o s = Append(<<>>, d) /\ <<>> \in Seq(Int)
    OBVIOUS
  <2>2. Decimal(Append(<<>>, d)) = 10 * Decimal(<<>>) + d /\ Decimal(<<>>) = 0
    BY <2>1, DecimalNext
  <2>3. Pow(10, 0) = 1
    BY PowersOfTen
  <2> QED BY <2>1, <2>2, <2>3
<1>2. ASSUME NEW n \in Nat, n \in X PROVE n + 1 \in X
  <2>0. n + 1 \in Nat
    OBVIOUS
  <2> SUFFICES ASSUME NEW s \in Seq(Int), Len(s) = n + 1 PROVE Holds(s)
    BY Zenon, <2>0
  <2> DEFINE r == SubSeq(s, 1, n)
             x == s[n + 1]
             a == <<d>> \o r
  <2>1. r \in Seq(Int) /\ Len(r) = n /\ x \in Int
    <3>1. n \in 0 .. Len(s) /\ n + 1 \in 1 .. Len(s)
      OBVIOUS
    <3> QED BY <3>1, SeqPrefix, SeqElement
  <2>2. s = Append(r, x)
    <3> DEFINE c == Append(r, x)
    <3>1. c \in Seq(Int) /\ Len(c) = Len(r) + 1 /\ c[Len(r) + 1] = x
          /\ \A k \in 1 .. Len(r) : c[k] = r[k]
      <4> HIDE DEF r, x
      <4> QED BY <2>1, SeqAppend
    <3>2. \A k \in 1 .. n : r[k] = s[k]
      <4>1. n \in 0 .. Len(s)
        OBVIOUS
      <4> QED BY <4>1, SeqPrefix
    <3>3. ASSUME NEW k \in 1 .. Len(s) PROVE s[k] = c[k]
      <4> HIDE DEF c, r
      <4>1. CASE k = n + 1
        BY <2>1, <3>1, <4>1
      <4>2. CASE k # n + 1
        <5>1. k \in 1 .. n
          BY <4>2
        <5> QED BY <2>1, <3>1, <3>2, <5>1
      <4> QED BY <4>1, <4>2
    <3>4. Len(s) = Len(c)
      BY <2>1, <3>1
    <3> HIDE DEF c, r, x
    <3>5. s = c
      BY <3>1, <3>3, <3>4, SeqSame
    <3> QED BY <3>5 DEF c
  <2>3. a \in Seq(Int) /\ <<d>> \o Append(r, x) = Append(a, x)
    <3> HIDE DEF r, x
    <3> QED BY SMTT(30), <2>1, SeqFront, FrontAppend
  <2>4. Holds(r)
    <3> HIDE DEF r, Holds
    <3> QED BY <1>2, <2>1
  <2>5. Decimal(Append(a, x)) = 10 * Decimal(a) + x /\ Decimal(Append(r, x)) = 10 * Decimal(r) + x
        /\ Decimal(r) \in Int
    <3> HIDE DEF a, r, x
    <3> QED BY <2>1, <2>3, DecimalNext
  <2>6. Pow(10, n + 1) = 10 * Pow(10, n) /\ Pow(10, n) \in Nat
    <3>1. 10 \in Nat
      OBVIOUS
    <3> QED BY <3>1, PowNext
  <2>7. Decimal(a) = d * Pow(10, n) + Decimal(r)
    BY <2>1, <2>4
  <2>8. Decimal(<<d>> \o s) = 10 * Decimal(a) + x /\ Decimal(s) = 10 * Decimal(r) + x
    <3> HIDE DEF a, r, x
    <3> QED BY <2>2, <2>3, <2>5
  <2> DEFINE p == Pow(10, n)
             v == Decimal(r)
  <2> HIDE DEF a, r, x
  <2>9. 10 * (d * p + v) + x = d * (10 * p) + (10 * v + x)
    <3>1. p \in Int /\ v \in Int /\ x \in Int
      BY <2>1, <2>5, <2>6
    <3> HIDE DEF p, v
    <3> QED BY <3>1
  <2> QED BY <2>6, <2>7, <2>8, <2>9
<1>3. Nat \subseteq X
  <2> HIDE DEF X
  <2> QED BY <1>1, <1>2, SetInduction
<1> QED BY <1>3
=============================================================================
