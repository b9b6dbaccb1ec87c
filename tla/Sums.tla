-------------------------------- MODULE Sums --------------------------------
(***************************************************************************)
(* What the proofs need to know about the sum of a function over a finite  *)
(* set (SumFunctionOnSet of the community modules): its two equations, and *)
(* how it follows a change of the function.                                *)
(***************************************************************************)
EXTENDS Integers, FiniteSets, Functions, FiniteSetTheorems, NaturalsInduction,
        WellFoundedInduction, TLAPS

\* The element that is added last to the sum over s.
Pick(s) == CHOOSE x \in s : TRUE

LEMMA PickIn == \A s : s # {} => Pick(s) \in s
BY DEF Pick

\* A set of numbers that holds 0 and the successors of its elements is Nat.
LEMMA EveryNat ==
  ASSUME NEW N, 0 \in N, \A n \in Nat : n \in N => n + 1 \in N
  PROVE  Nat \subseteq N
<1> DEFINE T == Nat \ N
<1>1. SUFFICES ASSUME T # {} PROVE FALSE
  OBVIOUS
<1>2. PICK n \in T : \A m \in T : ~ (<<m, n>> \in OpToRel(<, Nat))
  BY <1>1, NatLessThanWellFounded, WFMin, Zenon
<1>3. n \in Nat /\ n \notin N /\ n # 0
  OBVIOUS
<1>4. n - 1 \in Nat /\ n - 1 < n /\ (n - 1) + 1 = n
  BY <1>3
<1>5. n - 1 \in T
  BY <1>3, <1>4
<1>6. <<n - 1, n>> \in OpToRel(<, Nat)
  BY <1>3, <1>4 DEF OpToRel
<1> QED BY <1>2, <1>5, <1>6

\* A set of subsets that holds the empty set, and a set if it holds the set
\* without the element that is added last, holds every subset.
LEMMA EverySubset ==
  ASSUME NEW S, IsFiniteSet(S), NEW G, {} \in G,
         \A s \in SUBSET S : s # {} /\ s \ {Pick(s)} \in G => s \in G
  PROVE  SUBSET S \subseteq G
<1> DEFINE N == {n \in Nat : \A s \in SUBSET S : Cardinality(s) = n => s \in G}
<1>1. \A s \in SUBSET S : IsFiniteSet(s) /\ Cardinality(s) \in Nat
  BY FS_Subset, FS_CardinalityType
<1>2. 0 \in N
  BY <1>1, FS_EmptySet
<1>3. ASSUME NEW n \in Nat, n \in N PROVE n + 1 \in N
  <2> SUFFICES ASSUME NEW s \in SUBSET S, Cardinality(s) = n + 1 PROVE s \in G
    OBVIOUS
  <2>1. s # {}
    <3>1. Cardinality(s) # 0
      OBVIOUS
    <3> QED BY <3>1, FS_EmptySet
  <2>2. Cardinality(s \ {Pick(s)}) = Cardinality(s) - 1
    BY <1>1, <2>1, PickIn, FS_RemoveElement
  <2>3. s \ {Pick(s)} \in G
    BY <1>3, <2>2
  <2> QED BY <2>1, <2>3
<1> HIDE DEF N
<1>4. Nat \subseteq N
  BY <1>2, <1>3, EveryNat
<1> USE DEF N
<1> QED BY <1>1, <1>4

\* The recursion equation of the sum.
Summed(f, S, g) ==
    [s \in SUBSET S |-> IF s = {} THEN 0 ELSE f[Pick(s)] + g[s \ {Pick(s)}]]

\* It holds of g for sets of at most n elements.
SumsUpTo(f, S, g, n) ==
    /\ g \in [SUBSET S -> Int]
    /\ \A s \in SUBSET S : Cardinality(s) <= n => g[s] = Summed(f, S, g)[s]

\* The recursion has a solution on the subsets of a finite set: one for sets of
\* at most n elements gives one for n + 1.
LEMMA SumExists ==
  ASSUME NEW S, IsFiniteSet(S), NEW f, \A x \in S : f[x] \in Int
  PROVE  \E g \in [SUBSET S -> Int] : g = Summed(f, S, g)
<1> DEFINE N == {n \in Nat : \E g : SumsUpTo(f, S, g, n)}
<1>1. \A s \in SUBSET S : IsFiniteSet(s) /\ Cardinality(s) \in Nat
                          /\ Cardinality(s) <= Cardinality(S)
  BY FS_Subset, FS_CardinalityType
<1>2. 0 \in N
  <2> DEFINE g == [s \in SUBSET S |-> 0]
  <2>1. \A s \in SUBSET S : Cardinality(s) <= 0 => s = {}
    BY <1>1, FS_EmptySet
  <2>2. SumsUpTo(f, S, g, 0)
    BY <2>1 DEF SumsUpTo, Summed
  <2> QED BY <2>2
<1>3. ASSUME NEW n \in Nat, n \in N PROVE n + 1 \in N
  <2>1. PICK g : SumsUpTo(f, S, g, n)
    BY <1>3
  <2> DEFINE h == Summed(f, S, g)
  <2>2. h \in [SUBSET S -> Int]
    <3>1. ASSUME NEW s \in SUBSET S, s # {} PROVE f[Pick(s)] + g[s \ {Pick(s)}] \in Int
      <4>1. Pick(s) \in S /\ s \ {Pick(s)} \in SUBSET S
        BY <3>1, PickIn
      <4>2. f[Pick(s)] \in Int /\ g[s \ {Pick(s)}] \in Int
        BY <2>1, <4>1 DEF SumsUpTo
      <4> QED BY <4>2
    <3>2. ASSUME NEW s \in SUBSET S
          PROVE  (IF s = {} THEN 0 ELSE f[Pick(s)] + g[s \ {Pick(s)}]) \in Int
      <4>1. CASE s = {}
        BY <4>1
      <4>2. CASE s # {}
        BY <3>1, <4>2
      <4> QED BY <4>1, <4>2
    <3>3. [s \in SUBSET S |-> IF s = {} THEN 0 ELSE f[Pick(s)] + g[s \ {Pick(s)}]]
            \in [SUBSET S -> Int]
      BY <3>2, Zenon
    <3> QED BY <3>3 DEF Summed
  <2>3. ASSUME NEW s \in SUBSET S, Cardinality(s) <= n + 1
        PROVE  h[s] = Summed(f, S, h)[s]
    <3>1. CASE s = {}
      BY <3>1 DEF Summed
    <3>2. CASE s # {}
      <4> DEFINE t == s \ {Pick(s)}
      <4>1. t \in SUBSET S /\ Cardinality(t) <= n
        BY <1>1, <2>3, <3>2, PickIn, FS_RemoveElement
      <4>2. g[t] = h[t]
        BY <2>1, <4>1 DEF SumsUpTo
      <4>3. h[s] = f[Pick(s)] + g[t] /\ Summed(f, S, h)[s] = f[Pick(s)] + h[t]
        BY <3>2 DEF Summed
      <4> QED BY <4>2, <4>3
    <3> QED BY <3>1, <3>2
  <2>4. SumsUpTo(f, S, h, n + 1)
    BY <2>2, <2>3 DEF SumsUpTo
  <2> QED BY <2>4
<1> HIDE DEF N
<1>4. Nat \subseteq N
  BY <1>2, <1>3, EveryNat
<1> USE DEF N
<1>5. Cardinality(S) \in Nat
  BY FS_CardinalityType
<1>6. PICK g : SumsUpTo(f, S, g, Cardinality(S))
  BY <1>4, <1>5
<1>7. \A s \in SUBSET S : g[s] = Summed(f, S, g)[s]
  BY <1>1, <1>6 DEF SumsUpTo
<1>8. g \in [SUBSET S -> Int] /\ g = Summed(f, S, g)
  BY <1>6, <1>7 DEF SumsUpTo, Summed
<1> QED BY <1>8

\* The sum over S is the value at S of such a solution, which obeys the two
\* equations of a sum.
LEMMA SumEquation ==
  ASSUME NEW S, IsFiniteSet(S), NEW f, \A x \in S : f[x] \in Int
  PROVE  \E g \in [SUBSET S -> Int] : g = Summed(f, S, g) /\ SumFunctionOnSet(f, S) = g[S]
<1> DEFINE Body(g) == [s \in SUBSET S |->
                        IF s = {} THEN 0
                        ELSE LET x == CHOOSE x \in s : TRUE IN f[x] + g[s \ {x}]]
           iter == CHOOSE g : g = Body(g)
<1>1. SumFunctionOnSet(f, S) = iter[S]
  BY DEF SumFunctionOnSet, FoldFunctionOnSet, MapThenFoldSet
<1>2. \A g : Summed(f, S, g) = Body(g)
  BY DEF Summed, Pick
<1> HIDE DEF Body
<1>3. \E g : g = Body(g)
  <2>1. \E g \in [SUBSET S -> Int] : g = Summed(f, S, g)
    BY SumExists
  <2> QED BY <1>2, <2>1, Zenon
<1>4. iter = Summed(f, S, iter)
  BY <1>2, <1>3
<1> HIDE DEF iter
<1>5. SUBSET S \subseteq {s \in SUBSET S : iter[s] \in Int}
  <2> DEFINE G == {s \in SUBSET S : iter[s] \in Int}
  <2>1. \A s \in SUBSET S : iter[s] = IF s = {} THEN 0 ELSE f[Pick(s)] + iter[s \ {Pick(s)}]
    BY <1>4 DEF Summed
  <2>2. {} \in G
    <3>1. {} \in SUBSET S
      OBVIOUS
    <3>2. iter[{}] = 0
      BY <2>1, <3>1
    <3> QED BY <3>1, <3>2
  <2>3. ASSUME NEW s \in SUBSET S, s # {}, s \ {Pick(s)} \in G PROVE s \in G
    BY <2>1, <2>3, PickIn
  <2> HIDE DEF G
  <2>4. SUBSET S \subseteq G
    BY <2>2, <2>3, EverySubset
  <2> QED BY <2>4 DEF G
<1>6. iter \in [SUBSET S -> Int]
  BY <1>4, <1>5 DEF Summed
<1> QED BY <1>1, <1>4, <1>6

-----------------------------------------------------------------------------
(* How a sum follows a change of the function.                              *)

\* What Summed says of one set.
LEMMA SumStep ==
  ASSUME NEW S, NEW f, NEW g, g = Summed(f, S, g)
  PROVE  /\ g[{}] = 0
         /\ \A s \in SUBSET S : s # {} =>
              /\ Pick(s) \in s /\ Pick(s) \in S /\ s \ {Pick(s)} \in SUBSET S
              /\ g[s] = f[Pick(s)] + g[s \ {Pick(s)}]
<1>1. \A s \in SUBSET S : g[s] = IF s = {} THEN 0 ELSE f[Pick(s)] + g[s \ {Pick(s)}]
  BY DEF Summed
<1>2. {} \in SUBSET S
  OBVIOUS
<1>3. g[{}] = 0
  BY <1>1, <1>2
<1> QED BY <1>1, <1>3, PickIn

\* Two functions, one at most the other.
LEMMA SumMonotone ==
  ASSUME NEW S, IsFiniteSet(S), NEW f, NEW h, \A x \in S : f[x] \in Int /\ h[x] \in Int,
         \A x \in S : f[x] <= h[x]
  PROVE  SumFunctionOnSet(f, S) <= SumFunctionOnSet(h, S)
<1>1. PICK g \in [SUBSET S -> Int] : g = Summed(f, S, g) /\ SumFunctionOnSet(f, S) = g[S]
  BY SumEquation
<1>2. PICK k \in [SUBSET S -> Int] : k = Summed(h, S, k) /\ SumFunctionOnSet(h, S) = k[S]
  BY SumEquation
<1> DEFINE G == {s \in SUBSET S : g[s] <= k[s]}
<1>3. {} \in G
  BY <1>1, <1>2, SumStep
<1>4. ASSUME NEW s \in SUBSET S, s # {}, s \ {Pick(s)} \in G PROVE s \in G
  <2>1. /\ g[s] = f[Pick(s)] + g[s \ {Pick(s)}] /\ k[s] = h[Pick(s)] + k[s \ {Pick(s)}]
        /\ Pick(s) \in S /\ s \ {Pick(s)} \in SUBSET S
    BY <1>1, <1>2, <1>4, SumStep
  <2>2. /\ g[s \ {Pick(s)}] \in Int /\ k[s \ {Pick(s)}] \in Int
        /\ f[Pick(s)] \in Int /\ h[Pick(s)] \in Int /\ f[Pick(s)] <= h[Pick(s)]
        /\ g[s \ {Pick(s)}] <= k[s \ {Pick(s)}]
    BY <1>4, <2>1
  <2> QED BY <2>1, <2>2
<1> HIDE DEF G
<1>5. SUBSET S \subseteq G
  BY <1>3, <1>4, EverySubset
<1> QED BY <1>1, <1>2, <1>5 DEF G

\* A sum of integers is an integer.
LEMMA SumType ==
  ASSUME NEW S, IsFiniteSet(S), NEW f, \A x \in S : f[x] \in Int
  PROVE  SumFunctionOnSet(f, S) \in Int
<1>1. \E g \in [SUBSET S -> Int] : g = Summed(f, S, g) /\ SumFunctionOnSet(f, S) = g[S]
  BY SumEquation
<1> QED BY <1>1

\* One value of the function grows by d.
LEMMA SumGrows ==
  ASSUME NEW S, IsFiniteSet(S), NEW f, NEW h, \A x \in S : f[x] \in Int,
         NEW y \in S, NEW d \in Int, h[y] = f[y] + d, \A x \in S \ {y} : h[x] = f[x]
  PROVE  SumFunctionOnSet(h, S) = SumFunctionOnSet(f, S) + d
<1>0. \A x \in S : h[x] \in Int
  OBVIOUS
<1>1. PICK g \in [SUBSET S -> Int] : g = Summed(f, S, g) /\ SumFunctionOnSet(f, S) = g[S]
  BY SumEquation
<1>2. PICK k \in [SUBSET S -> Int] : k = Summed(h, S, k) /\ SumFunctionOnSet(h, S) = k[S]
  BY <1>0, SumEquation
<1> DEFINE G == {s \in SUBSET S : k[s] = IF y \in s THEN g[s] + d ELSE g[s]}
<1>3. {} \in G
  BY <1>1, <1>2, SumStep
<1>4. ASSUME NEW s \in SUBSET S, s # {}, s \ {Pick(s)} \in G PROVE s \in G
  <2>1. /\ g[s] = f[Pick(s)] + g[s \ {Pick(s)}] /\ k[s] = h[Pick(s)] + k[s \ {Pick(s)}]
        /\ Pick(s) \in s /\ Pick(s) \in S /\ s \ {Pick(s)} \in SUBSET S
    BY <1>1, <1>2, <1>4, SumStep
  <2>2. /\ g[s \ {Pick(s)}] \in Int /\ f[Pick(s)] \in Int
        /\ k[s \ {Pick(s)}] = IF y \in s \ {Pick(s)} THEN g[s \ {Pick(s)}] + d
                              ELSE g[s \ {Pick(s)}]
    BY <1>4, <2>1
  <2>3. CASE Pick(s) = y
    <3>1. k[s] = f[y] + d + g[s \ {y}] /\ g[s] = f[y] + g[s \ {y}]
      BY <2>1, <2>2, <2>3
    <3> QED BY <2>1, <2>2, <2>3, <3>1
  <2>4. CASE Pick(s) # y
    <3>1. h[Pick(s)] = f[Pick(s)] /\ (y \in s \ {Pick(s)} <=> y \in s)
      BY <2>1, <2>4
    <3>2. CASE y \in s
      BY <2>1, <2>2, <3>1, <3>2
    <3>3. CASE y \notin s
      BY <2>1, <2>2, <3>1, <3>3
    <3> QED BY <3>2, <3>3
  <2> QED BY <2>3, <2>4
<1> HIDE DEF G
<1>5. SUBSET S \subseteq G
  BY <1>3, <1>4, EverySubset
<1> QED BY <1>1, <1>2, <1>5 DEF G

\* All values are zero.
LEMMA SumZero ==
  ASSUME NEW S, IsFiniteSet(S), NEW f, \A x \in S : f[x] = 0
  PROVE  SumFunctionOnSet(f, S) = 0
<1>0. \A x \in S : f[x] \in Int
  OBVIOUS
<1>1. PICK g \in [SUBSET S -> Int] : g = Summed(f, S, g) /\ SumFunctionOnSet(f, S) = g[S]
  BY <1>0, SumEquation
<1> DEFINE G == {s \in SUBSET S : g[s] = 0}
<1>2. {} \in G
  BY <1>1, SumStep
<1>3. ASSUME NEW s \in SUBSET S, s # {}, s \ {Pick(s)} \in G PROVE s \in G
  <2>1. /\ g[s] = f[Pick(s)] + g[s \ {Pick(s)}]
        /\ Pick(s) \in S /\ s \ {Pick(s)} \in SUBSET S
    BY <1>1, <1>3, SumStep
  <2> QED BY <1>3, <2>1
<1> HIDE DEF G
<1>4. SUBSET S \subseteq G
  BY <1>2, <1>3, EverySubset
<1> QED BY <1>1, <1>4 DEF G

\* A sum of values that are not negative is not less than any of them.
LEMMA SumCovers ==
  ASSUME NEW S, IsFiniteSet(S), NEW f, \A x \in S : f[x] \in Nat, NEW y \in S
  PROVE  f[y] <= SumFunctionOnSet(f, S)
<1> DEFINE h == [x \in S |-> IF x = y THEN f[x] ELSE 0]
           z == [x \in S |-> 0]
<1>1. SumFunctionOnSet(z, S) = 0
  BY SumZero
<1>2. SumFunctionOnSet(h, S) = SumFunctionOnSet(z, S) + f[y]
  <2>1. /\ \A x \in S : z[x] \in Int
        /\ h[y] = z[y] + f[y] /\ \A x \in S \ {y} : h[x] = z[x]
    OBVIOUS
  <2> HIDE DEF h, z
  <2>2. f[y] \in Int
    OBVIOUS
  <2> QED BY <2>1, <2>2, SumGrows
<1>3. SumFunctionOnSet(h, S) <= SumFunctionOnSet(f, S)
  <2>1. \A x \in S : h[x] \in Int /\ f[x] \in Int /\ h[x] <= f[x]
    OBVIOUS
  <2> HIDE DEF h
  <2> QED BY <2>1, SumMonotone
<1> HIDE DEF h, z
<1>4. f[y] \in Nat
  OBVIOUS
<1> QED BY <1>1, <1>2, <1>3, <1>4
=============================================================================
