------------------------------ MODULE SumProofs ------------------------------
(***************************************************************************)
(* What the sum of an integer function over a finite set is: SumFunction   *)
(* of the community modules, by which the ledgers add up hours.            *)
(*                                                                         *)
(* The provers know no induction.  That of the natural numbers is got from *)
(* a fact of the library without a predicate for a parameter: a relation   *)
(* that is well founded has a smallest element in every set.  What holds   *)
(* of every number is then what the set of its witnesses holds.            *)
(***************************************************************************)
EXTENDS Functions, FiniteSetTheorems, TLAPS

\* A set with 0, and with every number's successor, has all the numbers.
LEMMA NumbersInSet ==
  ASSUME NEW N, 0 \in N, \A n \in Nat : n \in N => n + 1 \in N
  PROVE  Nat \subseteq N
<1> DEFINE R == OpToRel(<, Nat)
           T == Nat \ N
<1>1. IsWellFoundedOn(R, Nat)
  BY NatLessThanWellFounded DEF OpToRel
<1>2. \A m, n \in Nat : m < n => <<m, n>> \in R
  BY DEF OpToRel
<1> SUFFICES ASSUME T # {} PROVE FALSE
  OBVIOUS
<1>3. T \subseteq Nat
  OBVIOUS
<1> HIDE DEF R
<1>4. PICK x \in T : \A y \in T : ~(<<y, x>> \in R)
  <2> HIDE DEF T
  <2> QED  BY <1>1, <1>3, WFMin
<1>5. x \in Nat /\ x # 0
  OBVIOUS
<1>6. x - 1 \in Nat /\ x - 1 < x
  BY <1>5
<1>7. x - 1 \in N
  BY <1>2, <1>4, <1>5, <1>6
<1> QED  BY <1>5, <1>6, <1>7

-----------------------------------------------------------------------------
(* The recursion under SumFunction.                                        *)

First(s) == CHOOSE x \in s : TRUE

Iter(f, S) == CHOOSE iter : iter = [s \in SUBSET S |->
  IF s = {} THEN 0 ELSE f[First(s)] + iter[s \ {First(s)}]]

Numeric(f, S) == \A x \in S : f[x] \in Int

\* The sum is the recursion's value at the whole set.
LEMMA SumIsIter == ASSUME NEW f, NEW S PROVE SumFunctionOnSet(f, S) = Iter(f, S)[S]
  BY DEF SumFunctionOnSet, FoldFunctionOnSet, MapThenFoldSet, Iter, First

\* The element taken first is one of the set.
LEMMA FirstIn == ASSUME NEW s, s # {} PROVE First(s) \in s
  BY DEF First

\* A set less its first is smaller.
LEMMA RestSmaller ==
  ASSUME NEW S, IsFiniteSet(S), NEW s \in SUBSET S, NEW x \in s
  PROVE  /\ Cardinality(s) \in Nat /\ Cardinality(s) # 0
         /\ Cardinality(s \ {x}) = Cardinality(s) - 1 /\ s \ {x} \in SUBSET S
<1>1. IsFiniteSet(s)
  BY FS_Subset
<1>2. Cardinality(s) \in Nat /\ Cardinality(s \ {x}) = Cardinality(s) - 1
  BY <1>1, FS_CardinalityType, FS_RemoveElement
<1>3. Cardinality(s) # 0
  BY <1>1, FS_EmptySet
<1> QED  BY <1>2, <1>3

\* The sizes of subsets.
LEMMA SubsetSize ==
  ASSUME NEW S, IsFiniteSet(S), NEW s \in SUBSET S
  PROVE  /\ Cardinality(s) \in Nat /\ Cardinality(s) <= Cardinality(S)
         /\ Cardinality(S) \in Nat /\ (Cardinality(s) = 0 <=> s = {})
  BY FS_Subset, FS_CardinalityType, FS_EmptySet

StepOf(f, g, s) == IF s = {} THEN 0 ELSE f[First(s)] + g[s \ {First(s)}]

Recurses(f, g, S, n) == \A s \in SUBSET S : Cardinality(s) <= n => g[s] = StepOf(f, g, s)

IsDefinedUpTo(f, S, n) == \E g \in [SUBSET S -> Int] : Recurses(f, g, S, n)

\* Whatever the size, some function is as the recursion says up to it.
LEMMA IterUpTo ==
  ASSUME NEW S, IsFiniteSet(S), NEW f, Numeric(f, S)
  PROVE  \A n \in Nat : IsDefinedUpTo(f, S, n)
<1> USE DEF Recurses, IsDefinedUpTo
<1> DEFINE Good(n, g) == \A s \in SUBSET S : Cardinality(s) <= n => g[s] = StepOf(f, g, s)
           N == {n \in Nat : \E g \in [SUBSET S -> Int] : Good(n, g)}
<1>1. 0 \in N
  <2> DEFINE g == [s \in SUBSET S |-> 0]
  <2>1. g \in [SUBSET S -> Int]
    OBVIOUS
  <2>2. ASSUME NEW s \in SUBSET S, Cardinality(s) <= 0 PROVE g[s] = StepOf(f, g, s)
    <3>1. s = {}
      BY <2>2, SubsetSize
    <3>2. g[s] = 0
      OBVIOUS
    <3> HIDE DEF g
    <3> QED  BY <3>1, <3>2 DEF StepOf
  <2>3. Good(0, g)
    BY <2>2
  <2> HIDE DEF g, Good
  <2> QED  BY <2>1, <2>3
<1>2. ASSUME NEW n \in Nat, n \in N PROVE n + 1 \in N
  <2>1. PICK g \in [SUBSET S -> Int] : Good(n, g)
    BY <1>2
  <2> DEFINE h == [s \in SUBSET S |-> IF Cardinality(s) = n + 1 THEN StepOf(f, g, s) ELSE g[s]]
  <2>2. \A s \in SUBSET S : StepOf(f, g, s) \in Int
    <3> TAKE s \in SUBSET S
    <3>1. CASE s = {}
      BY <3>1 DEF StepOf
    <3>2. CASE s # {}
      <4>1. First(s) \in S /\ s \ {First(s)} \in SUBSET S
        BY <3>2, FirstIn
      <4>2. f[First(s)] \in Int /\ g[s \ {First(s)}] \in Int
        BY <4>1 DEF Numeric
      <4> QED  BY <3>2, <4>2 DEF StepOf
    <3> QED  BY <3>1, <3>2
  <2>3. h \in [SUBSET S -> Int]
    BY <2>2
  <2>4. ASSUME NEW s \in SUBSET S, Cardinality(s) <= n PROVE h[s] = g[s]
    BY <2>4, SubsetSize
  <2>5. ASSUME NEW s \in SUBSET S, Cardinality(s) <= n + 1 PROVE h[s] = StepOf(f, h, s)
    <3>1. StepOf(f, h, s) = StepOf(f, g, s)
      <4>1. CASE s = {}
        BY <4>1 DEF StepOf
      <4>2. CASE s # {}
        <5>1. Cardinality(s \ {First(s)}) <= n /\ s \ {First(s)} \in SUBSET S
          BY <2>5, <4>2, FirstIn, RestSmaller
        <5>2. h[s \ {First(s)}] = g[s \ {First(s)}]
          BY <2>4, <5>1
        <5> QED  BY <5>2 DEF StepOf
      <4> QED  BY <4>1, <4>2
    <3>2. CASE Cardinality(s) = n + 1
      BY <3>1, <3>2
    <3>3. CASE Cardinality(s) # n + 1
      <4>1. Cardinality(s) <= n
        BY <2>5, <3>3, SubsetSize
      <4> QED  BY <2>1, <2>4, <3>1, <4>1
    <3> QED  BY <3>2, <3>3
  <2> HIDE DEF h
  <2> QED  BY <2>3, <2>5
<1>3. Nat \subseteq N
  <2> HIDE DEF N
  <2> QED  BY <1>1, <1>2, NumbersInSet
<1> QED  BY <1>3

\* So the recursion has a value, a number, for every subset.
LEMMA IterIs ==
  ASSUME NEW S, IsFiniteSet(S), NEW f, Numeric(f, S)
  PROVE  /\ Iter(f, S) \in [SUBSET S -> Int]
         /\ \A s \in SUBSET S : Iter(f, S)[s] = StepOf(f, Iter(f, S), s)
<1>0. IsDefinedUpTo(f, S, Cardinality(S))
  BY IterUpTo, FS_CardinalityType
<1>1. PICK g \in [SUBSET S -> Int] : Recurses(f, g, S, Cardinality(S))
  BY <1>0 DEF IsDefinedUpTo
<1>2. \A s \in SUBSET S : g[s] = StepOf(f, g, s)
  <2>1. \A s \in SUBSET S : Cardinality(s) <= Cardinality(S)
    BY SubsetSize
  <2> QED  BY <1>1, <2>1 DEF Recurses
<1>3. g = [s \in SUBSET S |-> StepOf(f, g, s)]
  BY <1>2
<1>4. Iter(f, S) = [s \in SUBSET S |-> StepOf(f, Iter(f, S), s)]
  BY <1>3 DEF Iter, StepOf
<1> DEFINE I == Iter(f, S)
<1>5. \A s \in SUBSET S : I[s] = StepOf(f, I, s)
  BY <1>4
<1>6. DOMAIN I = SUBSET S /\ I = [s \in SUBSET S |-> I[s]]
  BY <1>4
<1> HIDE DEF I
<1> DEFINE N == {n \in Nat : \A s \in SUBSET S : Cardinality(s) = n => I[s] \in Int}
<1>7. 0 \in N
  <2> SUFFICES ASSUME NEW s \in SUBSET S, Cardinality(s) = 0 PROVE I[s] \in Int
    OBVIOUS
  <2>1. s = {}
    BY SubsetSize
  <2>2. StepOf(f, I, s) = 0
    BY <2>1 DEF StepOf
  <2> QED  BY <1>5, <2>2
<1>8. ASSUME NEW n \in Nat, n \in N PROVE n + 1 \in N
  <2> SUFFICES ASSUME NEW s \in SUBSET S, Cardinality(s) = n + 1 PROVE I[s] \in Int
    OBVIOUS
  <2>1. s # {}
    BY SubsetSize
  <2>2. First(s) \in s /\ s \ {First(s)} \in SUBSET S /\ Cardinality(s \ {First(s)}) = n
    BY <2>1, FirstIn, RestSmaller
  <2>3. I[s \ {First(s)}] \in Int /\ f[First(s)] \in Int
    BY <1>8, <2>2 DEF Numeric
  <2> QED  BY <1>5, <2>1, <2>3 DEF StepOf
<1>9. Nat \subseteq N
  <2> HIDE DEF N
  <2> QED  BY <1>7, <1>8, NumbersInSet
<1>10. \A s \in SUBSET S : I[s] \in Int
  BY <1>9, SubsetSize
<1> QED  BY <1>5, <1>6, <1>10 DEF I

\* Whichever element is taken first, the recursion gives the same.
LEMMA AnyFirst ==
  ASSUME NEW S, IsFiniteSet(S), NEW f, Numeric(f, S)
  PROVE  \A s \in SUBSET S : \A x \in s : Iter(f, S)[s] = f[x] + Iter(f, S)[s \ {x}]
<1> DEFINE I == Iter(f, S)
           Any(s) == \A x \in s : I[s] = f[x] + I[s \ {x}]
           N == {n \in Nat : \A s \in SUBSET S : Cardinality(s) = n => Any(s)}
<1>1. I \in [SUBSET S -> Int] /\ \A s \in SUBSET S : I[s] = StepOf(f, I, s)
  BY IterIs
<1>2. \A x \in S : f[x] \in Int
  BY DEF Numeric
<1> HIDE DEF I
<1>3. 0 \in N
  <2> SUFFICES ASSUME NEW s \in SUBSET S, Cardinality(s) = 0 PROVE Any(s)
    OBVIOUS
  <2> QED  BY SubsetSize
<1>4. ASSUME NEW n \in Nat, n \in N PROVE n + 1 \in N
  <2> SUFFICES ASSUME NEW s \in SUBSET S, Cardinality(s) = n + 1, NEW x \in s
               PROVE  I[s] = f[x] + I[s \ {x}]
    OBVIOUS
  <2> DEFINE y == First(s)
  <2>1. y \in s
    BY FirstIn
  <2> HIDE DEF y
  <2>2. I[s] = f[y] + I[s \ {y}]
    BY <1>1, <2>1 DEF StepOf, y
  <2>3. CASE x = y
    BY <2>2, <2>3
  <2>4. CASE x # y
    <3>1. s \ {x} \in SUBSET S /\ s \ {y} \in SUBSET S /\ (s \ {x}) \ {y} \in SUBSET S
      OBVIOUS
    <3>2. Cardinality(s \ {x}) = n /\ Cardinality(s \ {y}) = n
      BY <2>1, RestSmaller
    <3>3. Any(s \ {x}) /\ Any(s \ {y})
      BY <1>4, <3>1, <3>2
    <3>4. I[s \ {y}] = f[x] + I[(s \ {y}) \ {x}]
      BY <2>4, <3>3
    <3>5. I[s \ {x}] = f[y] + I[(s \ {x}) \ {y}]
      BY <2>1, <2>4, <3>3
    <3>6. (s \ {y}) \ {x} = (s \ {x}) \ {y}
      OBVIOUS
    <3>7. f[x] \in Int /\ f[y] \in Int /\ I[(s \ {x}) \ {y}] \in Int
      BY <1>1, <1>2, <2>1, <3>1
    <3>8. I[s] = f[y] + (f[x] + I[(s \ {x}) \ {y}])
      BY <2>2, <3>4, <3>6, Zenon
    <3>9. f[x] + I[s \ {x}] = f[x] + (f[y] + I[(s \ {x}) \ {y}])
      BY <3>5, Zenon
    <3>10. \A i, j, k \in Int : i + (j + k) = j + (i + k)
      OBVIOUS
    <3>11. f[y] + (f[x] + I[(s \ {x}) \ {y}]) = f[x] + (f[y] + I[(s \ {x}) \ {y}])
      BY <3>7, <3>10, Zenon
    <3> QED  BY <3>8, <3>9, <3>11, Zenon
  <2> QED  BY <2>3, <2>4
<1>5. Nat \subseteq N
  <2> HIDE DEF N
  <2> QED  BY <1>3, <1>4, NumbersInSet
<1>6. \A s \in SUBSET S : Any(s)
  BY <1>5, SubsetSize
<1> QED  BY <1>6 DEF I

-----------------------------------------------------------------------------
(* What the sum does with the set: empty, and one more element.            *)

\* The recursion for a set and for one element less agree on the rest.
LEMMA IterAgrees ==
  ASSUME NEW S, IsFiniteSet(S), NEW T \in SUBSET S, NEW f, Numeric(f, S)
  PROVE  \A s \in SUBSET T : Iter(f, S)[s] = Iter(f, T)[s]
<1> DEFINE I == Iter(f, S)
           J == Iter(f, T)
           N == {n \in Nat : \A s \in SUBSET T : Cardinality(s) = n => I[s] = J[s]}
<1>1. IsFiniteSet(T) /\ Numeric(f, T)
  BY FS_Subset DEF Numeric
<1>2. \A s \in SUBSET S : I[s] = StepOf(f, I, s)
  BY IterIs
<1>3. \A s \in SUBSET T : J[s] = StepOf(f, J, s)
  BY <1>1, IterIs
<1> HIDE DEF I, J
<1>4. 0 \in N
  <2> SUFFICES ASSUME NEW s \in SUBSET T, Cardinality(s) = 0 PROVE I[s] = J[s]
    OBVIOUS
  <2>1. s = {}
    BY <1>1, SubsetSize
  <2>2. StepOf(f, I, s) = 0 /\ StepOf(f, J, s) = 0
    BY <2>1 DEF StepOf
  <2> QED  BY <1>2, <1>3, <2>2
<1>5. ASSUME NEW n \in Nat, n \in N PROVE n + 1 \in N
  <2> SUFFICES ASSUME NEW s \in SUBSET T, Cardinality(s) = n + 1 PROVE I[s] = J[s]
    OBVIOUS
  <2>1. s # {}
    BY <1>1, SubsetSize
  <2>2. First(s) \in s /\ s \ {First(s)} \in SUBSET T /\ Cardinality(s \ {First(s)}) = n
    BY <1>1, <2>1, FirstIn, RestSmaller
  <2>3. I[s \ {First(s)}] = J[s \ {First(s)}]
    BY <1>5, <2>2
  <2>4. StepOf(f, I, s) = StepOf(f, J, s)
    BY <2>3 DEF StepOf
  <2> QED  BY <1>2, <1>3, <2>4
<1>6. Nat \subseteq N
  <2> HIDE DEF N
  <2> QED  BY <1>4, <1>5, NumbersInSet
<1>7. \A s \in SUBSET T : I[s] = J[s]
  BY <1>1, <1>6, SubsetSize
<1> QED  BY <1>7 DEF I, J

\* The sum over no element is 0, and an element adds its value to that of the rest.
LEMMA SumSteps ==
  ASSUME NEW S, IsFiniteSet(S), NEW f, Numeric(f, S)
  PROVE  /\ SumFunctionOnSet(f, S) \in Int
         /\ SumFunctionOnSet(f, {}) = 0
         /\ \A x \in S : SumFunctionOnSet(f, S) = f[x] + SumFunctionOnSet(f, S \ {x})
<1>1. SumFunctionOnSet(f, S) \in Int
  BY IterIs, SumIsIter
<1>2. SumFunctionOnSet(f, {}) = 0
  <2>1. IsFiniteSet({}) /\ Numeric(f, {})
    BY FS_EmptySet DEF Numeric
  <2>2. Iter(f, {})[{}] = StepOf(f, Iter(f, {}), {})
    BY <2>1, IterIs
  <2> QED  BY <2>2, SumIsIter DEF StepOf
<1>3. ASSUME NEW x \in S PROVE SumFunctionOnSet(f, S) = f[x] + SumFunctionOnSet(f, S \ {x})
  <2>1. Iter(f, S)[S] = f[x] + Iter(f, S)[S \ {x}]
    BY AnyFirst
  <2>2. Iter(f, S)[S \ {x}] = Iter(f, S \ {x})[S \ {x}]
    <3>1. S \ {x} \in SUBSET S /\ S \ {x} \in SUBSET (S \ {x})
      OBVIOUS
    <3> QED  BY <3>1, IterAgrees
  <2> QED  BY <2>1, <2>2, SumIsIter
<1> QED  BY <1>1, <1>2, <1>3

-----------------------------------------------------------------------------
(* Facts about sums, each by induction over the set: the good subsets hold *)
(* the empty one, and one more element keeps a subset good.                *)

\* A collection of subsets that has the empty one and grows by single
\* elements has the whole set.
LEMMA GrowingSets ==
  ASSUME NEW S, IsFiniteSet(S), NEW G, {} \in G,
         \A s \in SUBSET S : \A x \in s : s \ {x} \in G => s \in G
  PROVE  S \in G
<1> DEFINE N == {n \in Nat : \A s \in SUBSET S : Cardinality(s) = n => s \in G}
<1>1. 0 \in N
  BY SubsetSize
<1>2. ASSUME NEW n \in Nat, n \in N PROVE n + 1 \in N
  <2> SUFFICES ASSUME NEW s \in SUBSET S, Cardinality(s) = n + 1 PROVE s \in G
    OBVIOUS
  <2>1. PICK x \in s : TRUE
    BY SubsetSize
  <2>2. s \ {x} \in SUBSET S /\ Cardinality(s \ {x}) = n
    BY RestSmaller
  <2> QED  BY <1>2, <2>2
<1>3. Nat \subseteq N
  <2> HIDE DEF N
  <2> QED  BY <1>1, <1>2, NumbersInSet
<1> QED  BY <1>3, FS_CardinalityType

\* The sums of subsets, and what one element adds to them.
LEMMA SubsetSums ==
  ASSUME NEW S, IsFiniteSet(S), NEW f, Numeric(f, S), NEW s \in SUBSET S
  PROVE  /\ SumFunctionOnSet(f, s) \in Int
         /\ SumFunctionOnSet(f, {}) = 0
         /\ \A x \in s : /\ f[x] \in Int
                        /\ SumFunctionOnSet(f, s \ {x}) \in Int
                        /\ SumFunctionOnSet(f, s) = f[x] + SumFunctionOnSet(f, s \ {x})
<1>1. IsFiniteSet(s) /\ Numeric(f, s)
  BY FS_Subset DEF Numeric
<1>2. ASSUME NEW x \in s PROVE SumFunctionOnSet(f, s \ {x}) \in Int
  <2>1. IsFiniteSet(s \ {x}) /\ Numeric(f, s \ {x})
    BY <1>1, FS_Subset DEF Numeric
  <2> QED  BY <2>1, SumSteps
<1>3. \A x \in s : f[x] \in Int
  BY DEF Numeric
<1> QED  BY <1>1, <1>2, <1>3, SumSteps

\* Term by term, the sum of two functions is the sum of their sums.
LEMMA SumAdds ==
  ASSUME NEW S, IsFiniteSet(S), NEW f, Numeric(f, S), NEW g, Numeric(g, S),
         NEW h, \A x \in S : h[x] = f[x] + g[x]
  PROVE  SumFunctionOnSet(h, S) = SumFunctionOnSet(f, S) + SumFunctionOnSet(g, S)
<1> DEFINE Adds(s) == SumFunctionOnSet(h, s) = SumFunctionOnSet(f, s) + SumFunctionOnSet(g, s)
           G == {s \in SUBSET S : Adds(s)}
<1>0. Numeric(h, S)
  BY DEF Numeric
<1>1. {} \in G
  BY <1>0, SubsetSums
<1>2. ASSUME NEW s \in SUBSET S, NEW x \in s, s \ {x} \in G PROVE s \in G
  <2>1. /\ f[x] \in Int /\ SumFunctionOnSet(f, s \ {x}) \in Int
        /\ SumFunctionOnSet(f, s) = f[x] + SumFunctionOnSet(f, s \ {x})
        /\ g[x] \in Int /\ SumFunctionOnSet(g, s \ {x}) \in Int
        /\ SumFunctionOnSet(g, s) = g[x] + SumFunctionOnSet(g, s \ {x})
        /\ SumFunctionOnSet(h, s) = h[x] + SumFunctionOnSet(h, s \ {x})
    <3>1. ASSUME NEW q, Numeric(q, S)
          PROVE  /\ q[x] \in Int /\ SumFunctionOnSet(q, s \ {x}) \in Int
                 /\ SumFunctionOnSet(q, s) = q[x] + SumFunctionOnSet(q, s \ {x})
      BY <1>2, <3>1, SubsetSums
    <3> QED  BY <1>0, <3>1
  <2>2. h[x] = f[x] + g[x] /\ Adds(s \ {x})
    BY <1>2
  <2>3. Adds(s)
    BY <2>1, <2>2
  <2> QED  BY <2>3
<1> HIDE DEF G
<1>3. S \in G
  BY <1>1, <1>2, GrowingSets
<1> QED  BY <1>3 DEF G

\* A sum of nothing but zeros.
LEMMA SumOfZeros ==
  ASSUME NEW S, IsFiniteSet(S), NEW f, \A x \in S : f[x] = 0
  PROVE  SumFunctionOnSet(f, S) = 0
<1>1. Numeric(f, S) /\ \A x \in S : f[x] = f[x] + f[x]
  BY DEF Numeric
<1>2. SumFunctionOnSet(f, S) = SumFunctionOnSet(f, S) + SumFunctionOnSet(f, S)
  BY <1>1, SumAdds
<1>3. SumFunctionOnSet(f, S) \in Int
  BY <1>1, SumSteps
<1>4. \A n \in Int : n = n + n => n = 0
  OBVIOUS
<1> QED  BY ONLY <1>2, <1>3, <1>4

\* Functions that agree on the set have one sum.
LEMMA SumAgrees ==
  ASSUME NEW S, IsFiniteSet(S), NEW f, Numeric(f, S), NEW h, \A x \in S : h[x] = f[x]
  PROVE  SumFunctionOnSet(h, S) = SumFunctionOnSet(f, S)
<1> DEFINE z == [x \in S |-> 0]
<1>1. Numeric(z, S) /\ (\A x \in S : z[x] = 0) /\ \A x \in S : h[x] = f[x] + z[x]
  BY DEF Numeric
<1> HIDE DEF z
<1>2. SumFunctionOnSet(h, S) = SumFunctionOnSet(f, S) + SumFunctionOnSet(z, S)
  BY <1>1, SumAdds
<1> QED  BY <1>1, <1>2, SumOfZeros, SumSteps

\* Term by term, the difference of two functions.
LEMMA SumSubtracts ==
  ASSUME NEW S, IsFiniteSet(S), NEW f, Numeric(f, S), NEW g, Numeric(g, S),
         NEW h, \A x \in S : h[x] = f[x] - g[x]
  PROVE  SumFunctionOnSet(h, S) = SumFunctionOnSet(f, S) - SumFunctionOnSet(g, S)
<1>1. Numeric(h, S) /\ \A x \in S : f[x] = h[x] + g[x]
  BY DEF Numeric
<1>2. SumFunctionOnSet(f, S) = SumFunctionOnSet(h, S) + SumFunctionOnSet(g, S)
  BY <1>1, SumAdds
<1> QED  BY <1>1, <1>2, SumSteps

\* One element's value changed by d changes the sum by d.
LEMMA SumUpdates ==
  ASSUME NEW S, IsFiniteSet(S), NEW f, Numeric(f, S), NEW e \in S, NEW d \in Int,
         NEW h, \A x \in S : h[x] = IF x = e THEN f[x] + d ELSE f[x]
  PROVE  SumFunctionOnSet(h, S) = SumFunctionOnSet(f, S) + d
<1>1. Numeric(h, S) /\ h[e] = f[e] + d /\ f[e] \in Int
  BY DEF Numeric
<1>2. IsFiniteSet(S \ {e}) /\ Numeric(f, S \ {e}) /\ \A x \in S \ {e} : h[x] = f[x]
  BY FS_Subset DEF Numeric
<1>3. SumFunctionOnSet(h, S \ {e}) = SumFunctionOnSet(f, S \ {e})
  BY <1>2, SumAgrees
<1>4. SumFunctionOnSet(f, S \ {e}) \in Int
  BY <1>2, SumSteps
<1>5. /\ SumFunctionOnSet(h, S) = h[e] + SumFunctionOnSet(h, S \ {e})
      /\ SumFunctionOnSet(f, S) = f[e] + SumFunctionOnSet(f, S \ {e})
  BY <1>1, SumSteps
<1> QED  BY <1>1, <1>3, <1>4, <1>5

\* A sum of numbers none of which is below zero: no term is above it.
LEMMA SumCovers ==
  ASSUME NEW S, IsFiniteSet(S), NEW f, \A x \in S : f[x] \in Nat
  PROVE  /\ SumFunctionOnSet(f, S) \in Nat
         /\ \A x \in S : f[x] <= SumFunctionOnSet(f, S)
<1> DEFINE G == {s \in SUBSET S : SumFunctionOnSet(f, s) >= 0}
<1>0. Numeric(f, S)
  BY DEF Numeric
<1>1. {} \in G
  BY <1>0, SubsetSums
<1>2. ASSUME NEW s \in SUBSET S, NEW x \in s, s \ {x} \in G PROVE s \in G
  BY <1>0, <1>2, SubsetSums
<1>3. \A s \in SUBSET S : s \in G
  <2> SUFFICES ASSUME NEW s \in SUBSET S PROVE s \in G
    OBVIOUS
  <2>1. IsFiniteSet(s) /\ \A t \in SUBSET s : \A x \in t : t \ {x} \in G => t \in G
    BY <1>2, FS_Subset
  <2> HIDE DEF G
  <2> QED  BY <1>1, <2>1, GrowingSets
<1>4. ASSUME NEW x \in S PROVE f[x] <= SumFunctionOnSet(f, S)
  <2>1. SumFunctionOnSet(f, S \ {x}) >= 0 /\ S \in SUBSET S
    BY <1>3
  <2>2. f[x] \in Int /\ SumFunctionOnSet(f, S \ {x}) \in Int
    BY <1>0, <2>1, SubsetSums
  <2>3. SumFunctionOnSet(f, S) = f[x] + SumFunctionOnSet(f, S \ {x})
    BY <1>0, SumSteps
  <2> QED  BY <2>1, <2>2, <2>3
<1>5. S \in G
  BY <1>3
<1> QED  BY <1>0, <1>4, <1>5, SumSteps

\* The sum of a whole function.
LEMMA SumOfFunction ==
  ASSUME NEW S, NEW f, DOMAIN f = S
  PROVE  SumFunction(f) = SumFunctionOnSet(f, S)
  BY DEF SumFunction
=============================================================================
