------------------------------ MODULE SumProofs ------------------------------
(***************************************************************************)
(* Facts about SumFunctionOnSet, the sum of the values of a function over  *)
(* a finite set, which the ledgers of OrderTrade and Subscription are      *)
(* written with.                                                           *)
(*                                                                         *)
(* The sum is a fold: a function on the subsets of S, defined by recursion *)
(* on an element that CHOOSE takes.  The induction theorems of the library *)
(* are about an operator; what is used here instead is that a set of       *)
(* natural numbers that is not empty has a least element.                  *)
(***************************************************************************)
EXTENDS Integers, FiniteSets, Functions, FiniteSetTheorems, WellFoundedInduction, TLAPS

\* Induction over the natural numbers, for a set instead of a predicate.
LEMMA NatSetInduction ==
  ASSUME NEW T \in SUBSET Nat, 0 \in T, \A n \in T : n + 1 \in T
  PROVE  \A n \in Nat : n \in T
<1>1. SUFFICES ASSUME NEW m \in Nat, m \notin T
               PROVE  FALSE
  OBVIOUS
<1>2. PICK least \in Nat \ T : \A y \in Nat \ T : ~ (<<y, least>> \in OpToRel(<, Nat))
  <2>1. Nat \ T # {} /\ Nat \ T \subseteq Nat
    BY <1>1
  <2>2. QED
    BY <2>1, WFMin, NatLessThanWellFounded
<1>3. \A y \in Nat \ T : ~ (y < least)
  BY <1>2 DEF OpToRel
<1>4. least # 0 /\ least - 1 \in Nat
  OBVIOUS
<1>5. least - 1 \in T
  BY <1>3, <1>4
<1>6. QED
  BY <1>4, <1>5

\* The element a fold takes first.
First(s) == CHOOSE x \in s : TRUE

\* One turn of the recursion.
Turn(g, f, S) ==
  [s \in SUBSET S |-> IF s = {} THEN 0 ELSE f[First(s)] + g[s \ {First(s)}]]

\* g is the function that the fold of f over S defines.
Adds(g, f, S) == g = Turn(g, f, S)

\* g is right for the subsets of at most n elements.
AddsUpTo(g, f, S, n) ==
  \A s \in SUBSET S : Cardinality(s) <= n => g[s] = Turn(g, f, S)[s]

LEMMA FirstIsIn ==
  ASSUME NEW s, s # {}
  PROVE  First(s) \in s
BY DEF First

\* The sizes of the subsets that lose their first element.
LEMMA Smaller ==
  ASSUME NEW S, IsFiniteSet(S), NEW s \in SUBSET S, NEW x \in s
  PROVE  /\ Cardinality(s) \in Nat \ {0}
         /\ s \ {x} \in SUBSET S
         /\ Cardinality(s \ {x}) = Cardinality(s) - 1
<1>1. IsFiniteSet(s) /\ Cardinality(s) \in Nat
  BY FS_Subset, FS_CardinalityType
<1>2. Cardinality(s \ {x}) = Cardinality(s) - 1
  BY <1>1, FS_RemoveElement
<1>3. Cardinality(s) # 0
  BY <1>1, FS_EmptySet
<1>4. QED
  BY <1>1, <1>2, <1>3

LEMMA NoneSmaller ==
  ASSUME NEW S, IsFiniteSet(S), NEW s \in SUBSET S, Cardinality(s) <= 0
  PROVE  s = {}
<1>1. IsFiniteSet(s) /\ Cardinality(s) \in Nat
  BY FS_Subset, FS_CardinalityType
<1>2. QED
  BY <1>1, FS_EmptySet

\* The recursion has a solution: one for the subsets of n elements gives one
\* for those of n + 1.
LEMMA SumsExist ==
  ASSUME NEW S, IsFiniteSet(S), NEW f, \A x \in S : f[x] \in Int
  PROVE  \E g \in [SUBSET S -> Int] : Adds(g, f, S)
<1> DEFINE T == {n \in Nat : \E g \in [SUBSET S -> Int] : AddsUpTo(g, f, S, n)}
<1>1. ASSUME NEW g \in [SUBSET S -> Int]
      PROVE  Turn(g, f, S) \in [SUBSET S -> Int]
  <2>1. ASSUME NEW s \in SUBSET S, s # {}
        PROVE  f[First(s)] + g[s \ {First(s)}] \in Int
    <3>1. First(s) \in S /\ s \ {First(s)} \in SUBSET S
      BY <2>1, FirstIsIn
    <3>2. QED
      BY <3>1
  <2>2. QED
    BY <2>1 DEF Turn
<1>2. 0 \in T
  <2>1. PICK g \in [SUBSET S -> Int] : g = [s \in SUBSET S |-> 0]
    <3>1. [s \in SUBSET S |-> 0] \in [SUBSET S -> Int]
      OBVIOUS
    <3> HIDE DEF T
    <3>2. QED
      BY <3>1
  <2>2. ASSUME NEW s \in SUBSET S, Cardinality(s) <= 0
        PROVE  g[s] = Turn(g, f, S)[s]
    BY <2>1, <2>2, NoneSmaller DEF Turn
  <2>3. AddsUpTo(g, f, S, 0)
    BY <2>2 DEF AddsUpTo
  <2>4. QED
    BY <2>3
<1>3. ASSUME NEW n \in Nat, n \in T
      PROVE  n + 1 \in T
  <2>1. PICK g \in [SUBSET S -> Int] : AddsUpTo(g, f, S, n)
    BY <1>3
  <2>2. PICK h \in [SUBSET S -> Int] : h = Turn(g, f, S)
    BY <1>1
  <2>3. ASSUME NEW s \in SUBSET S, Cardinality(s) <= n + 1
        PROVE  h[s] = Turn(h, f, S)[s]
    <3>1. CASE s = {}
      BY <2>2, <3>1 DEF Turn
    <3>2. CASE s # {}
      <4>1. PICK less \in SUBSET S : less = s \ {First(s)}
        OBVIOUS
      <4>2. Cardinality(less) <= n
        BY <2>3, <3>2, <4>1, FirstIsIn, Smaller
      <4>3. g[less] = h[less]
        BY <2>1, <2>2, <4>2 DEF AddsUpTo
      <4>4. QED
        BY <2>2, <3>2, <4>1, <4>3 DEF Turn
    <3>3. QED
      BY <3>1, <3>2
  <2>4. AddsUpTo(h, f, S, n + 1)
    BY <2>3 DEF AddsUpTo
  <2>5. QED
    BY <2>4
<1>4. PICK size \in Nat : size = Cardinality(S)
  BY FS_CardinalityType
<1>5. size \in T
  <2>1. T \in SUBSET Nat
    OBVIOUS
  <2> HIDE DEF T
  <2>2. QED
    BY <1>2, <1>3, <2>1, NatSetInduction
<1>6. PICK g \in [SUBSET S -> Int] : AddsUpTo(g, f, S, size)
  BY <1>5
<1>7. ASSUME NEW s \in SUBSET S
      PROVE  g[s] = Turn(g, f, S)[s]
  <2>1. Cardinality(s) <= size
    BY <1>4, FS_Subset
  <2>2. QED
    BY <1>6, <2>1 DEF AddsUpTo
<1>8. g = Turn(g, f, S)
  <2>1. PICK h \in [SUBSET S -> Int] : h = Turn(g, f, S)
    BY <1>1
  <2>2. \A s \in SUBSET S : g[s] = h[s]
    BY <1>7, <2>1
  <2>3. g = h
    BY <2>2
  <2>4. QED
    BY <2>1, <2>3
<1>9. QED
  BY <1>8 DEF Adds

\* A function that the recursion defines has at the subsets of S the sums of f:
\* which element it takes first does not matter.
LEMMA SumsConform ==
  ASSUME NEW S, IsFiniteSet(S), NEW f, \A x \in S : f[x] \in Int,
         NEW g, Adds(g, f, S)
  PROVE  /\ g[{}] = 0
         /\ \A s \in SUBSET S : g[s] \in Int
         /\ \A s \in SUBSET S : \A x \in s : g[s] = f[x] + g[s \ {x}]
<1> DEFINE Good(s) == g[s] \in Int /\ \A x \in s : g[s] = f[x] + g[s \ {x}]
    T == {n \in Nat : \A s \in SUBSET S : Cardinality(s) <= n => Good(s)}
<1>1. g[{}] = 0
  BY DEF Adds, Turn
<1>2. ASSUME NEW s \in SUBSET S, s # {}
      PROVE  g[s] = f[First(s)] + g[s \ {First(s)}]
  BY <1>2 DEF Adds, Turn
<1>3. 0 \in T
  <2>1. ASSUME NEW s \in SUBSET S, Cardinality(s) <= 0
        PROVE  Good(s)
    <3>1. s = {}
      BY <2>1, NoneSmaller
    <3>2. QED
      BY <1>1, <3>1
  <2> HIDE DEF Good
  <2>2. QED
    BY <2>1
<1>4. ASSUME NEW n \in T
      PROVE  n + 1 \in T
  <2>1. n \in Nat /\ \A s \in SUBSET S : Cardinality(s) <= n => Good(s)
    OBVIOUS
  <2>2. ASSUME NEW s \in SUBSET S, Cardinality(s) <= n + 1, s # {}
        PROVE  Good(s)
    <3>1. PICK c \in s : c = First(s) /\ g[s] = f[c] + g[s \ {c}]
      BY <1>2, <2>2, FirstIsIn
    <3>2. ASSUME NEW x \in s
          PROVE  Cardinality(s \ {x}) <= n /\ s \ {x} \in SUBSET S
      BY <2>1, <2>2, Smaller
    <3>3. Good(s \ {c})
      BY <2>1, <3>2
    <3>4. g[s] \in Int
      BY <3>1, <3>3
    <3>5. ASSUME NEW x \in s, x # c
          PROVE  g[s] = f[x] + g[s \ {x}]
      <4>1. PICK less : less = (s \ {c}) \ {x}
        OBVIOUS
      <4>2. less = (s \ {x}) \ {c} /\ less \in SUBSET S
        BY <4>1
      <4>3. g[s \ {c}] = f[x] + g[less]
        BY <3>3, <3>5, <4>1
      <4>4. Good(s \ {x})
        BY <2>1, <3>2
      <4>5. g[s \ {x}] = f[c] + g[less]
        BY <3>5, <4>2, <4>4
      <4>6. less \subseteq s \ {c} /\ Cardinality(less) <= n
        <5>1. IsFiniteSet(s \ {c})
          BY FS_Subset, <3>2
        <5>2. Cardinality(less) <= Cardinality(s \ {c})
          BY <4>1, <5>1, FS_Subset
        <5>3. Cardinality(less) \in Nat /\ Cardinality(s \ {c}) \in Nat
          BY <4>2, <3>2, FS_Subset, FS_CardinalityType
        <5>4. QED
          BY <2>1, <3>2, <4>1, <5>2, <5>3
      <4>7. Good(less)
        BY <2>1, <4>2, <4>6
      <4>8. g[less] \in Int /\ f[x] \in Int /\ f[c] \in Int
        BY <4>7
      <4>9. QED
        BY <3>1, <4>3, <4>5, <4>8
    <3>6. QED
      BY <3>1, <3>4, <3>5
  <2>3. ASSUME NEW s \in SUBSET S, Cardinality(s) <= n + 1
        PROVE  Good(s)
    <3>1. CASE s = {}
      BY <1>1, <3>1
    <3>2. CASE s # {}
      BY <2>2, <2>3, <3>2
    <3>3. QED
      BY <3>1, <3>2
  <2> HIDE DEF Good
  <2>4. QED
    BY <2>1, <2>3
<1>5. ASSUME NEW s \in SUBSET S
      PROVE  Good(s)
  <2>1. PICK n \in Nat : n = Cardinality(s)
    BY FS_Subset, FS_CardinalityType
  <2>2. n \in T
    <3> HIDE DEF Good
    <3>1. T \in SUBSET Nat
      OBVIOUS
    <3> HIDE DEF T
    <3>2. QED
      BY <1>3, <1>4, <3>1, NatSetInduction
  <2> HIDE DEF Good
  <2>3. QED
    BY <2>1, <2>2
<1>6. QED
  BY <1>1, <1>5

\* The sum is a value of such a function.
LEMMA SumIsOfFold ==
  ASSUME NEW S, IsFiniteSet(S), NEW f, \A x \in S : f[x] \in Int
  PROVE  \E g : Adds(g, f, S) /\ SumFunctionOnSet(f, S) = g[S]
<1>1. \E g : Adds(g, f, S)
  BY SumsExist
<1>2. QED
  BY <1>1 DEF Adds, Turn, First, SumFunctionOnSet, FoldFunctionOnSet, MapThenFoldSet

\* Functions with the same values have the same sums.
LEMMA SumsAgree ==
  ASSUME NEW S, IsFiniteSet(S), NEW f, \A x \in S : f[x] \in Int,
         NEW g, Adds(g, f, S),
         NEW R, IsFiniteSet(R), S \subseteq R, NEW e, \A x \in R : e[x] \in Int,
         NEW h, Adds(h, e, R),
         \A x \in S : e[x] = f[x]
  PROVE  \A s \in SUBSET S : g[s] = h[s]
<1> DEFINE Same(s) == g[s] = h[s]
    T == {n \in Nat : \A s \in SUBSET S : Cardinality(s) <= n => Same(s)}
<1>1. Same({})
  BY SumsConform
<1>2. 0 \in T
  <2>1. ASSUME NEW s \in SUBSET S, Cardinality(s) <= 0
        PROVE  s = {}
    BY <2>1, NoneSmaller
  <2>2. QED
    BY <1>1, <2>1
<1>3. ASSUME NEW n \in T
      PROVE  n + 1 \in T
  <2>1. n \in Nat /\ \A s \in SUBSET S : Cardinality(s) <= n => Same(s)
    OBVIOUS
  <2>2. ASSUME NEW s \in SUBSET S, Cardinality(s) <= n + 1
        PROVE  Same(s)
    <3>1. CASE s = {}
      BY <1>1, <3>1
    <3>2. CASE s # {}
      <4>1. PICK x \in s : TRUE
        BY <3>2
      <4>2. Cardinality(s \ {x}) <= n /\ s \ {x} \in SUBSET S
        BY <2>1, <2>2, Smaller
      <4>3. Same(s \ {x})
        BY <2>1, <4>2
      <4>4. g[s] = f[x] + g[s \ {x}]
        BY SumsConform
      <4>5. h[s] = e[x] + h[s \ {x}]
        <5>1. s \in SUBSET R
          OBVIOUS
        <5>2. QED
          BY <5>1, SumsConform
      <4>6. QED
        BY <4>1, <4>3, <4>4, <4>5
    <3>3. QED
      BY <3>1, <3>2
  <2> HIDE DEF Same
  <2>3. QED
    BY <2>1, <2>2
<1>4. ASSUME NEW s \in SUBSET S
      PROVE  Same(s)
  <2>1. PICK n \in Nat : n = Cardinality(s)
    BY FS_Subset, FS_CardinalityType
  <2>2. n \in T
    <3>1. T \in SUBSET Nat
      OBVIOUS
    <3> HIDE DEF T
    <3>2. QED
      BY <1>2, <1>3, <3>1, NatSetInduction
  <2>3. QED
    BY <2>1, <2>2
<1>5. QED
  BY <1>4
-----------------------------------------------------------------------------
(* What the ledgers need *)

\* The sum over no element.
LEMMA SumOfNone ==
  ASSUME NEW f
  PROVE  SumFunctionOnSet(f, {}) = 0
<1>1. PICK e : Adds(e, f, {}) /\ SumFunctionOnSet(f, {}) = e[{}]
  BY SumIsOfFold, FS_EmptySet
<1>2. QED
  BY <1>1, SumsConform, FS_EmptySet

\* The sum over a set, told from the one without one of its elements.
LEMMA SumOfOneMore ==
  ASSUME NEW S, IsFiniteSet(S), NEW f, \A x \in S : f[x] \in Int, NEW x \in S
  PROVE  /\ SumFunctionOnSet(f, S) \in Int
         /\ SumFunctionOnSet(f, S \ {x}) \in Int
         /\ SumFunctionOnSet(f, S) = f[x] + SumFunctionOnSet(f, S \ {x})
<1>1. PICK less \in SUBSET S : less = S \ {x}
  OBVIOUS
<1>2. IsFiniteSet(less) /\ \A y \in less : f[y] \in Int
  BY <1>1, FS_RemoveElement
<1>3. PICK g : Adds(g, f, S) /\ SumFunctionOnSet(f, S) = g[S]
  BY SumIsOfFold
<1>4. PICK h : Adds(h, f, less) /\ SumFunctionOnSet(f, less) = h[less]
  BY <1>2, SumIsOfFold
<1>5. h[less] = g[less]
  BY <1>2, <1>3, <1>4, SumsAgree
<1>6. g[S] \in Int /\ g[less] \in Int /\ g[S] = f[x] + g[less]
  BY <1>1, <1>3, SumsConform
<1>7. QED
  BY <1>1, <1>3, <1>4, <1>5, <1>6

\* A sum of integers is an integer.
LEMMA SumIsInt ==
  ASSUME NEW S, IsFiniteSet(S), NEW f, \A x \in S : f[x] \in Int
  PROVE  SumFunctionOnSet(f, S) \in Int
<1>1. PICK g : Adds(g, f, S) /\ SumFunctionOnSet(f, S) = g[S]
  BY SumIsOfFold
<1>2. QED
  BY <1>1, SumsConform

\* A sum of natural numbers is one.
LEMMA SumIsNat ==
  ASSUME NEW S, IsFiniteSet(S), NEW f, \A x \in S : f[x] \in Nat
  PROVE  SumFunctionOnSet(f, S) \in Nat
<1> DEFINE T == {n \in Nat : \A s \in SUBSET S :
                  Cardinality(s) <= n => SumFunctionOnSet(f, s) \in Nat}
<1>1. 0 \in T
  <2>1. ASSUME NEW s \in SUBSET S, Cardinality(s) <= 0
        PROVE  SumFunctionOnSet(f, s) \in Nat
    BY <2>1, NoneSmaller, SumOfNone
  <2>2. QED
    BY <2>1
<1>2. ASSUME NEW n \in Nat, n \in T
      PROVE  n + 1 \in T
  <2>1. ASSUME NEW s \in SUBSET S, Cardinality(s) <= n + 1, s # {}
        PROVE  SumFunctionOnSet(f, s) \in Nat
    <3>1. PICK x \in s : TRUE
      BY <2>1
    <3>2. IsFiniteSet(s) /\ Cardinality(s \ {x}) <= n /\ s \ {x} \in SUBSET S
      BY <2>1, Smaller, FS_Subset
    <3>3. SumFunctionOnSet(f, s \ {x}) \in Nat
      BY <1>2, <3>2
    <3>4. SumFunctionOnSet(f, s) = f[x] + SumFunctionOnSet(f, s \ {x})
      BY <3>2, SumOfOneMore
    <3>5. f[x] \in Nat
      OBVIOUS
    <3>6. QED
      BY <3>3, <3>4, <3>5
  <2>2. SumFunctionOnSet(f, {}) \in Nat
    BY SumOfNone
  <2>3. QED
    BY <2>1, <2>2
<1>3. PICK size \in Nat : size = Cardinality(S)
  BY FS_CardinalityType
<1>4. size \in T
  <2>1. T \in SUBSET Nat
    OBVIOUS
  <2> HIDE DEF T
  <2>2. QED
    BY <1>1, <1>2, <2>1, NatSetInduction
<1>5. QED
  BY <1>3, <1>4

\* A sum of nothing but zeros.
LEMMA SumOfZeros ==
  ASSUME NEW S, IsFiniteSet(S), NEW f, \A x \in S : f[x] = 0
  PROVE  SumFunctionOnSet(f, S) = 0
<1> DEFINE T == {n \in Nat : \A s \in SUBSET S :
                  Cardinality(s) <= n => SumFunctionOnSet(f, s) = 0}
<1>1. 0 \in T
  <2>1. ASSUME NEW s \in SUBSET S, Cardinality(s) <= 0
        PROVE  SumFunctionOnSet(f, s) = 0
    BY <2>1, NoneSmaller, SumOfNone
  <2>2. QED
    BY <2>1
<1>2. ASSUME NEW n \in Nat, n \in T
      PROVE  n + 1 \in T
  <2>1. ASSUME NEW s \in SUBSET S, Cardinality(s) <= n + 1, s # {}
        PROVE  SumFunctionOnSet(f, s) = 0
    <3>1. PICK x \in s : TRUE
      BY <2>1
    <3>2. IsFiniteSet(s) /\ Cardinality(s \ {x}) <= n /\ s \ {x} \in SUBSET S
      BY <2>1, Smaller, FS_Subset
    <3>3. SumFunctionOnSet(f, s \ {x}) = 0
      BY <1>2, <3>2
    <3>4. SumFunctionOnSet(f, s) = f[x] + SumFunctionOnSet(f, s \ {x})
      BY <3>2, SumOfOneMore
    <3>5. QED
      BY <3>3, <3>4
  <2>2. QED
    BY <2>1, SumOfNone
<1>3. PICK size \in Nat : size = Cardinality(S)
  BY FS_CardinalityType
<1>4. size \in T
  <2>1. T \in SUBSET Nat
    OBVIOUS
  <2> HIDE DEF T
  <2>2. QED
    BY <1>1, <1>2, <2>1, NatSetInduction
<1>5. QED
  BY <1>3, <1>4

\* Only the values at the elements of the set count.
LEMMA SumOfEqual ==
  ASSUME NEW S, IsFiniteSet(S), NEW f, \A x \in S : f[x] \in Int,
         NEW e, \A x \in S : e[x] = f[x]
  PROVE  SumFunctionOnSet(e, S) = SumFunctionOnSet(f, S)
<1>1. PICK g : Adds(g, f, S) /\ SumFunctionOnSet(f, S) = g[S]
  BY SumIsOfFold
<1>2. PICK h : Adds(h, e, S) /\ SumFunctionOnSet(e, S) = h[S]
  BY SumIsOfFold
<1>3. g[S] = h[S]
  BY <1>1, <1>2, SumsAgree
<1>4. QED
  BY <1>1, <1>2, <1>3

\* A function that changes at one element changes the sum by as much.
LEMMA SumOfChanged ==
  ASSUME NEW S, IsFiniteSet(S), NEW f, \A x \in S : f[x] \in Int,
         NEW e, \A x \in S : e[x] \in Int,
         NEW x \in S, \A y \in S \ {x} : e[y] = f[y]
  PROVE  SumFunctionOnSet(e, S) = SumFunctionOnSet(f, S) + e[x] - f[x]
<1>1. PICK less \in SUBSET S : less = S \ {x}
  OBVIOUS
<1>2. IsFiniteSet(less) /\ \A y \in less : f[y] \in Int /\ e[y] = f[y]
  BY <1>1, FS_RemoveElement
<1>3. SumFunctionOnSet(e, less) = SumFunctionOnSet(f, less)
  BY <1>2, SumOfEqual
<1>4. /\ SumFunctionOnSet(f, less) \in Int
      /\ SumFunctionOnSet(f, S) = f[x] + SumFunctionOnSet(f, less)
      /\ SumFunctionOnSet(e, S) = e[x] + SumFunctionOnSet(e, less)
  BY <1>1, SumOfOneMore
<1>5. e[x] \in Int /\ f[x] \in Int
  OBVIOUS
<1>6. PICK a, b, c : /\ a = SumFunctionOnSet(f, less)
                     /\ b = SumFunctionOnSet(f, S)
                     /\ c = SumFunctionOnSet(e, S)
  OBVIOUS
<1>7. c = b + e[x] - f[x]
  BY <1>3, <1>4, <1>5, <1>6
<1>8. QED
  BY <1>6, <1>7
=============================================================================
