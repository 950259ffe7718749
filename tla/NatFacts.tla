------------------------------ MODULE NatFacts ------------------------------
(* Least and greatest elements of sets of natural numbers, and finite sums of them. *)
EXTENDS Integers, Functions, FiniteSetTheorems, WellFoundedInduction, TLAPS

\* A set of natural numbers that is not empty has a least element.
LEMMA LeastExists ==
  ASSUME NEW S, S \subseteq Nat, S # {}
  PROVE  \E x \in S : \A y \in S : x <= y
<1>1. PICK x \in S : \A y \in S : <<y, x>> \notin OpToRel(<, Nat)
  BY NatLessThanWellFounded, WFMin, Zenon
<1>2. \A y \in S : y \in Nat /\ x \in Nat
  BY <1>1
<1>3. \A y \in S : ~ (y < x)
  BY <1>1, <1>2, Zenon DEF OpToRel
<1>4. \A y \in S : x <= y
  BY <1>2, <1>3
<1> QED
  BY <1>4

\* A set of natural numbers that is bounded and not empty has a greatest element.
LEMMA GreatestExists ==
  ASSUME NEW S, S \subseteq Nat, S # {}, NEW b \in Nat, \A x \in S : x <= b
  PROVE  \E x \in S : \A y \in S : x >= y
<1> DEFINE Gaps == {b - x : x \in S}
<1>1. Gaps \subseteq Nat /\ Gaps # {}
  <2>1. \A x \in S : x \in Nat /\ x <= b
    OBVIOUS
  <2>2. \A x \in S : b - x \in Nat
    BY <2>1
  <2>3. PICK x \in S : TRUE
    OBVIOUS
  <2>4. b - x \in Gaps
    OBVIOUS
  <2> QED
    BY <2>2, <2>4
<1>2. PICK g \in Gaps : \A h \in Gaps : g <= h
  <2> HIDE DEF Gaps
  <2> QED
    BY <1>1, LeastExists
<1>3. PICK x \in S : g = b - x
  OBVIOUS
<1>4. ASSUME NEW y \in S PROVE x >= y
  <2>1. g <= b - y /\ x \in Nat /\ y \in Nat
    BY <1>2
  <2> QED
    BY <1>3, <2>1
<1> QED
  BY <1>4

\* The element that the sum takes out of a set first.
First(s) == CHOOSE x \in s : TRUE

\* The sum over s, from the sums over smaller sets.
Adds(F, sum, s) == IF s = {} THEN 0 ELSE F[First(s)] + sum[s \ {First(s)}]

\* `sum' maps every member of T to its sum.
Sums(F, T, sum) == sum = [s \in T |-> Adds(F, sum, s)]

\* The subsets of S with n elements or less.
UpTo(S, n) == {s \in SUBSET S : Cardinality(s) <= n}

\* The definition of the library's sum, in these words.
LEMMA SumUnfolds ==
  ASSUME NEW S, NEW F
  PROVE  SumFunctionOnSet(F, S) = (CHOOSE sum : Sums(F, SUBSET S, sum))[S]
  BY DEF SumFunctionOnSet, FoldFunctionOnSet, MapThenFoldSet, Sums, Adds, First

\* A subset that is not empty gets smaller without its first element.
LEMMA FirstOut ==
  ASSUME NEW S, IsFiniteSet(S), NEW s \in SUBSET S, s # {}
  PROVE  /\ First(s) \in s
         /\ s \ {First(s)} \in SUBSET S
         /\ Cardinality(s) \in Nat /\ Cardinality(s \ {First(s)}) = Cardinality(s) - 1
<1>1. First(s) \in s
  BY DEF First
<1>2. IsFiniteSet(s)
  BY FS_Subset
<1> QED
  BY <1>1, <1>2, FS_RemoveElement, FS_CardinalityType

\* From the sums over sets of n elements those over sets of n + 1.
LEMMA SumsGrow ==
  ASSUME NEW S, IsFiniteSet(S), NEW F, NEW n \in Nat, NEW f, Sums(F, UpTo(S, n), f)
  PROVE  Sums(F, UpTo(S, n + 1), [s \in UpTo(S, n + 1) |-> Adds(F, f, s)])
<1> DEFINE g == [s \in UpTo(S, n + 1) |-> Adds(F, f, s)]
<1>1. ASSUME NEW s \in UpTo(S, n) PROVE s \in UpTo(S, n + 1) /\ g[s] = f[s]
  <2>1. s \in UpTo(S, n + 1)
    <3>1. Cardinality(s) \in Nat /\ Cardinality(s) <= n
      BY <1>1, FS_Subset, FS_CardinalityType DEF UpTo
    <3> QED
      BY <3>1, <1>1 DEF UpTo
  <2> QED
    BY <2>1, <1>1 DEF Sums
<1>2. ASSUME NEW s \in UpTo(S, n + 1) PROVE Adds(F, f, s) = Adds(F, g, s)
  <2>1. CASE s = {}
    BY <2>1 DEF Adds
  <2>2. CASE s # {}
    <3>1. s \in SUBSET S /\ Cardinality(s) <= n + 1
      BY <1>2 DEF UpTo
    <3>2. s \ {First(s)} \in UpTo(S, n)
      BY <3>1, <2>2, FirstOut DEF UpTo
    <3> QED
      BY <3>2, <1>1 DEF Adds
  <2> QED
    BY <2>1, <2>2
<1> QED
  BY <1>2 DEF Sums

\* The sums over the subsets of a finite set exist.
LEMMA SumsExist ==
  ASSUME NEW S, IsFiniteSet(S), NEW F
  PROVE  \E f : Sums(F, SUBSET S, f)
<1> DEFINE Missing == {n \in Nat : ~ \E f : Sums(F, UpTo(S, n), f)}
<1>1. Missing = {}
  <2> SUFFICES ASSUME Missing # {} PROVE FALSE
    OBVIOUS
  <2>1. Missing \subseteq Nat
    OBVIOUS
  <2>2. PICK n \in Missing : \A m \in Missing : n <= m
    <3> HIDE DEF Missing
    <3> QED
      BY <2>1, LeastExists
  <2>3. CASE n = 0
    <3>1. \A s \in UpTo(S, 0) : s = {}
      <4> SUFFICES ASSUME NEW s \in UpTo(S, 0) PROVE s = {}
        OBVIOUS
      <4>1. IsFiniteSet(s) /\ Cardinality(s) <= 0
        BY FS_Subset DEF UpTo
      <4> QED
        BY <4>1, FS_CardinalityType, FS_EmptySet
    <3>2. Sums(F, UpTo(S, 0), [s \in UpTo(S, 0) |-> 0])
      BY <3>1 DEF Sums, Adds
    <3> QED
      BY <2>3, <3>2
  <2>4. CASE n # 0
    <3>1. n - 1 \in Nat /\ (n - 1) + 1 = n /\ n - 1 \notin Missing
      BY <2>1, <2>2, <2>4
    <3>2. PICK f : Sums(F, UpTo(S, n - 1), f)
      BY <3>1
    <3>3. Sums(F, UpTo(S, n), [s \in UpTo(S, n) |-> Adds(F, f, s)])
      <4>1. Sums(F, UpTo(S, (n - 1) + 1), [s \in UpTo(S, (n - 1) + 1) |-> Adds(F, f, s)])
        BY <3>1, <3>2, SumsGrow
      <4> QED
        BY <4>1, <3>1
    <3> QED
      BY <3>3
  <2> QED
    BY <2>3, <2>4
<1>2. Cardinality(S) \in Nat
  BY FS_CardinalityType
<1>3. UpTo(S, Cardinality(S)) = SUBSET S
  BY FS_Subset DEF UpTo
<1>4. \E f : Sums(F, UpTo(S, Cardinality(S)), f)
  BY <1>1, <1>2
<1> QED
  BY <1>3, <1>4

\* A sum of natural numbers over a finite set is a natural number.
LEMMA SumIsNat ==
  ASSUME NEW S, IsFiniteSet(S), NEW F, \A x \in S : F[x] \in Nat
  PROVE  SumFunctionOnSet(F, S) \in Nat
<1> DEFINE f == CHOOSE sum : Sums(F, SUBSET S, sum)
           Wrong == {n \in Nat : \E s \in SUBSET S : Cardinality(s) = n /\ f[s] \notin Nat}
<1>1. Sums(F, SUBSET S, f)
  BY SumsExist, Zenon
<1>2. ASSUME NEW s \in SUBSET S PROVE f[s] = Adds(F, f, s)
  <2> HIDE DEF f
  <2> QED
    BY <1>1, <1>2 DEF Sums
<1> HIDE DEF f
<1>3. Wrong = {}
  <2> SUFFICES ASSUME Wrong # {} PROVE FALSE
    OBVIOUS
  <2>1. Wrong \subseteq Nat
    OBVIOUS
  <2>2. PICK n \in Wrong : \A m \in Wrong : n <= m
    <3> HIDE DEF Wrong
    <3> QED
      BY <2>1, LeastExists
  <2>3. PICK s \in SUBSET S : Cardinality(s) = n /\ f[s] \notin Nat
    BY <2>2, Zenon
  <2>4. s # {}
    <3>1. f[{}] = 0
      <4>1. f[{}] = Adds(F, f, {})
        BY <1>2
      <4> QED
        BY <4>1 DEF Adds
    <3> QED
      BY <2>3, <3>1
  <2>5. /\ First(s) \in s /\ s \ {First(s)} \in SUBSET S
        /\ Cardinality(s) \in Nat /\ Cardinality(s \ {First(s)}) = Cardinality(s) - 1
    BY <2>3, <2>4, FirstOut
  <2>6. f[s \ {First(s)}] \in Nat
    <3>1. n - 1 \in Nat
      <4>1. IsFiniteSet(s \ {First(s)})
        BY <2>5, FS_Subset
      <4>2. Cardinality(s \ {First(s)}) \in Nat
        BY <4>1, FS_CardinalityType
      <4> QED
        BY <4>2, <2>5, <2>3
    <3>2. n - 1 \notin Wrong
      <4> HIDE DEF Wrong
      <4> QED
        BY <2>1, <2>2, <3>1
    <3> QED
      BY <3>1, <3>2, <2>3, <2>5
  <2>7. f[s] = F[First(s)] + f[s \ {First(s)}]
    BY <1>2, <2>4 DEF Adds
  <2> QED
    BY <2>3, <2>5, <2>6, <2>7
<1>4. f[S] \in Nat
  <2>1. Cardinality(S) \in Nat
    BY FS_CardinalityType
  <2> QED
    BY <1>3, <2>1
<1> QED
  BY <1>4, SumUnfolds DEF f
=============================================================================
