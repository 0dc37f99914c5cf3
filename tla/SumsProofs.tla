----------------------------- MODULE SumsProofs -----------------------------
(***************************************************************************)
(* What a sum over a finite set is, for any set and any terms.  SumOf is a *)
(* fold, defined by recursion over the subsets of a set.  The induction    *)
(* theorems of the library take a predicate, so induction is stated here   *)
(* for a set of naturals and for a set of subsets, from the well-founded   *)
(* orderings it comes from; then the recursion is shown to define a        *)
(* function, and the sum not to depend on the order it is taken in.        *)
(***************************************************************************)
EXTENDS Sums, FiniteSetTheorems, TLAPS

\* The function that the fold inside SumOf defines by recursion over the
\* subsets of S.
AddsUp(it, f, S) ==
    it = [s \in SUBSET S |-> IF s = {} THEN 0
                              ELSE LET x == CHOOSE x \in s : TRUE
                                   IN  f[x] + it[s \ {x}]]

\* Induction over the naturals, for a set instead of a predicate.
LEMMA NatSetInduction ==
    ASSUME NEW B, 0 \in B, \A n \in Nat : n \in B => n + 1 \in B
    PROVE  Nat \subseteq B
<1> DEFINE Missing == Nat \ B
<1> SUFFICES ASSUME Missing # {} PROVE FALSE
  OBVIOUS
<1>1. PICK n \in Missing : \A k \in Missing : ~ (<<k, n>> \in OpToRel(<, Nat))
  <2> Missing \subseteq Nat
    OBVIOUS
  <2> HIDE DEF Missing
  <2> QED
    BY NatLessThanWellFounded, WFMin
<1>2. \A k \in Missing : ~ (k < n)
  BY <1>1 DEF OpToRel
<1>3. n # 0 /\ n - 1 \in Nat /\ n - 1 \in B
  BY <1>2
<1> QED
  BY <1>3

\* Every subset of a finite set is in B when the empty set is, and when a set
\* is whose every smaller subset is.
LEMMA SubsetInduction ==
    ASSUME NEW S, IsFiniteSet(S), NEW B,
           \A T \in SUBSET S : (\A U \in SUBSET T : U # T => U \in B) => T \in B
    PROVE  \A T \in SUBSET S : T \in B
<1> DEFINE Missing == (SUBSET S) \ B
<1> SUFFICES ASSUME Missing # {} PROVE FALSE
  OBVIOUS
<1>1. PICK T \in Missing :
        \A U \in Missing : ~ (<<U, T>> \in StrictSubsetOrdering(S))
  <2>1. IsWellFoundedOn(StrictSubsetOrdering(S), SUBSET S)
    <3>1. IsWellFoundedOn(StrictSubsetOrdering(S), FiniteSubsetsOf(S))
      BY FS_StrictSubsetOrderingWellFounded
    <3>2. FiniteSubsetsOf(S) = SUBSET S
      BY FS_FiniteSubsetsOfFinite
    <3> QED
      BY <3>1, <3>2, Zenon
  <2> Missing \subseteq SUBSET S
    OBVIOUS
  <2> HIDE DEF Missing
  <2> QED
    BY <2>1, WFMin
<1>2. \A U \in SUBSET T : U # T => U \in B
  <2> SUFFICES ASSUME NEW U \in SUBSET T, U # T, U \notin B PROVE FALSE
    OBVIOUS
  <2> U \in Missing
    OBVIOUS
  <2> <<U, T>> \in StrictSubsetOrdering(S)
    BY DEF StrictSubsetOrdering
  <2> QED
    BY <1>1
<1> QED
  BY <1>2

\* The recursion over the subsets of a finite set is well defined.
LEMMA AddsUpExists ==
    ASSUME NEW f, NEW S, IsFiniteSet(S)
    PROVE  \E it : AddsUp(it, f, S)
<1> DEFINE D(n) == {T \in SUBSET S : Cardinality(T) <= n}
           Step(it, s) == IF s = {} THEN 0
                          ELSE LET x == CHOOSE x \in s : TRUE
                               IN  f[x] + it[s \ {x}]
           B == {n \in Nat : \E it : it = [s \in D(n) |-> Step(it, s)]}
<1>1. \A T \in SUBSET S : IsFiniteSet(T) /\ Cardinality(T) \in Nat
  BY FS_Subset, FS_CardinalityType
<1>2. 0 \in B
  <2>1. \A T \in D(0) : T = {}
    BY <1>1, FS_EmptySet
  <2> DEFINE it == [s \in D(0) |-> 0]
  <2>2. it = [s \in D(0) |-> Step(it, s)]
    BY <2>1
  <2> QED
    BY <2>2
<1>3. ASSUME NEW n \in Nat, n \in B PROVE n + 1 \in B
  <2>1. PICK it : it = [s \in D(n) |-> Step(it, s)]
    BY <1>3
  <2> DEFINE next == [s \in D(n + 1) |-> Step(it, s)]
  <2>2. ASSUME NEW s \in D(n + 1) PROVE Step(it, s) = Step(next, s)
    <3>1. CASE s = {}
      BY <3>1
    <3>2. CASE s # {}
      <4> DEFINE x == CHOOSE x \in s : TRUE
                 r == s \ {x}
      <4>1. x \in s
        BY <3>2
      <4>2. r \in SUBSET S /\ Cardinality(r) = Cardinality(s) - 1
        BY <1>1, <4>1, FS_RemoveElement
      <4>3. r \in D(n) /\ r \in D(n + 1)
        BY <1>1, <4>2
      <4> HIDE DEF r, x
      <4>4. next[r] = Step(it, r)
        BY <4>3
      <4>5. it[r] = Step(it, r)
        BY <2>1, <4>3
      <4>6. next[r] = it[r]
        BY <4>4, <4>5
      <4> QED
        BY <3>2, <4>6 DEF r, x
    <3> QED
      BY <3>1, <3>2
  <2> HIDE DEF Step
  <2>3. next = [s \in D(n + 1) |-> Step(next, s)]
    BY <2>2
  <2>4. \E j : j = [s \in D(n + 1) |-> Step(j, s)]
    <3> HIDE DEF next
    <3> QED
      BY <2>3
  <2> HIDE DEF D
  <2>5. n + 1 \in {k \in Nat : \E j : j = [s \in D(k) |-> Step(j, s)]}
    BY <2>4
  <2> QED
    BY <2>5
<1>4. Cardinality(S) \in B
  <2> HIDE DEF B
  <2> QED
    BY <1>1, <1>2, <1>3, NatSetInduction
<1>5. D(Cardinality(S)) = SUBSET S
  BY FS_Subset
<1> QED
  BY <1>4, <1>5 DEF AddsUp

\* Two such functions agree on every set in the domains of both, whatever the
\* terms of the sum are elsewhere.
LEMMA AddsUpAgree ==
    ASSUME NEW f, NEW g, NEW S, NEW T, NEW a, NEW b,
           AddsUp(a, f, S), AddsUp(b, g, T),
           NEW R, R \subseteq S, R \subseteq T, IsFiniteSet(R),
           \A i \in R : f[i] = g[i]
    PROVE  a[R] = b[R]
<1> DEFINE B == {U \in SUBSET R : a[U] = b[U]}
<1>1. ASSUME NEW U \in SUBSET R, \A V \in SUBSET U : V # U => V \in B
      PROVE  U \in B
  <2> USE DEF AddsUp
  <2>1. CASE U = {}
    BY <2>1
  <2>2. CASE U # {}
    <3> DEFINE x == CHOOSE x \in U : TRUE
    <3>1. x \in U
      BY <2>2
    <3>2. U \ {x} \in SUBSET U /\ U \ {x} # U
      BY <3>1
    <3>3. a[U \ {x}] = b[U \ {x}]
      BY <1>1, <3>2
    <3>4. a[U] = f[x] + a[U \ {x}]
      BY <2>2
    <3>5. b[U] = g[x] + b[U \ {x}]
      BY <2>2
    <3> HIDE DEF x
    <3>6. f[x] = g[x]
      BY <3>1
    <3> QED
      BY <3>3, <3>4, <3>5, <3>6
  <2> QED
    BY <2>1, <2>2
<1>2. \A U \in SUBSET R : U \in B
  <2> HIDE DEF B
  <2> QED
    BY <1>1, SubsetInduction
<1> QED
  BY <1>2

\* A sum is the value, at the whole set, of any function that adds up.
LEMMA SumIsAddsUp ==
    ASSUME NEW f, NEW g, NEW S, NEW T, NEW a, AddsUp(a, f, S),
           T \subseteq S, IsFiniteSet(T), \A i \in T : f[i] = g[i]
    PROVE  SumOf(g, T) = a[T]
<1> DEFINE it == CHOOSE it : AddsUp(it, g, T)
<1>1. SumOf(g, T) = it[T]
  BY DEF SumOf, MapThenSumSet, MapThenFoldSet, AddsUp
<1>2. AddsUp(it, g, T)
  BY AddsUpExists
<1> HIDE DEF it
<1>3. a[T] = it[T]
  BY <1>2, AddsUpAgree
<1> QED
  BY <1>1, <1>3

\* A sum stays in any set that has zero, the terms and their sums.
LEMMA SumStaysIn ==
    ASSUME NEW T, 0 \in T, \A m, n \in T : m + n \in T,
           NEW S, IsFiniteSet(S), NEW f, \A i \in S : f[i] \in T
    PROVE  SumOf(f, S) \in T
<1>1. PICK a : AddsUp(a, f, S)
  BY AddsUpExists
<1> DEFINE B == {U \in SUBSET S : a[U] \in T}
<1>2. ASSUME NEW U \in SUBSET S, \A V \in SUBSET U : V # U => V \in B
      PROVE  U \in B
  <2>1. CASE U = {}
    BY <1>1, <2>1 DEF AddsUp
  <2>2. CASE U # {}
    <3> DEFINE x == CHOOSE x \in U : TRUE
    <3>1. x \in U /\ f[x] \in T
      BY <2>2
    <3>2. a[U] = f[x] + a[U \ {x}]
      BY <1>1, <2>2 DEF AddsUp
    <3> HIDE DEF x
    <3>3. U \ {x} \in B
      BY <1>2, <3>1
    <3> QED
      BY <3>1, <3>2, <3>3
  <2> QED
    BY <2>1, <2>2
<1>3. \A U \in SUBSET S : U \in B
  <2> HIDE DEF B
  <2> QED
    BY <1>2, SubsetInduction
<1>4. SumOf(f, S) = a[S]
  BY <1>1, SumIsAddsUp
<1> QED
  BY <1>3, <1>4

\* A sum of integers is an integer.
LEMMA SumIsInteger ==
    ASSUME NEW S, IsFiniteSet(S), NEW f, \A i \in S : f[i] \in Int
    PROVE  SumOf(f, S) \in Int
<1>1. 0 \in Int /\ \A m, n \in Int : m + n \in Int
  OBVIOUS
<1> QED
  BY <1>1, SumStaysIn, Zenon

\* A sum of naturals is a natural.
LEMMA SumIsNatural ==
    ASSUME NEW S, IsFiniteSet(S), NEW f, \A i \in S : f[i] \in Nat
    PROVE  SumOf(f, S) \in Nat
<1>1. 0 \in Nat /\ \A m, n \in Nat : m + n \in Nat
  OBVIOUS
<1> QED
  BY <1>1, SumStaysIn, Zenon

\* Nothing adds up to zero.
LEMMA SumOfNothing == ASSUME NEW f PROVE SumOf(f, {}) = 0
<1>1. IsFiniteSet({})
  BY FS_EmptySet
<1>2. PICK a : AddsUp(a, f, {})
  BY <1>1, AddsUpExists
<1>3. a[{}] = 0
  BY <1>2 DEF AddsUp
<1> QED
  BY <1>1, <1>2, <1>3, SumIsAddsUp

\* A sum depends on the terms it adds only.
LEMMA SumOfSameTerms ==
    ASSUME NEW S, IsFiniteSet(S), NEW f, NEW g, \A i \in S : f[i] = g[i]
    PROVE  SumOf(f, S) = SumOf(g, S)
<1>1. PICK a : AddsUp(a, f, S)
  BY AddsUpExists
<1> QED
  BY <1>1, SumIsAddsUp

\* Any element may be taken out of the set and its term added to the sum of
\* the rest: the order the fold adds in does not matter.
LEMMA SumTakeOut ==
    ASSUME NEW S, IsFiniteSet(S), NEW f, \A i \in S : f[i] \in Int, NEW i \in S
    PROVE  SumOf(f, S) = f[i] + SumOf(f, S \ {i})
<1>1. PICK a : AddsUp(a, f, S)
  BY AddsUpExists
<1>2. ASSUME NEW T \in SUBSET S PROVE IsFiniteSet(T) /\ a[T] \in Int /\ SumOf(f, T) = a[T]
  BY <1>1, FS_Subset, SumIsAddsUp, SumIsInteger
<1> DEFINE B == {T \in SUBSET S : \A j \in T : a[T] = f[j] + a[T \ {j}]}
<1>3. ASSUME NEW T \in SUBSET S, \A U \in SUBSET T : U # T => U \in B
      PROVE  T \in B
  <2> SUFFICES ASSUME NEW j \in T PROVE a[T] = f[j] + a[T \ {j}]
    OBVIOUS
  <2> DEFINE x == CHOOSE x \in T : TRUE
  <2>1. x \in T /\ a[T] = f[x] + a[T \ {x}]
    BY <1>1 DEF AddsUp
  <2> HIDE DEF x
  <2> SUFFICES ASSUME j # x PROVE a[T] = f[j] + a[T \ {j}]
    BY <2>1
  <2>2. T \ {x} \in B /\ T \ {j} \in B
    BY <1>3, <2>1
  <2>3. /\ a[T \ {x}] = f[j] + a[(T \ {x}) \ {j}]
        /\ a[T \ {j}] = f[x] + a[(T \ {j}) \ {x}]
    BY <2>1, <2>2
  <2>4. a[(T \ {x}) \ {j}] = a[(T \ {j}) \ {x}]
    <3> (T \ {x}) \ {j} = (T \ {j}) \ {x}
      OBVIOUS
    <3> QED
      OBVIOUS
  <2>5. f[j] \in Int /\ f[x] \in Int /\ a[(T \ {j}) \ {x}] \in Int
    BY <1>2, <2>1
  <2> QED
    BY <2>1, <2>3, <2>4, <2>5
<1>4. S \in B
  <2> HIDE DEF B
  <2> QED
    BY <1>3, SubsetInduction
<1> QED
  BY <1>2, <1>4

\* Changing one term changes the sum by as much.
LEMMA SumOfOneChange ==
    ASSUME NEW S, IsFiniteSet(S), NEW f, NEW g, NEW i \in S,
           \A j \in S : f[j] \in Int, g[i] \in Int,
           \A j \in S : j # i => g[j] = f[j]
    PROVE  SumOf(g, S) = SumOf(f, S) - f[i] + g[i]
<1>1. SumOf(f, S) = f[i] + SumOf(f, S \ {i})
  BY SumTakeOut
<1>2. SumOf(g, S) = g[i] + SumOf(g, S \ {i})
  BY SumTakeOut
<1>3. IsFiniteSet(S \ {i})
  BY FS_RemoveElement
<1>4. SumOf(g, S \ {i}) = SumOf(f, S \ {i})
  BY <1>3, SumOfSameTerms
<1>5. SumOf(f, S \ {i}) \in Int
  BY <1>3, SumIsInteger
<1> QED
  BY <1>1, <1>2, <1>4, <1>5

\* One more element adds its term.
LEMMA SumOfOneMore ==
    ASSUME NEW S, IsFiniteSet(S), NEW f, NEW i, i \notin S, f[i] \in Int,
           \A j \in S : f[j] \in Int
    PROVE  SumOf(f, S \cup {i}) = SumOf(f, S) + f[i]
<1>1. IsFiniteSet(S \cup {i})
  BY FS_AddElement
<1>2. SumOf(f, S \cup {i}) = f[i] + SumOf(f, (S \cup {i}) \ {i})
  BY <1>1, SumTakeOut
<1>3. SumOf(f, (S \cup {i}) \ {i}) = SumOf(f, S)
  <2> (S \cup {i}) \ {i} = S
    OBVIOUS
  <2> QED
    OBVIOUS
<1>4. SumOf(f, S) \in Int
  BY SumIsInteger
<1> QED
  BY <1>2, <1>3, <1>4

\* A sum of zeros is zero.
LEMMA SumOfZeros ==
    ASSUME NEW S, IsFiniteSet(S), NEW f, \A i \in S : f[i] = 0
    PROVE  SumOf(f, S) = 0
<1>1. 0 \in {0} /\ \A m, n \in {0} : m + n \in {0}
  OBVIOUS
<1>2. \A i \in S : f[i] \in {0}
  OBVIOUS
<1>3. SumOf(f, S) \in {0}
  BY <1>1, <1>2, SumStaysIn, Zenon
<1> QED
  BY <1>3

\* Changing the term of one element, in the set or not, changes the sum by as
\* much, or not at all.
LEMMA SumOfOneChangeIf ==
    ASSUME NEW S, IsFiniteSet(S), NEW f, NEW g, NEW i,
           \A j \in S : f[j] \in Int, g[i] \in Int,
           \A j \in S : j # i => g[j] = f[j]
    PROVE  SumOf(g, S) = SumOf(f, S) + (IF i \in S THEN g[i] - f[i] ELSE 0)
<1>1. SumOf(f, S) \in Int
  BY SumIsInteger
<1>2. CASE i \in S
  <2>1. SumOf(g, S) = SumOf(f, S) - f[i] + g[i]
    BY <1>2, SumOfOneChange
  <2> QED
    BY <1>1, <1>2, <2>1
<1>3. CASE i \notin S
  <2>1. SumOf(g, S) = SumOf(f, S)
    BY <1>3, SumOfSameTerms
  <2> QED
    BY <1>1, <1>3, <2>1
<1> QED
  BY <1>2, <1>3
=============================================================================
