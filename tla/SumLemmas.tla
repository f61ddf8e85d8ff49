------------------------------ MODULE SumLemmas ------------------------------
(***************************************************************************)
(* Lemmas about the sums the models take with the folds of the community   *)
(* modules: SumFunction and MapThenSumSet.  A fold is a recursive function *)
(* on the subsets of a set, so each fact is proved by looking at a         *)
(* smallest subset for which it would fail.                                *)
(***************************************************************************)
EXTENDS Integers, SequencesExt, FiniteSetTheorems, WellFoundedInduction, TLAPS

-----------------------------------------------------------------------------
(* Smallest counterexamples. *)

\* A nonempty set of naturals has a least element.
LEMMA LeastNat ==
  ASSUME NEW B, B \subseteq Nat, B # {}
  PROVE  \E m \in B : \A k \in B : m <= k
<1>1. \E m \in B : \A k \in B : ~ (<<k, m>> \in OpToRel(<, Nat))
  BY NatLessThanWellFounded, WFMin
<1>2. PICK m \in B : \A k \in B : ~ (<<k, m>> \in OpToRel(<, Nat))
  BY <1>1
<1>3. \A k \in B : ~ (k < m)
  BY <1>2 DEF OpToRel
<1>4. QED
  BY <1>3

\* A nonempty set of finite sets has an element of least cardinality.
LEMMA SmallestSet ==
  ASSUME NEW B, B # {}, \A s \in B : IsFiniteSet(s)
  PROVE  \E s \in B : \A t \in B : Cardinality(s) <= Cardinality(t)
<1>1. {Cardinality(s) : s \in B} \subseteq Nat
  BY FS_CardinalityType
<1>2. PICK m \in {Cardinality(s) : s \in B} : \A k \in {Cardinality(s) : s \in B} : m <= k
  BY <1>1, LeastNat
<1>3. QED
  BY <1>2

-----------------------------------------------------------------------------
(* The function a sum unfolds to. *)

Pick(s) == CHOOSE x \in s : TRUE

\* g gives the sum of f over every subset of S
IsSum(f, S, g) ==
  g = [s \in SUBSET S |-> IF s = {} THEN 0 ELSE f[Pick(s)] + g[s \ {Pick(s)}]]

\* The element that is taken out of a nonempty set belongs to it.
LEMMA PickIn == ASSUME NEW s, s # {} PROVE Pick(s) \in s
  BY DEF Pick

\* Taking an element out of a finite set makes it smaller.
LEMMA Smaller ==
  ASSUME NEW s, IsFiniteSet(s), NEW x \in s
  PROVE  /\ IsFiniteSet(s \ {x}) /\ Cardinality(s) \in Nat
         /\ Cardinality(s \ {x}) \in Nat /\ Cardinality(s \ {x}) = Cardinality(s) - 1
  BY FS_RemoveElement, FS_CardinalityType

\* The subsets of at most n elements.
UpTo(S, n) == {s \in SUBSET S : Cardinality(s) <= n}

\* The recursion has a solution: it is solved for ever larger subsets.
LEMMA SumsExist ==
  ASSUME NEW S, IsFiniteSet(S), NEW f
  PROVE  \E g : IsSum(f, S, g)
<1> DEFINE Body(g, s) == IF s = {} THEN 0 ELSE f[Pick(s)] + g[s \ {Pick(s)}]
           Solved(n) == \E g : g = [s \in UpTo(S, n) |-> Body(g, s)]
           Bad == {n \in Nat : ~Solved(n)}
<1>0. \A s \in SUBSET S : IsFiniteSet(s) /\ Cardinality(s) \in Nat
  BY FS_Subset, FS_CardinalityType
<1>1. Bad = {}
  <2> SUFFICES ASSUME Bad # {} PROVE FALSE
    OBVIOUS
  <2>1. PICK n \in Bad : \A k \in Bad : n <= k
    BY LeastNat
  <2>2. CASE n = 0
    <3> DEFINE g == [s \in UpTo(S, 0) |-> 0]
    <3>1. UpTo(S, 0) = {{}}
      BY <1>0, FS_EmptySet DEF UpTo
    <3>2. g = [s \in UpTo(S, 0) |-> Body(g, s)]
      BY <3>1
    <3>3. Solved(0)
      BY <3>2
    <3>4. QED
      BY <2>2, <3>3
  <2>3. CASE n # 0
    <3>1. n - 1 \in Nat /\ Solved(n - 1)
      <4>1. n \in Nat /\ n - 1 \in Nat /\ ~(n <= n - 1)
        BY <2>3
      <4> HIDE DEF Solved
      <4>2. QED
        BY <2>1, <4>1
    <3>2. PICK g : g = [s \in UpTo(S, n - 1) |-> Body(g, s)]
      BY <3>1
    <3> DEFINE h == [s \in UpTo(S, n) |-> Body(g, s)]
    <3>3. \A s \in UpTo(S, n - 1) : h[s] = g[s]
      <4>1. UpTo(S, n - 1) \subseteq UpTo(S, n)
        BY <3>1, <1>0 DEF UpTo
      <4> HIDE DEF Body
      <4>2. QED
        BY <3>2, <4>1
    <3>4. \A s \in UpTo(S, n) : s # {} => s \ {Pick(s)} \in UpTo(S, n - 1)
      <4> SUFFICES ASSUME NEW s \in UpTo(S, n), s # {} PROVE s \ {Pick(s)} \in UpTo(S, n - 1)
        OBVIOUS
      <4>1. Pick(s) \in s
        BY PickIn
      <4>2. s \in SUBSET S /\ Cardinality(s) <= n /\ IsFiniteSet(s)
        BY <1>0 DEF UpTo
      <4>3. Cardinality(s \ {Pick(s)}) = Cardinality(s) - 1 /\ Cardinality(s) \in Nat
        BY <4>1, <4>2, Smaller
      <4>4. QED
        BY <3>1, <4>2, <4>3 DEF UpTo
    <3>5. \A s \in UpTo(S, n) : Body(g, s) = Body(h, s)
      BY <3>3, <3>4
    <3> HIDE DEF Body
    <3>6. h = [s \in UpTo(S, n) |-> Body(h, s)]
      BY <3>5
    <3>7. Solved(n)
      BY <3>6
    <3>8. QED
      BY <3>7
  <2>4. QED
    BY <2>2, <2>3
<1>2. Solved(Cardinality(S))
  BY <1>1, FS_CardinalityType
<1>3. UpTo(S, Cardinality(S)) = SUBSET S
  BY FS_Subset DEF UpTo
<1>4. QED
  BY <1>2, <1>3 DEF IsSum

\* What a solution says of each subset.
LEMMA SumRules ==
  ASSUME NEW S, NEW f, NEW g, IsSum(f, S, g)
  PROVE  /\ g[{}] = 0
         /\ \A s \in SUBSET S : s # {} => g[s] = f[Pick(s)] + g[s \ {Pick(s)}]
<1> DEFINE Body(s) == IF s = {} THEN 0 ELSE f[Pick(s)] + g[s \ {Pick(s)}]
<1>1. g = [s \in SUBSET S |-> Body(s)]
  BY DEF IsSum
<1> HIDE DEF Body
<1>2. \A s \in SUBSET S : g[s] = Body(s)
  BY <1>1
<1>3. QED
  BY <1>2 DEF Body

\* Sums of integers are integers, and sums of naturals naturals.
LEMMA SumTypes ==
  ASSUME NEW S, IsFiniteSet(S), NEW f, NEW g, IsSum(f, S, g)
  PROVE  /\ (\A x \in S : f[x] \in Int) => \A s \in SUBSET S : g[s] \in Int
         /\ (\A x \in S : f[x] \in Nat) => \A s \in SUBSET S : g[s] \in Nat
<1>0. \A s \in SUBSET S : IsFiniteSet(s)
  BY FS_Subset
<1>a. /\ g[{}] = 0
      /\ \A s \in SUBSET S : s # {} => g[s] = f[Pick(s)] + g[s \ {Pick(s)}]
  BY SumRules
<1>1. ASSUME NEW N \in {Nat, Int}, \A x \in S : f[x] \in N
      PROVE  \A s \in SUBSET S : g[s] \in N
  <2> DEFINE Bad == {s \in SUBSET S : g[s] \notin N}
  <2> SUFFICES ASSUME Bad # {} PROVE FALSE
    OBVIOUS
  <2>1. PICK s \in Bad : \A t \in Bad : Cardinality(s) <= Cardinality(t)
    BY <1>0, SmallestSet
  <2>2. s # {}
    <3>1. g[{}] \in N
      BY <1>a
    <3>2. g[s] \notin N
      OBVIOUS
    <3>3. QED
      BY <3>1, <3>2
  <2>3. Pick(s) \in s /\ Cardinality(s) \in Nat /\ Cardinality(s \ {Pick(s)}) = Cardinality(s) - 1
    BY <1>0, <2>2, PickIn, Smaller
  <2>4. s \ {Pick(s)} \notin Bad
    BY <2>1, <2>3
  <2>5. g[s \ {Pick(s)}] \in N /\ f[Pick(s)] \in N
    BY <1>1, <2>3, <2>4
  <2>6. g[s] = f[Pick(s)] + g[s \ {Pick(s)}]
    BY <2>2, <1>a
  <2>7. QED
    BY <2>5, <2>6
<1>2. QED
  BY <1>1

\* It does not matter which element is taken out first.
LEMMA SumAnyOrder ==
  ASSUME NEW S, IsFiniteSet(S), NEW f, \A x \in S : f[x] \in Int, NEW g, IsSum(f, S, g)
  PROVE  \A s \in SUBSET S : \A x \in s : g[s] = f[x] + g[s \ {x}]
<1> DEFINE Bad == {s \in SUBSET S : ~ \A x \in s : g[s] = f[x] + g[s \ {x}]}
<1>0. \A s \in SUBSET S : IsFiniteSet(s) /\ g[s] \in Int
  BY FS_Subset, SumTypes
<1> SUFFICES ASSUME Bad # {} PROVE FALSE
  OBVIOUS
<1>1. PICK s \in Bad : \A t \in Bad : Cardinality(s) <= Cardinality(t)
  BY <1>0, SmallestSet
<1>2. PICK x \in s : g[s] # f[x] + g[s \ {x}]
  OBVIOUS
<1> DEFINE c == Pick(s)
<1>3. c \in s /\ g[s] = f[c] + g[s \ {c}]
  BY <1>2, PickIn, SumRules
<1>4. c # x
  BY <1>2, <1>3
<1> HIDE DEF c
<1>5. \A y \in s : \A z \in s \ {y} : g[s \ {y}] = f[z] + g[(s \ {y}) \ {z}]
  <2> TAKE y \in s
  <2>1. Cardinality(s) \in Nat /\ Cardinality(s \ {y}) = Cardinality(s) - 1
    BY <1>0, Smaller
  <2>2. s \ {y} \notin Bad
    BY <1>1, <2>1
  <2>3. QED
    BY <2>2
<1>6. /\ g[s \ {c}] = f[x] + g[(s \ {c}) \ {x}]
      /\ g[s \ {x}] = f[c] + g[(s \ {x}) \ {c}]
  BY <1>3, <1>4, <1>5
<1>7. g[(s \ {c}) \ {x}] = g[(s \ {x}) \ {c}]
  <2>1. (s \ {c}) \ {x} = (s \ {x}) \ {c}
    OBVIOUS
  <2>2. QED
    BY <2>1
<1>8. f[x] \in Int /\ f[c] \in Int /\ g[(s \ {x}) \ {c}] \in Int
  BY <1>0, <1>3
<1>9. QED
  BY <1>2, <1>3, <1>6, <1>7, <1>8

\* Functions that agree on a set have the same sum over it.
LEMMA SumSame ==
  ASSUME NEW S, IsFiniteSet(S), NEW f, NEW g, IsSum(f, S, g),
         NEW T, NEW e, NEW h, IsSum(e, T, h),
         NEW U, U \subseteq S, U \subseteq T, \A x \in U : f[x] = e[x]
  PROVE  g[U] = h[U]
<1> DEFINE Bad == {s \in SUBSET U : g[s] # h[s]}
<1>a. /\ g[{}] = 0 /\ h[{}] = 0
      /\ \A s \in SUBSET S : s # {} => g[s] = f[Pick(s)] + g[s \ {Pick(s)}]
      /\ \A s \in SUBSET T : s # {} => h[s] = e[Pick(s)] + h[s \ {Pick(s)}]
  BY SumRules
<1>0. \A s \in SUBSET U : IsFiniteSet(s)
  <2>1. IsFiniteSet(U)
    BY FS_Subset
  <2>2. QED
    BY <2>1, FS_Subset
<1> SUFFICES ASSUME g[U] # h[U] PROVE FALSE
  OBVIOUS
<1>b. U \in Bad
  OBVIOUS
<1>1. PICK s \in Bad : \A t \in Bad : Cardinality(s) <= Cardinality(t)
  BY <1>0, <1>b, SmallestSet
<1>2. s # {}
  BY <1>a
<1>3. Pick(s) \in s /\ Cardinality(s) \in Nat /\ Cardinality(s \ {Pick(s)}) = Cardinality(s) - 1
  BY <1>0, <1>2, PickIn, Smaller
<1>4. s \ {Pick(s)} \notin Bad
  BY <1>1, <1>3
<1>5. g[s] = f[Pick(s)] + g[s \ {Pick(s)}] /\ h[s] = e[Pick(s)] + h[s \ {Pick(s)}]
  BY <1>2, <1>a
<1>6. f[Pick(s)] = e[Pick(s)]
  BY <1>3
<1>7. g[s \ {Pick(s)}] = h[s \ {Pick(s)}]
  BY <1>4
<1>8. g[s] # h[s]
  OBVIOUS
<1>9. QED
  BY <1>5, <1>6, <1>7, <1>8

-----------------------------------------------------------------------------
(* The sums the models take. *)

\* The library's sum is the value of a solution at the whole set.
LEMMA SumUnfolds ==
  ASSUME NEW S, IsFiniteSet(S), NEW f
  PROVE  \E g : IsSum(f, S, g) /\ SumFunctionOnSet(f, S) = g[S]
<1> DEFINE g == CHOOSE h : IsSum(f, S, h)
<1>1. IsSum(f, S, g)
  BY SumsExist
<1>2. SumFunctionOnSet(f, S) = g[S]
  BY DEF SumFunctionOnSet, FoldFunctionOnSet, MapThenFoldSet, IsSum, Pick
<1>3. QED
  BY <1>1, <1>2

\* The sum over the empty set is 0; a sum of integers is an integer, one of naturals
\* a natural.
LEMMA SumType ==
  ASSUME NEW S, IsFiniteSet(S), NEW f
  PROVE  /\ S = {} => SumFunctionOnSet(f, S) = 0
         /\ (\A x \in S : f[x] \in Int) => SumFunctionOnSet(f, S) \in Int
         /\ (\A x \in S : f[x] \in Nat) => SumFunctionOnSet(f, S) \in Nat
<1>1. PICK g : IsSum(f, S, g) /\ SumFunctionOnSet(f, S) = g[S]
  BY SumUnfolds
<1>2. g[{}] = 0
  BY <1>1, SumRules
<1>3. /\ (\A x \in S : f[x] \in Int) => \A s \in SUBSET S : g[s] \in Int
      /\ (\A x \in S : f[x] \in Nat) => \A s \in SUBSET S : g[s] \in Nat
  BY <1>1, SumTypes
<1>4. QED
  BY <1>1, <1>2, <1>3

\* A sum depends on nothing but the values it adds up.
LEMMA SumCongruence ==
  ASSUME NEW S, IsFiniteSet(S), NEW f, NEW e, \A x \in S : f[x] = e[x]
  PROVE  SumFunctionOnSet(f, S) = SumFunctionOnSet(e, S)
<1>1. PICK g : IsSum(f, S, g) /\ SumFunctionOnSet(f, S) = g[S]
  BY SumUnfolds
<1>2. PICK h : IsSum(e, S, h) /\ SumFunctionOnSet(e, S) = h[S]
  BY SumUnfolds
<1>3. g[S] = h[S]
  BY <1>1, <1>2, SumSame
<1>4. QED
  BY <1>1, <1>2, <1>3

\* Any element can be taken out of a sum.
LEMMA SumTakeOut ==
  ASSUME NEW S, IsFiniteSet(S), NEW f, \A y \in S : f[y] \in Int, NEW x \in S
  PROVE  /\ SumFunctionOnSet(f, S) = f[x] + SumFunctionOnSet(f, S \ {x})
         /\ SumFunctionOnSet(f, S \ {x}) \in Int
<1>1. PICK g : IsSum(f, S, g) /\ SumFunctionOnSet(f, S) = g[S]
  BY SumUnfolds
<1>2. IsFiniteSet(S \ {x})
  BY Smaller
<1>3. PICK h : IsSum(f, S \ {x}, h) /\ SumFunctionOnSet(f, S \ {x}) = h[S \ {x}]
  BY <1>2, SumUnfolds
<1>4. g[S \ {x}] = h[S \ {x}]
  BY <1>1, <1>2, <1>3, SumSame
<1>5. g[S] = f[x] + g[S \ {x}] /\ g[S \ {x}] \in Int
  BY <1>1, SumAnyOrder, SumTypes
<1>6. QED
  BY <1>1, <1>3, <1>4, <1>5

\* Changing one value changes a sum by the difference.
LEMMA SumUpdate ==
  ASSUME NEW S, IsFiniteSet(S), NEW f, NEW e,
         \A y \in S : f[y] \in Int /\ e[y] \in Int,
         NEW x \in S, \A y \in S \ {x} : e[y] = f[y]
  PROVE  /\ SumFunctionOnSet(e, S) = SumFunctionOnSet(f, S) + (e[x] - f[x])
         /\ SumFunctionOnSet(f, S) \in Int /\ SumFunctionOnSet(e, S) \in Int
<1> DEFINE R == SumFunctionOnSet(f, S \ {x})
<1>1. SumFunctionOnSet(f, S) = f[x] + R /\ R \in Int
  BY SumTakeOut
<1>2. SumFunctionOnSet(e, S) = e[x] + SumFunctionOnSet(e, S \ {x})
  BY SumTakeOut
<1>3. SumFunctionOnSet(e, S \ {x}) = R
  BY Smaller, SumCongruence
<1> HIDE DEF R
<1>4. QED
  BY <1>1, <1>2, <1>3

\* A sum of zeros is zero.
LEMMA SumOfZeros ==
  ASSUME NEW S, IsFiniteSet(S), NEW f, \A x \in S : f[x] = 0
  PROVE  SumFunctionOnSet(f, S) = 0
<1>1. PICK g : IsSum(f, S, g) /\ SumFunctionOnSet(f, S) = g[S]
  BY SumUnfolds
<1> DEFINE Bad == {s \in SUBSET S : g[s] # 0}
<1>2. \A s \in SUBSET S : IsFiniteSet(s)
  BY FS_Subset
<1>3. /\ g[{}] = 0
      /\ \A s \in SUBSET S : s # {} => g[s] = f[Pick(s)] + g[s \ {Pick(s)}]
  BY <1>1, SumRules
<1>4. SUFFICES ASSUME Bad # {} PROVE FALSE
  BY <1>1
<1>5. PICK s \in Bad : \A t \in Bad : Cardinality(s) <= Cardinality(t)
  BY <1>2, <1>4, SmallestSet
<1>6. s # {}
  BY <1>3
<1>7. Pick(s) \in s /\ Cardinality(s) \in Nat /\ Cardinality(s \ {Pick(s)}) = Cardinality(s) - 1
  BY <1>2, <1>6, PickIn, Smaller
<1>8. s \ {Pick(s)} \notin Bad
  BY <1>5, <1>7
<1>9. g[s \ {Pick(s)}] = 0 /\ f[Pick(s)] = 0
  BY <1>7, <1>8
<1>10. QED
  BY <1>3, <1>6, <1>9

\* A sum of values that are no greater is no greater.
LEMMA SumMonotone ==
  ASSUME NEW S, IsFiniteSet(S), NEW f, NEW e,
         \A x \in S : f[x] \in Int /\ e[x] \in Int /\ f[x] <= e[x]
  PROVE  SumFunctionOnSet(f, S) <= SumFunctionOnSet(e, S)
<1> DEFINE F(s) == SumFunctionOnSet(f, s)
           E(s) == SumFunctionOnSet(e, s)
           Bad  == {s \in SUBSET S : ~(F(s) <= E(s))}
<1>1. \A s \in SUBSET S : IsFiniteSet(s)
  BY FS_Subset
<1>2. F({}) = 0 /\ E({}) = 0
  BY <1>1, SumType
<1>3. ASSUME NEW s \in SUBSET S, NEW x \in s
      PROVE  /\ F(s) = f[x] + F(s \ {x}) /\ F(s \ {x}) \in Int
             /\ E(s) = e[x] + E(s \ {x}) /\ E(s \ {x}) \in Int
  BY <1>1, SumTakeOut
<1> HIDE DEF F, E
<1>4. SUFFICES ASSUME Bad # {} PROVE FALSE
  BY DEF F, E
<1>5. PICK s \in Bad : \A t \in Bad : Cardinality(s) <= Cardinality(t)
  BY <1>1, <1>4, SmallestSet
<1>6. s # {}
  BY <1>2
<1>7. PICK x \in s : TRUE
  BY <1>6
<1>8. Cardinality(s) \in Nat /\ Cardinality(s \ {x}) = Cardinality(s) - 1
  BY <1>1, Smaller
<1>9. F(s \ {x}) <= E(s \ {x})
  BY <1>5, <1>8
<1>10. QED
  BY <1>3, <1>9

\* Leaving out some of the terms of a sum of naturals does not raise it.
LEMMA SumSubset ==
  ASSUME NEW S, IsFiniteSet(S), NEW f, \A x \in S : f[x] \in Nat, NEW V \in SUBSET S
  PROVE  SumFunctionOnSet(f, S \ V) <= SumFunctionOnSet(f, S)
<1> DEFINE F(s) == SumFunctionOnSet(f, s)
           Bad  == {U \in SUBSET S : ~(F(S \ U) <= F(S))}
<1>1. \A s \in SUBSET S : IsFiniteSet(s) /\ F(s) \in Nat
  BY FS_Subset, SumType
<1>2. ASSUME NEW U \in SUBSET S, NEW x \in U
      PROVE  F(S \ (U \ {x})) = f[x] + F(S \ U)
  <2>1. /\ S \ (U \ {x}) \in SUBSET S /\ x \in S \ (U \ {x})
        /\ (S \ (U \ {x})) \ {x} = S \ U
    OBVIOUS
  <2>2. QED
    BY <1>1, <2>1, SumTakeOut
<1> HIDE DEF F
<1>3. SUFFICES ASSUME Bad # {} PROVE FALSE
  BY DEF F
<1>4. PICK U \in Bad : \A t \in Bad : Cardinality(U) <= Cardinality(t)
  BY <1>1, <1>3, SmallestSet
<1>5. U # {}
  <2>1. S \ {} = S
    OBVIOUS
  <2>2. QED
    BY <1>1, <2>1
<1>6. PICK x \in U : TRUE
  BY <1>5
<1>7. Cardinality(U) \in Nat /\ Cardinality(U \ {x}) = Cardinality(U) - 1
  BY <1>1, Smaller
<1>8. F(S \ (U \ {x})) <= F(S)
  BY <1>4, <1>7
<1>9. /\ F(S \ (U \ {x})) \in Nat /\ F(S \ U) \in Nat /\ F(S) \in Nat
      /\ f[x] \in Nat
  BY <1>1
<1>10. F(S \ (U \ {x})) = f[x] + F(S \ U)
  BY <1>2
<1>11. QED
  BY <1>4, <1>8, <1>9, <1>10

\* Terms that are within a rate of one another add up to sums that are: the rate is given
\* as a fraction of two integers.
LEMMA SumScaled ==
  ASSUME NEW S, IsFiniteSet(S), NEW f, NEW e, NEW p \in Int, NEW q \in Int,
         \A x \in S : f[x] \in Int /\ e[x] \in Int /\ f[x] * q <= e[x] * p
  PROVE  SumFunctionOnSet(f, S) * q <= SumFunctionOnSet(e, S) * p
<1> DEFINE F(s) == SumFunctionOnSet(f, s)
           E(s) == SumFunctionOnSet(e, s)
           Bad  == {s \in SUBSET S : ~(F(s) * q <= E(s) * p)}
<1>1. \A s \in SUBSET S : IsFiniteSet(s)
  BY FS_Subset
<1>2. F({}) = 0 /\ E({}) = 0
  BY <1>1, SumType
<1>3. ASSUME NEW s \in SUBSET S, NEW x \in s
      PROVE  /\ F(s) = f[x] + F(s \ {x}) /\ F(s \ {x}) \in Int
             /\ E(s) = e[x] + E(s \ {x}) /\ E(s \ {x}) \in Int
  BY <1>1, SumTakeOut
<1> HIDE DEF F, E
<1>4. SUFFICES ASSUME Bad # {} PROVE FALSE
  BY DEF F, E
<1>5. PICK s \in Bad : \A t \in Bad : Cardinality(s) <= Cardinality(t)
  BY <1>1, <1>4, SmallestSet
<1>6. s # {}
  BY <1>2
<1>7. PICK x \in s : TRUE
  BY <1>6
<1>8. Cardinality(s) \in Nat /\ Cardinality(s \ {x}) = Cardinality(s) - 1
  BY <1>1, Smaller
<1>9. F(s \ {x}) * q <= E(s \ {x}) * p
  BY <1>5, <1>8
<1>10. \A a, b, c, d \in Int : a * q <= c * p /\ b * q <= d * p => (a + b) * q <= (c + d) * p
  OBVIOUS
<1>11. F(s) * q <= E(s) * p
  <2>1. /\ f[x] \in Int /\ e[x] \in Int /\ f[x] * q <= e[x] * p
        /\ F(s \ {x}) \in Int /\ E(s \ {x}) \in Int
    BY <1>3
  <2>2. (f[x] + F(s \ {x})) * q <= (e[x] + E(s \ {x})) * p
    BY <1>9, <1>10, <2>1
  <2>3. QED
    BY <1>3, <2>2
<1>12. QED
  BY <1>11

-----------------------------------------------------------------------------
(* The function a fold over a sequence unfolds to. *)

\* g gives what F makes of base over every set of indices, the greatest index last.
IsFold(F, base, S, g) ==
  g = [s \in SUBSET S |-> IF s = {} THEN base ELSE F[Max(s)][g[s \ {Max(s)}]]]

\* A nonempty set of indices has a greatest one; of the first k it is k.
LEMMA MaxIn ==
  ASSUME NEW n \in Nat
  PROVE  /\ \A s \in SUBSET (1 .. n) : s # {} => Max(s) \in s
         /\ \A k \in 1 .. n : Max(1 .. k) = k
<1>1. ASSUME NEW s \in SUBSET (1 .. n), s # {} PROVE Max(s) \in s
  <2> DEFINE B == {m \in Nat : n - m \in s}
  <2>1. \A x \in s : x \in 1 .. n /\ n - x \in Nat /\ n - (n - x) = x
    OBVIOUS
  <2>2. \A x \in s : n - x \in B
    BY <2>1
  <2>3. PICK m \in B : \A k \in B : m <= k
    BY <1>1, <2>2, LeastNat
  <2>4. n - m \in s /\ \A y \in s : n - m >= y
    BY <2>1, <2>2, <2>3
  <2>5. QED
    BY <2>4 DEF Max
<1>2. ASSUME NEW k \in 1 .. n PROVE Max(1 .. k) = k
  <2>1. k \in 1 .. k /\ \A y \in 1 .. k : k >= y
    BY <1>2
  <2>2. \A x \in 1 .. k : (\A y \in 1 .. k : x >= y) => x = k
    BY <2>1
  <2>3. QED
    BY <2>1, <2>2 DEF Max
<1>3. QED
  BY <1>1, <1>2

\* The first indices without the last of them.
LEMMA FirstIndices ==
  ASSUME NEW n \in Nat, NEW k \in 1 .. n
  PROVE  1 .. k \in SUBSET (1 .. n) /\ 1 .. k # {} /\ (1 .. k) \ {k} = 1 .. (k - 1)
  OBVIOUS

\* The recursion has a solution, and it stays in any set that F and the base stay in.
LEMMA FoldsExist ==
  ASSUME NEW n \in Nat, NEW F, NEW T, NEW base \in T,
         \A k \in 1 .. n : \A t \in T : F[k][t] \in T
  PROVE  \E g : IsFold(F, base, 1 .. n, g) /\ \A s \in SUBSET (1 .. n) : g[s] \in T
<1> DEFINE S == 1 .. n
           Body(g, s) == IF s = {} THEN base ELSE F[Max(s)][g[s \ {Max(s)}]]
           Solved(m) == \E g : /\ g = [s \in UpTo(S, m) |-> Body(g, s)]
                               /\ \A s \in UpTo(S, m) : g[s] \in T
           Bad == {m \in Nat : ~Solved(m)}
<1>a. IsFiniteSet(S)
  BY FS_Interval
<1>b. \A s \in SUBSET S : s # {} => Max(s) \in s
  BY MaxIn
<1>c. \A k \in S : \A t \in T : F[k][t] \in T
  OBVIOUS
<1> HIDE DEF S
<1>0. \A s \in SUBSET S : IsFiniteSet(s) /\ Cardinality(s) \in Nat
  BY <1>a, FS_Subset, FS_CardinalityType
<1>1. Bad = {}
  <2> SUFFICES ASSUME Bad # {} PROVE FALSE
    OBVIOUS
  <2>1. PICK m \in Bad : \A k \in Bad : m <= k
    BY LeastNat
  <2>2. CASE m = 0
    <3> DEFINE g == [s \in UpTo(S, 0) |-> base]
    <3>1. UpTo(S, 0) = {{}}
      BY <1>0, FS_EmptySet DEF UpTo
    <3>2. g = [s \in UpTo(S, 0) |-> Body(g, s)] /\ \A s \in UpTo(S, 0) : g[s] \in T
      BY <3>1
    <3>3. Solved(0)
      BY <3>2
    <3>4. QED
      BY <2>2, <3>3
  <2>3. CASE m # 0
    <3>1. m - 1 \in Nat /\ Solved(m - 1)
      <4>1. m \in Nat /\ m - 1 \in Nat /\ ~(m <= m - 1)
        BY <2>3
      <4> HIDE DEF Solved
      <4>2. QED
        BY <2>1, <4>1
    <3>2. PICK g : /\ g = [s \in UpTo(S, m - 1) |-> Body(g, s)]
                   /\ \A s \in UpTo(S, m - 1) : g[s] \in T
      BY <3>1
    <3> DEFINE h == [s \in UpTo(S, m) |-> Body(g, s)]
    <3>3. \A s \in UpTo(S, m - 1) : h[s] = g[s]
      <4>1. UpTo(S, m - 1) \subseteq UpTo(S, m)
        BY <3>1, <1>0 DEF UpTo
      <4> HIDE DEF Body
      <4>2. QED
        BY <3>2, <4>1
    <3>4. \A s \in UpTo(S, m) : s # {} => s \ {Max(s)} \in UpTo(S, m - 1) /\ Max(s) \in S
      <4> SUFFICES ASSUME NEW s \in UpTo(S, m), s # {}
                   PROVE  s \ {Max(s)} \in UpTo(S, m - 1) /\ Max(s) \in S
        OBVIOUS
      <4>1. s \in SUBSET S /\ Cardinality(s) <= m /\ IsFiniteSet(s)
        BY <1>0 DEF UpTo
      <4>2. Max(s) \in s
        BY <1>b, <4>1
      <4>3. Cardinality(s \ {Max(s)}) = Cardinality(s) - 1 /\ Cardinality(s) \in Nat
        BY <4>1, <4>2, Smaller
      <4>4. QED
        BY <3>1, <4>1, <4>2, <4>3 DEF UpTo
    <3>5. \A s \in UpTo(S, m) : Body(g, s) = Body(h, s) /\ Body(g, s) \in T
      BY <1>c, <3>2, <3>3, <3>4
    <3> HIDE DEF Body
    <3>6. h = [s \in UpTo(S, m) |-> Body(h, s)] /\ \A s \in UpTo(S, m) : h[s] \in T
      BY <3>5
    <3>7. Solved(m)
      BY <3>6
    <3>8. QED
      BY <3>7
  <2>4. QED
    BY <2>2, <2>3
<1>2. Solved(Cardinality(S))
  BY <1>1, <1>a, FS_CardinalityType
<1>3. UpTo(S, Cardinality(S)) = SUBSET S
  BY <1>a, FS_Subset DEF UpTo
<1>4. QED
  BY <1>2, <1>3 DEF IsFold, S

=============================================================================
