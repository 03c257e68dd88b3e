----------------------------- MODULE SumLemmas -----------------------------
(***************************************************************************)
(* What the sums and the loops of the contracts are.                       *)
(*                                                                         *)
(* SumFunctionOnSet of the community module Functions sums a function over *)
(* a finite set by picking its elements one after the other; the folds of  *)
(* SequencesExt take the greatest index last.  The facts below are proved  *)
(* from those definitions by taking a minimal subset for which they would  *)
(* fail; of a fold, that what every step keeps, the fold keeps.            *)
(***************************************************************************)
EXTENDS Integers, Sequences, FiniteSets, SequencesExt, FiniteSetTheorems, WellFoundedInduction, TLAPS

\* The element a sum over T takes first.
Pick(T) == CHOOSE x \in T : TRUE

\* h gives the sum of f over every subset of S.
IsSum(f, S, h) ==
  h = [T \in SUBSET S |-> IF T = {} THEN 0 ELSE f[Pick(T)] + h[T \ {Pick(T)}]]

\* Among subsets of a finite set there is always a minimal one.
LEMMA MinimalSubset ==
  ASSUME NEW S, IsFiniteSet(S), NEW Family \in SUBSET (SUBSET S), Family # {}
  PROVE  \E T \in Family : \A U \in Family : U \subseteq T => U = T
<1>1. IsWellFoundedOn(StrictSubsetOrdering(S), SUBSET S)
  BY FS_StrictSubsetOrderingWellFounded, FS_FiniteSubsetsOfFinite
<1>2. PICK T \in Family : \A U \in Family : ~(<<U, T>> \in StrictSubsetOrdering(S))
  BY <1>1, WFMin
<1>3. \A U \in Family : U \subseteq T => U = T
  BY <1>2 DEF StrictSubsetOrdering
<1> QED BY <1>3

\* A non-empty set of naturals has a least element.
LEMMA LeastNatural ==
  ASSUME NEW T \in SUBSET Nat, T # {}
  PROVE  \E n \in T : \A m \in T : n <= m
<1>1. PICK x \in T : TRUE
  OBVIOUS
<1> DEFINE Family == {0..n : n \in T \cap (0..x)}
<1>2. Family \in SUBSET (SUBSET (0..x)) /\ 0..x \in Family
  BY <1>1
<1>3. IsFiniteSet(0..x)
  BY <1>1, FS_Interval
<1>4. PICK I \in Family : \A J \in Family : J \subseteq I => J = I
  <2> DEFINE S == 0..x
  <2>1. IsFiniteSet(S) /\ Family \in SUBSET (SUBSET S) /\ Family # {}
    BY <1>2, <1>3
  <2> HIDE DEF Family, S
  <2> QED BY <2>1, MinimalSubset
<1>5. PICK n \in T \cap (0..x) : I = 0..n
  BY <1>4
<1>6. ASSUME NEW m \in T, m < n
      PROVE  FALSE
  <2>1. 0..m \in Family /\ 0..m \subseteq 0..n /\ n \notin 0..m /\ n \in 0..n
    BY <1>6, <1>5
  <2> QED BY <2>1, <1>4, <1>5
<1> QED BY <1>5, <1>6

\* The element picked from a non-empty set is one of its elements.
LEMMA PickIn == ASSUME NEW T, T # {} PROVE Pick(T) \in T
BY DEF Pick

\* Sums over the subsets of a set are sums over those of each of its subsets.
LEMMA SumRestrict ==
  ASSUME NEW f, NEW S, NEW h, IsSum(f, S, h), NEW T \in SUBSET S
  PROVE  IsSum(f, T, [U \in SUBSET T |-> h[U]])
<1> DEFINE g == [U \in SUBSET T |-> h[U]]
<1>1. ASSUME NEW U \in SUBSET T
      PROVE  g[U] = IF U = {} THEN 0 ELSE f[Pick(U)] + g[U \ {Pick(U)}]
  <2>1. U \in SUBSET S /\ U \ {Pick(U)} \in SUBSET T
    OBVIOUS
  <2>2. h[U] = IF U = {} THEN 0 ELSE f[Pick(U)] + h[U \ {Pick(U)}]
    BY <2>1 DEF IsSum
  <2> QED BY <2>1, <2>2
<1>2. g = [U \in SUBSET T |-> IF U = {} THEN 0 ELSE f[Pick(U)] + g[U \ {Pick(U)}]]
  BY <1>1
<1> QED BY <1>2 DEF IsSum

\* At most one function gives the sums over all subsets.
LEMMA SumUnique ==
  ASSUME NEW f, NEW S, IsFiniteSet(S), NEW g, NEW h, IsSum(f, S, g), IsSum(f, S, h)
  PROVE  g = h
<1> DEFINE Bad == {T \in SUBSET S : g[T] # h[T]}
<1>1. Bad = {}
  <2> SUFFICES ASSUME Bad # {} PROVE FALSE
    OBVIOUS
  <2>0. Bad \in SUBSET (SUBSET S)
    OBVIOUS
  <2>1. PICK T \in Bad : \A U \in Bad : U \subseteq T => U = T
    <3> HIDE DEF Bad
    <3> QED BY <2>0, MinimalSubset
  <2>2. /\ g[T] = IF T = {} THEN 0 ELSE f[Pick(T)] + g[T \ {Pick(T)}]
        /\ h[T] = IF T = {} THEN 0 ELSE f[Pick(T)] + h[T \ {Pick(T)}]
    BY DEF IsSum
  <2>3. T # {}
    BY <2>2
  <2>4. T \ {Pick(T)} \notin Bad
    BY <2>1, <2>3, PickIn
  <2>5. g[T \ {Pick(T)}] = h[T \ {Pick(T)}]
    BY <2>4
  <2> QED BY <2>2, <2>3, <2>5
<1>2. DOMAIN g = SUBSET S /\ DOMAIN h = SUBSET S /\ g = [T \in SUBSET S |-> g[T]] /\ h = [T \in SUBSET S |-> h[T]]
  BY DEF IsSum
<1>3. \A T \in SUBSET S : g[T] = h[T]
  BY <1>1
<1> QED BY <1>2, <1>3

\* Some function gives the sums over all subsets.
LEMMA SumExists ==
  ASSUME NEW f, NEW S, IsFiniteSet(S)
  PROVE  \E h : IsSum(f, S, h)
<1> DEFINE Bad == {T \in SUBSET S : ~ \E h : IsSum(f, T, h)}
           H(T) == CHOOSE h : IsSum(f, T, h)
<1> SUFFICES ASSUME Bad # {} PROVE FALSE
  OBVIOUS
<1>0. Bad \in SUBSET (SUBSET S)
  OBVIOUS
<1>1. PICK B \in Bad : \A U \in Bad : U \subseteq B => U = B
  <2> HIDE DEF Bad
  <2> QED BY <1>0, MinimalSubset
<1>2. \A T \in SUBSET B : T # B => IsSum(f, T, H(T))
  BY <1>1
<1> DEFINE h == [T \in SUBSET B |-> IF T = {} THEN 0 ELSE f[Pick(T)] + H(T \ {Pick(T)})[T \ {Pick(T)}]]
<1>3. ASSUME NEW T \in SUBSET B, T # B
      PROVE  h[T] = H(T)[T]
  <2>1. H(T)[T] = IF T = {} THEN 0 ELSE f[Pick(T)] + H(T)[T \ {Pick(T)}]
    <3>1. IsSum(f, T, H(T)) BY <1>2, <1>3
    <3> QED BY <3>1 DEF IsSum
  <2>2. CASE T = {}
    BY <2>1, <2>2
  <2>3. CASE T # {}
    <3> DEFINE U == T \ {Pick(T)}
    <3>1. U \in SUBSET T /\ U \in SUBSET B /\ U # B
      BY <2>3, <1>3
    <3>2. IsSum(f, U, [V \in SUBSET U |-> H(T)[V]])
      BY <1>2, <1>3, <3>1, SumRestrict
    <3>3. IsSum(f, U, H(U))
      BY <1>2, <3>1
    <3>4. IsFiniteSet(U)
      BY <3>1, FS_Subset
    <3>5. H(U) = [V \in SUBSET U |-> H(T)[V]]
      BY <3>2, <3>3, <3>4, SumUnique
    <3>6. H(U)[U] = H(T)[U]
      BY <3>5
    <3> QED BY <3>6, <2>1, <2>3
  <2> QED BY <2>2, <2>3
<1>4. ASSUME NEW T \in SUBSET B
      PROVE  h[T] = IF T = {} THEN 0 ELSE f[Pick(T)] + h[T \ {Pick(T)}]
  <2>1. CASE T = {}
    BY <2>1
  <2>2. CASE T # {}
    <3>1. Pick(T) \in T
      BY <2>2, PickIn
    <3>2. T \ {Pick(T)} \in SUBSET B /\ T \ {Pick(T)} # B
      BY <3>1
    <3>3. h[T \ {Pick(T)}] = H(T \ {Pick(T)})[T \ {Pick(T)}]
      BY <3>2, <1>3
    <3> QED BY <3>3, <2>2
  <2> QED BY <2>1, <2>2
<1>5. h = [T \in SUBSET B |-> IF T = {} THEN 0 ELSE f[Pick(T)] + h[T \ {Pick(T)}]]
  <2> HIDE DEF H
  <2> QED BY <1>4
<1> QED BY <1>5, <1>1 DEF IsSum

\* SumFunctionOnSet is the value that function has on the whole set.
LEMMA SumIsSum ==
  ASSUME NEW f, NEW S, IsFiniteSet(S)
  PROVE  \E h : IsSum(f, S, h) /\ SumFunctionOnSet(f, S) = h[S]
<1> DEFINE h == CHOOSE g : IsSum(f, S, g)
<1>1. IsSum(f, S, h)
  BY SumExists
<1>2. SumFunctionOnSet(f, S) = h[S]
  BY Zenon DEF SumFunctionOnSet, FoldFunctionOnSet, MapThenFoldSet, IsSum, Pick
<1> QED BY <1>1, <1>2

\* The sum over nothing is zero.
THEOREM SumEmpty == \A f : SumFunctionOnSet(f, {}) = 0
<1> SUFFICES ASSUME NEW f PROVE SumFunctionOnSet(f, {}) = 0
  OBVIOUS
<1>1. IsFiniteSet({})
  BY FS_EmptySet
<1>2. PICK h : IsSum(f, {}, h) /\ SumFunctionOnSet(f, {}) = h[{}]
  BY <1>1, SumIsSum
<1>3. {} \in SUBSET {}
  OBVIOUS
<1> QED BY <1>2, <1>3 DEF IsSum

\* A sum is one of its terms and the sum of the others.
LEMMA SumPick ==
  ASSUME NEW f, NEW S, IsFiniteSet(S), S # {}
  PROVE  SumFunctionOnSet(f, S) = f[Pick(S)] + SumFunctionOnSet(f, S \ {Pick(S)})
<1> DEFINE R == S \ {Pick(S)}
<1>1. PICK h : IsSum(f, S, h) /\ SumFunctionOnSet(f, S) = h[S]
  BY SumIsSum
<1>2. R \in SUBSET S /\ IsFiniteSet(R)
  BY FS_Subset
<1>3. PICK g : IsSum(f, R, g) /\ SumFunctionOnSet(f, R) = g[R]
  BY <1>2, SumIsSum
<1>4. IsSum(f, R, [T \in SUBSET R |-> h[T]])
  BY <1>1, <1>2, SumRestrict
<1>5. g = [T \in SUBSET R |-> h[T]]
  BY <1>2, <1>3, <1>4, SumUnique
<1>6. g[R] = h[R]
  BY <1>5
<1>7. S \in SUBSET S
  OBVIOUS
<1>8. h[S] = f[Pick(S)] + h[R]
  BY <1>1, <1>7 DEF IsSum
<1> QED BY <1>1, <1>3, <1>6, <1>8

\* A sum of naturals is a natural, and a sum of integers an integer.
THEOREM SumType ==
  ASSUME NEW f, NEW S, IsFiniteSet(S), NEW V, V \in {Nat, Int}, \A x \in S : f[x] \in V
  PROVE  SumFunctionOnSet(f, S) \in V
<1> DEFINE Bad == {T \in SUBSET S : SumFunctionOnSet(f, T) \notin V}
<1>0. Bad \in SUBSET (SUBSET S)
  OBVIOUS
<1> SUFFICES ASSUME Bad # {} PROVE FALSE
  OBVIOUS
<1>1. PICK T \in Bad : \A U \in Bad : U \subseteq T => U = T
  <2> HIDE DEF Bad
  <2> QED BY <1>0, MinimalSubset
<1>2. T # {}
  BY SumEmpty
<1>3. Pick(T) \in T /\ IsFiniteSet(T)
  BY <1>2, PickIn, FS_Subset
<1>4. T \ {Pick(T)} \notin Bad
  BY <1>1, <1>3
<1>5. SumFunctionOnSet(f, T \ {Pick(T)}) \in V /\ f[Pick(T)] \in V
  BY <1>3, <1>4
<1>6. SumFunctionOnSet(f, T) = f[Pick(T)] + SumFunctionOnSet(f, T \ {Pick(T)})
  BY <1>2, <1>3, SumPick
<1>7. SumFunctionOnSet(f, T) \in V
  BY <1>5, <1>6
<1> QED BY <1>7

\* Any element of the set may be the one taken out of its sum.
THEOREM SumRemove ==
  ASSUME NEW f, NEW S, IsFiniteSet(S), NEW a \in S, \A x \in S : f[x] \in Int
  PROVE  SumFunctionOnSet(f, S) = f[a] + SumFunctionOnSet(f, S \ {a})
<1> DEFINE Bad == {T \in SUBSET S :
                     \E b \in T : SumFunctionOnSet(f, T) # f[b] + SumFunctionOnSet(f, T \ {b})}
<1>0. Bad \in SUBSET (SUBSET S)
  OBVIOUS
<1> SUFFICES ASSUME Bad # {} PROVE FALSE
  OBVIOUS
<1>1. PICK T \in Bad : \A U \in Bad : U \subseteq T => U = T
  <2> HIDE DEF Bad
  <2> QED BY <1>0, MinimalSubset
<1>2. PICK b \in T : SumFunctionOnSet(f, T) # f[b] + SumFunctionOnSet(f, T \ {b})
  OBVIOUS
<1>3. T \in SUBSET S /\ Pick(T) \in T /\ IsFiniteSet(T)
  BY <1>2, PickIn, FS_Subset
<1> DEFINE p == Pick(T)
           Rest == T \ {p, b}
<1>4. T \ {p} \notin Bad /\ T \ {b} \notin Bad
  BY <1>1, <1>2, <1>3
<1>5. SumFunctionOnSet(f, T) = f[p] + SumFunctionOnSet(f, T \ {p})
  BY <1>3, SumPick
<1>6. p # b
  BY <1>2, <1>5
<1>7. (T \ {p}) \ {b} = Rest /\ (T \ {b}) \ {p} = Rest
  OBVIOUS
<1>8. SumFunctionOnSet(f, T \ {p}) = f[b] + SumFunctionOnSet(f, Rest)
  BY <1>2, <1>3, <1>4, <1>6, <1>7
<1>9. SumFunctionOnSet(f, T \ {b}) = f[p] + SumFunctionOnSet(f, Rest)
  BY <1>2, <1>3, <1>4, <1>6, <1>7
<1>10. f[p] \in Int /\ f[b] \in Int
  BY <1>2, <1>3
<1>11. SumFunctionOnSet(f, Rest) \in Int
  BY <1>3, SumType, FS_Subset
<1> HIDE DEF p, Rest
<1> QED BY <1>2, <1>5, <1>8, <1>9, <1>10, <1>11

\* Larger terms give no smaller sum.
THEOREM SumMonotone ==
  ASSUME NEW f, NEW g, NEW S, IsFiniteSet(S), \A x \in S : f[x] \in Int /\ g[x] \in Int /\ f[x] <= g[x]
  PROVE  SumFunctionOnSet(f, S) <= SumFunctionOnSet(g, S)
<1> DEFINE Bad == {T \in SUBSET S : ~(SumFunctionOnSet(f, T) <= SumFunctionOnSet(g, T))}
<1>0. Bad \in SUBSET (SUBSET S)
  OBVIOUS
<1> SUFFICES ASSUME Bad # {} PROVE FALSE
  OBVIOUS
<1>1. PICK T \in Bad : \A U \in Bad : U \subseteq T => U = T
  <2> HIDE DEF Bad
  <2> QED BY <1>0, MinimalSubset
<1>2. T # {}
  BY SumEmpty
<1>3. Pick(T) \in T /\ IsFiniteSet(T)
  BY <1>2, PickIn, FS_Subset
<1> DEFINE R == T \ {Pick(T)}
<1>4. R \notin Bad /\ IsFiniteSet(R) /\ R \in SUBSET S
  BY <1>1, <1>3, FS_Subset
<1>5. SumFunctionOnSet(f, R) <= SumFunctionOnSet(g, R)
  BY <1>4
<1>6. SumFunctionOnSet(f, R) \in Int /\ SumFunctionOnSet(g, R) \in Int
  BY <1>4, SumType
<1>7. /\ SumFunctionOnSet(f, T) = f[Pick(T)] + SumFunctionOnSet(f, R)
      /\ SumFunctionOnSet(g, T) = g[Pick(T)] + SumFunctionOnSet(g, R)
  BY <1>2, <1>3, SumPick
<1>8. f[Pick(T)] \in Int /\ g[Pick(T)] \in Int /\ f[Pick(T)] <= g[Pick(T)]
  BY <1>3
<1>9. SumFunctionOnSet(f, T) <= SumFunctionOnSet(g, T)
  <2> HIDE DEF R
  <2> QED BY <1>5, <1>6, <1>7, <1>8
<1> QED BY <1>9

\* Equal terms give equal sums.
THEOREM SumSame ==
  ASSUME NEW f, NEW g, NEW S, IsFiniteSet(S), \A x \in S : f[x] \in Int /\ g[x] = f[x]
  PROVE  SumFunctionOnSet(g, S) = SumFunctionOnSet(f, S)
<1>1. SumFunctionOnSet(f, S) <= SumFunctionOnSet(g, S)
  BY SumMonotone
<1>2. SumFunctionOnSet(g, S) <= SumFunctionOnSet(f, S)
  BY SumMonotone
<1>3. SumFunctionOnSet(f, S) \in Int /\ SumFunctionOnSet(g, S) \in Int
  BY SumType
<1> QED BY <1>1, <1>2, <1>3

\* Changing one term changes the sum by the difference.
THEOREM SumUpdate ==
  ASSUME NEW f, NEW g, NEW S, IsFiniteSet(S), NEW a \in S,
         \A x \in S : f[x] \in Int /\ g[x] \in Int,
         \A x \in S \ {a} : g[x] = f[x]
  PROVE  SumFunctionOnSet(g, S) = SumFunctionOnSet(f, S) - f[a] + g[a]
<1> DEFINE Bad == {T \in SUBSET S : a \in T /\
                     SumFunctionOnSet(g, T) # SumFunctionOnSet(f, T) - f[a] + g[a]}
<1>0. Bad \in SUBSET (SUBSET S)
  OBVIOUS
<1> SUFFICES ASSUME Bad # {} PROVE FALSE
  OBVIOUS
<1>1. PICK T \in Bad : \A U \in Bad : U \subseteq T => U = T
  <2> HIDE DEF Bad
  <2> QED BY <1>0, MinimalSubset
<1>2. T # {} /\ a \in T /\ T \in SUBSET S
  OBVIOUS
<1>3. Pick(T) \in T /\ IsFiniteSet(T)
  BY <1>2, PickIn, FS_Subset
<1> DEFINE p == Pick(T)
           R == T \ {p}
<1>4. IsFiniteSet(R) /\ R \in SUBSET S /\ R \notin Bad
  BY <1>1, <1>3, FS_Subset
<1>5. /\ SumFunctionOnSet(f, T) = f[p] + SumFunctionOnSet(f, R)
      /\ SumFunctionOnSet(g, T) = g[p] + SumFunctionOnSet(g, R)
  BY <1>2, <1>3, SumPick
<1>6. SumFunctionOnSet(f, R) \in Int /\ SumFunctionOnSet(g, R) \in Int
  BY <1>4, SumType
<1>7. f[a] \in Int /\ g[a] \in Int /\ f[p] \in Int /\ g[p] \in Int
  BY <1>2, <1>3
<1>8. CASE p = a
  <2>1. \A x \in R : f[x] \in Int /\ g[x] = f[x]
    BY <1>8, <1>4
  <2>2. SumFunctionOnSet(g, R) = SumFunctionOnSet(f, R)
    BY <2>1, <1>4, SumSame
  <2>3. SumFunctionOnSet(g, T) = SumFunctionOnSet(f, T) - f[a] + g[a]
    <3> HIDE DEF R, p
    <3> QED BY <1>5, <1>6, <1>7, <1>8, <2>2
  <2> QED BY <2>3, <1>2
<1>9. CASE p # a
  <2>1. a \in R
    BY <1>2, <1>9
  <2>2. SumFunctionOnSet(g, R) = SumFunctionOnSet(f, R) - f[a] + g[a]
    BY <2>1, <1>4
  <2>3. g[p] = f[p]
    BY <1>9, <1>2, <1>3
  <2>4. SumFunctionOnSet(g, T) = SumFunctionOnSet(f, T) - f[a] + g[a]
    <3> HIDE DEF R, p
    <3> QED BY <1>5, <1>6, <1>7, <2>2, <2>3
  <2> QED BY <2>4, <1>2
<1> QED BY <1>8, <1>9

\* A sum of zeros is zero.
LEMMA SumZero ==
  ASSUME NEW f, NEW S, IsFiniteSet(S), \A x \in S : f[x] = 0
  PROVE  SumFunctionOnSet(f, S) = 0
<1> DEFINE Bad == {T \in SUBSET S : SumFunctionOnSet(f, T) # 0}
<1>1. Bad \in SUBSET (SUBSET S)
  OBVIOUS
<1> SUFFICES ASSUME Bad # {} PROVE FALSE
  OBVIOUS
<1>2. PICK T \in Bad : \A U \in Bad : U \subseteq T => U = T
  <2> HIDE DEF Bad
  <2> QED BY <1>1, MinimalSubset
<1>3. IsFiniteSet(T) /\ T \in SUBSET S
  BY FS_Subset
<1>4. T # {}
  BY SumEmpty
<1>5. PICK b \in T : TRUE
  BY <1>4
<1>6. SumFunctionOnSet(f, T \ {b}) = 0
  BY <1>2, <1>3, <1>5
<1>7. SumFunctionOnSet(f, T) = f[b] + SumFunctionOnSet(f, T \ {b})
  BY <1>3, <1>5, SumRemove
<1> QED BY <1>3, <1>5, <1>6, <1>7

\* The terms of a sum may be added in two parts.
THEOREM SumPlus ==
  ASSUME NEW f, NEW g, NEW h, NEW S, IsFiniteSet(S),
         \A x \in S : f[x] \in Int /\ g[x] \in Int /\ h[x] = f[x] + g[x]
  PROVE  SumFunctionOnSet(h, S) = SumFunctionOnSet(f, S) + SumFunctionOnSet(g, S)
<1> DEFINE Bad == {T \in SUBSET S :
                     SumFunctionOnSet(h, T) # SumFunctionOnSet(f, T) + SumFunctionOnSet(g, T)}
<1>1. Bad \in SUBSET (SUBSET S)
  OBVIOUS
<1> SUFFICES ASSUME Bad # {} PROVE FALSE
  OBVIOUS
<1>2. PICK T \in Bad : \A U \in Bad : U \subseteq T => U = T
  <2> HIDE DEF Bad
  <2> QED BY <1>1, MinimalSubset
<1>3. IsFiniteSet(T) /\ T \in SUBSET S
  BY FS_Subset
<1>4. T # {}
  <2>1. 0 + 0 = 0 /\ SumFunctionOnSet(h, {}) = 0 /\ SumFunctionOnSet(f, {}) = 0
          /\ SumFunctionOnSet(g, {}) = 0
    BY SumEmpty
  <2> QED BY <2>1
<1>5. PICK b \in T : TRUE
  BY <1>4
<1> DEFINE U == T \ {b}
<1>6. U \subseteq T /\ U # T /\ U \in SUBSET S /\ IsFiniteSet(U)
  BY <1>3, <1>5, FS_Subset
<1>7. SumFunctionOnSet(h, U) = SumFunctionOnSet(f, U) + SumFunctionOnSet(g, U)
  BY <1>2, <1>6
<1>8. \A x \in T : f[x] \in Int /\ g[x] \in Int /\ h[x] \in Int /\ h[x] = f[x] + g[x]
  BY <1>3
<1>9. /\ SumFunctionOnSet(f, T) = f[b] + SumFunctionOnSet(f, U)
      /\ SumFunctionOnSet(g, T) = g[b] + SumFunctionOnSet(g, U)
      /\ SumFunctionOnSet(h, T) = h[b] + SumFunctionOnSet(h, U)
  BY <1>3, <1>5, <1>8, SumRemove
<1>10. SumFunctionOnSet(f, U) \in Int /\ SumFunctionOnSet(g, U) \in Int
  BY <1>6, <1>8, SumType
<1>11. SumFunctionOnSet(h, T) = SumFunctionOnSet(f, T) + SumFunctionOnSet(g, T)
  <2> HIDE DEF U
  <2> QED BY <1>5, <1>7, <1>8, <1>9, <1>10
<1> QED BY <1>11

\* A sum of naturals over some of the terms is at most the sum over all of them.
THEOREM SumSubset ==
  ASSUME NEW f, NEW S, IsFiniteSet(S), NEW R \in SUBSET S, \A x \in S : f[x] \in Nat
  PROVE  SumFunctionOnSet(f, R) <= SumFunctionOnSet(f, S)
<1> DEFINE Bad == {T \in SUBSET S : ~(SumFunctionOnSet(f, T \intersect R) <= SumFunctionOnSet(f, T))}
<1>1. Bad \in SUBSET (SUBSET S)
  OBVIOUS
<1>2. R = S \intersect R
  OBVIOUS
<1> SUFFICES ASSUME Bad # {} PROVE FALSE
  BY <1>2
<1>3. PICK T \in Bad : \A U \in Bad : U \subseteq T => U = T
  <2> HIDE DEF Bad
  <2> QED BY <1>1, MinimalSubset
<1>4. IsFiniteSet(T) /\ T \in SUBSET S
  BY FS_Subset
<1>5. T # {}
  <2>1. {} \intersect R = {} /\ SumFunctionOnSet(f, {}) = 0
    BY SumEmpty
  <2> QED BY <2>1
<1>6. PICK b \in T : TRUE
  BY <1>5
<1> DEFINE U == T \ {b}
<1>7. U \subseteq T /\ U # T /\ U \in SUBSET S /\ IsFiniteSet(U)
  BY <1>4, <1>6, FS_Subset
<1>8. SumFunctionOnSet(f, U \intersect R) <= SumFunctionOnSet(f, U)
  BY <1>3, <1>7
<1>9. SumFunctionOnSet(f, T) = f[b] + SumFunctionOnSet(f, U)
  BY <1>4, <1>6, SumRemove
<1>10. /\ IsFiniteSet(T \intersect R) /\ IsFiniteSet(U \intersect R)
       /\ T \intersect R \subseteq S /\ U \intersect R \subseteq S
  BY <1>4, <1>7, FS_Subset
<1>11. /\ SumFunctionOnSet(f, U \intersect R) \in Nat /\ SumFunctionOnSet(f, U) \in Nat
       /\ f[b] \in Nat
  <2>1. \A x \in U \intersect R : f[x] \in Nat
    BY <1>10
  <2>2. \A x \in U : f[x] \in Nat
    BY <1>7
  <2> HIDE DEF U
  <2> QED BY <1>4, <1>6, <1>7, <1>10, <2>1, <2>2, SumType
<1>12. SumFunctionOnSet(f, T \intersect R) <= f[b] + SumFunctionOnSet(f, U \intersect R)
  <2>1. CASE b \in R
    <3>1. (T \intersect R) \ {b} = U \intersect R /\ b \in T \intersect R
      BY <1>6, <2>1
    <3>2. \A x \in T \intersect R : f[x] \in Int
      BY <1>10
    <3> HIDE DEF U
    <3>3. SumFunctionOnSet(f, T \intersect R) = f[b] + SumFunctionOnSet(f, U \intersect R)
      BY <1>10, <3>1, <3>2, SumRemove
    <3> QED BY <1>11, <3>3
  <2>2. CASE b \notin R
    <3>1. T \intersect R = U \intersect R
      BY <2>2
    <3> QED BY <1>11, <3>1
  <2> QED BY <2>1, <2>2
<1>13. SumFunctionOnSet(f, T \intersect R) \in Nat
  <2>1. \A x \in T \intersect R : f[x] \in Nat
    BY <1>10
  <2> QED BY <1>10, <2>1, SumType
<1>14. SumFunctionOnSet(f, T \intersect R) <= SumFunctionOnSet(f, T)
  <2> HIDE DEF U
  <2> QED BY <1>8, <1>9, <1>11, <1>12, <1>13
<1> QED BY <1>14

\* Terms that are zero may be left out of a sum.
THEOREM SumWithin ==
  ASSUME NEW f, NEW g, NEW S, IsFiniteSet(S), NEW R \in SUBSET S,
         \A x \in R : g[x] \in Int /\ f[x] = g[x], \A x \in S \ R : f[x] = 0
  PROVE  SumFunctionOnSet(f, S) = SumFunctionOnSet(g, R)
<1> DEFINE Bad == {T \in SUBSET S : SumFunctionOnSet(f, T) # SumFunctionOnSet(g, T \intersect R)}
<1>1. Bad \in SUBSET (SUBSET S)
  OBVIOUS
<1>2. R = S \intersect R
  OBVIOUS
<1> SUFFICES ASSUME Bad # {} PROVE FALSE
  BY <1>2
<1>3. PICK T \in Bad : \A U \in Bad : U \subseteq T => U = T
  <2> HIDE DEF Bad
  <2> QED BY <1>1, MinimalSubset
<1>4. IsFiniteSet(T) /\ T \in SUBSET S
  BY FS_Subset
<1>5. T # {}
  <2>1. {} \intersect R = {} /\ SumFunctionOnSet(f, {}) = 0 /\ SumFunctionOnSet(g, {}) = 0
    BY SumEmpty
  <2> QED BY <2>1
<1>6. PICK b \in T : TRUE
  BY <1>5
<1> DEFINE U == T \ {b}
<1>7. U \subseteq T /\ U # T /\ U \in SUBSET S /\ IsFiniteSet(U)
  BY <1>4, <1>6, FS_Subset
<1>8. SumFunctionOnSet(f, U) = SumFunctionOnSet(g, U \intersect R)
  BY <1>3, <1>7
<1>9. \A x \in S : f[x] \in Int
  <2>1. \A x \in S : x \in R \/ x \in S \ R
    OBVIOUS
  <2> QED BY <2>1
<1>10. SumFunctionOnSet(f, T) = f[b] + SumFunctionOnSet(f, U) /\ SumFunctionOnSet(f, U) \in Int
  <2>1. (\A x \in T : f[x] \in Int) /\ (\A x \in U : f[x] \in Int)
    BY <1>4, <1>7, <1>9
  <2> QED BY <1>4, <1>6, <1>7, <2>1, SumRemove, SumType
<1>11. CASE b \in R
  <2>1. (T \intersect R) \ {b} = U \intersect R /\ b \in T \intersect R
    BY <1>6, <1>11
  <2>2. IsFiniteSet(T \intersect R) /\ \A x \in T \intersect R : g[x] \in Int
    BY <1>4, FS_Subset
  <2> HIDE DEF U
  <2>3. SumFunctionOnSet(g, T \intersect R) = g[b] + SumFunctionOnSet(g, U \intersect R)
    BY <2>1, <2>2, SumRemove
  <2>4. f[b] = g[b]
    BY <1>11
  <2> QED BY <1>8, <1>10, <2>3, <2>4
<1>12. CASE b \notin R
  <2>1. T \intersect R = U \intersect R
    BY <1>12
  <2>2. f[b] = 0
    BY <1>4, <1>6, <1>12
  <2>3. SumFunctionOnSet(f, T) = SumFunctionOnSet(f, U)
    <3> HIDE DEF U
    <3> QED BY <1>10, <2>2
  <2>4. SumFunctionOnSet(f, T) = SumFunctionOnSet(g, T \intersect R)
    <3> HIDE DEF U
    <3> QED BY <1>8, <2>1, <2>3, Zenon
  <2> QED BY <2>4
<1> QED BY <1>11, <1>12

\* A sum that counts one part of a set and takes off another.
THEOREM SumApart ==
  ASSUME NEW f, NEW g, NEW h, NEW S, IsFiniteSet(S), NEW B \in SUBSET S, NEW C \in SUBSET S,
         \A x \in S : f[x] \in Int, \A x \in B : g[x] \in Int, \A x \in C : h[x] \in Int,
         \A x \in S : f[x] = (IF x \in B THEN g[x] ELSE 0) - (IF x \in C THEN h[x] ELSE 0)
  PROVE  SumFunctionOnSet(f, S) = SumFunctionOnSet(g, B) - SumFunctionOnSet(h, C)
<1> DEFINE gg == [x \in S |-> IF x \in B THEN g[x] ELSE 0]
           hh == [x \in S |-> IF x \in C THEN h[x] ELSE 0]
<1>1. /\ \A x \in B : gg[x] = g[x]
      /\ \A x \in S \ B : gg[x] = 0
      /\ \A x \in C : hh[x] = h[x]
      /\ \A x \in S \ C : hh[x] = 0
      /\ \A x \in S : f[x] = gg[x] - hh[x]
  OBVIOUS
<1> HIDE DEF gg, hh
<1>2. \A x \in S : gg[x] \in Int /\ hh[x] \in Int
  <2>1. \A x \in S : x \in B \/ x \in S \ B
    OBVIOUS
  <2>2. \A x \in S : x \in C \/ x \in S \ C
    OBVIOUS
  <2>3. \A x \in S : gg[x] \in Int
    BY <1>1, <2>1
  <2>4. \A x \in S : hh[x] \in Int
    BY <1>1, <2>2
  <2> QED BY <2>3, <2>4
<1>3. \A x \in S : f[x] \in Int /\ hh[x] \in Int /\ gg[x] = f[x] + hh[x]
  BY <1>1, <1>2
<1>4. SumFunctionOnSet(gg, S) = SumFunctionOnSet(f, S) + SumFunctionOnSet(hh, S)
  BY <1>3, SumPlus
<1>5. SumFunctionOnSet(gg, S) = SumFunctionOnSet(g, B)
  <2>1. \A x \in B : g[x] \in Int /\ gg[x] = g[x]
    BY <1>1
  <2>2. \A x \in S \ B : gg[x] = 0
    BY <1>1
  <2> QED BY <2>1, <2>2, SumWithin
<1>6. SumFunctionOnSet(hh, S) = SumFunctionOnSet(h, C)
  <2>1. \A x \in C : h[x] \in Int /\ hh[x] = h[x]
    BY <1>1
  <2>2. \A x \in S \ C : hh[x] = 0
    BY <1>1
  <2> QED BY <2>1, <2>2, SumWithin
<1>7. SumFunctionOnSet(f, S) \in Int /\ SumFunctionOnSet(hh, S) \in Int
  BY <1>2, SumType
<1> QED BY <1>4, <1>5, <1>6, <1>7

\* A common factor may be taken out of a sum.
THEOREM SumTimes ==
  ASSUME NEW f, NEW g, NEW k \in Int, NEW S, IsFiniteSet(S),
         \A x \in S : f[x] \in Int /\ g[x] = k * f[x]
  PROVE  SumFunctionOnSet(g, S) = k * SumFunctionOnSet(f, S)
<1> DEFINE Bad == {T \in SUBSET S : SumFunctionOnSet(g, T) # k * SumFunctionOnSet(f, T)}
<1>1. Bad \in SUBSET (SUBSET S)
  OBVIOUS
<1> SUFFICES ASSUME Bad # {} PROVE FALSE
  OBVIOUS
<1>2. PICK T \in Bad : \A U \in Bad : U \subseteq T => U = T
  <2> HIDE DEF Bad
  <2> QED BY <1>1, MinimalSubset
<1>3. IsFiniteSet(T) /\ T \in SUBSET S
  BY FS_Subset
<1>4. T # {}
  <2>1. k * 0 = 0 /\ SumFunctionOnSet(g, {}) = 0 /\ SumFunctionOnSet(f, {}) = 0
    BY SumEmpty
  <2> QED BY <2>1
<1>5. PICK b \in T : TRUE
  BY <1>4
<1> DEFINE U == T \ {b}
<1>6. U \subseteq T /\ U # T /\ U \in SUBSET S /\ IsFiniteSet(U)
  BY <1>3, <1>5, FS_Subset
<1>7. SumFunctionOnSet(g, U) = k * SumFunctionOnSet(f, U)
  BY <1>2, <1>6
<1>8. \A x \in T : f[x] \in Int /\ g[x] \in Int /\ g[x] = k * f[x]
  BY <1>3
<1>9. /\ SumFunctionOnSet(f, T) = f[b] + SumFunctionOnSet(f, U)
      /\ SumFunctionOnSet(g, T) = g[b] + SumFunctionOnSet(g, U)
  BY <1>3, <1>5, <1>8, SumRemove
<1>10. SumFunctionOnSet(f, U) \in Int /\ f[b] \in Int
  BY <1>5, <1>6, <1>8, SumType
<1>11. \A m, n \in Int : k * (m + n) = k * m + k * n
  OBVIOUS
<1>12. SumFunctionOnSet(g, T) = k * SumFunctionOnSet(f, T)
  <2> HIDE DEF U
  <2> QED BY <1>5, <1>7, <1>8, <1>9, <1>10, <1>11
<1> QED BY <1>12

\* Summing over the classes of a partition, and then their sums, sums everything:
\* r[i] is the class of i.
THEOREM SumByClasses ==
  ASSUME NEW f, NEW r, NEW S, IsFiniteSet(S), NEW A, IsFiniteSet(A),
         \A i \in S : f[i] \in Int /\ r[i] \in A
  PROVE  SumFunctionOnSet([a \in A |-> SumFunctionOnSet(f, {i \in S : r[i] = a})], A)
           = SumFunctionOnSet(f, S)
<1> DEFINE Part(T, a) == {i \in T : r[i] = a}
           Parts(T) == [a \in A |-> SumFunctionOnSet(f, Part(T, a))]
           Bad == {T \in SUBSET S : SumFunctionOnSet(Parts(T), A) # SumFunctionOnSet(f, T)}
<1>1. Bad \in SUBSET (SUBSET S)
  OBVIOUS
<1>2. Bad = {}
  <2> SUFFICES ASSUME Bad # {} PROVE FALSE
    OBVIOUS
  <2>2. PICK T \in Bad : \A U \in Bad : U \subseteq T => U = T
    <3> HIDE DEF Bad
    <3> QED BY <1>1, MinimalSubset
  <2>3. IsFiniteSet(T) /\ T \in SUBSET S
    BY FS_Subset
  <2>4. \A V \in SUBSET S, a \in A : SumFunctionOnSet(f, Part(V, a)) \in Int
    <3> SUFFICES ASSUME NEW V \in SUBSET S, NEW a \in A
                 PROVE SumFunctionOnSet(f, Part(V, a)) \in Int
      OBVIOUS
    <3>1. IsFiniteSet(Part(V, a)) /\ \A i \in Part(V, a) : f[i] \in Int
      BY FS_Subset
    <3> HIDE DEF Part
    <3> QED BY <3>1, SumType
  <2>5. T # {}
    <3> SUFFICES ASSUME T = {} PROVE FALSE
      OBVIOUS
    <3>1. \A a \in A : Parts(T)[a] = 0
      <4>1. \A a \in A : Part(T, a) = {}
        OBVIOUS
      <4> HIDE DEF Part
      <4> QED BY <4>1, SumEmpty
    <3>2. SumFunctionOnSet(Parts(T), A) = 0
      <4> HIDE DEF Parts
      <4> QED BY <3>1, SumZero
    <3> HIDE DEF Parts
    <3> QED BY <3>2, SumEmpty
  <2>6. PICK b \in T : TRUE
    BY <2>5
  <2> DEFINE U == T \ {b}
             c == r[b]
  <2>7. U \subseteq T /\ U # T /\ U \in SUBSET S /\ IsFiniteSet(U) /\ c \in A /\ b \in S
    BY <2>3, <2>6, FS_Subset
  <2>8. SumFunctionOnSet(Parts(U), A) = SumFunctionOnSet(f, U)
    BY <2>2, <2>7
  <2>9. SumFunctionOnSet(f, T) = f[b] + SumFunctionOnSet(f, U)
    BY <2>3, <2>6, SumRemove
  <2>10. \A a \in A \ {c} : Part(T, a) = Part(U, a)
    OBVIOUS
  <2>11. SumFunctionOnSet(f, Part(T, c)) = f[b] + SumFunctionOnSet(f, Part(U, c))
    <3>1. b \in Part(T, c) /\ Part(T, c) \ {b} = Part(U, c) /\ IsFiniteSet(Part(T, c))
            /\ \A i \in Part(T, c) : f[i] \in Int
      BY <2>3, <2>6, FS_Subset
    <3> HIDE DEF Part, U, c
    <3> QED BY <3>1, SumRemove
  <2>12. \A a \in A : Parts(T)[a] \in Int /\ Parts(U)[a] \in Int
    BY <2>3, <2>4, <2>7
  <2>13. \A a \in A \ {c} : Parts(T)[a] = Parts(U)[a]
    <3> HIDE DEF Part
    <3> QED BY <2>10
  <2>14. Parts(T)[c] = f[b] + Parts(U)[c]
    <3> HIDE DEF Part, c, U
    <3> QED BY <2>7, <2>11
  <2>15. SumFunctionOnSet(Parts(T), A) = SumFunctionOnSet(Parts(U), A) - Parts(U)[c] + Parts(T)[c]
    <3> HIDE DEF Parts, c, U
    <3> QED BY <2>7, <2>12, <2>13, SumUpdate
  <2>16. f[b] \in Int /\ SumFunctionOnSet(f, U) \in Int /\ Parts(U)[c] \in Int
    BY <2>7, <2>12, SumType
  <2>17. SumFunctionOnSet(Parts(T), A) = SumFunctionOnSet(f, T)
    <3> HIDE DEF Parts, c, U
    <3> QED BY <2>8, <2>9, <2>14, <2>15, <2>16
  <2> QED BY <2>17
<1>3. SumFunctionOnSet(Parts(S), A) = SumFunctionOnSet(f, S)
  <2> HIDE DEF Parts
  <2> QED BY <1>2
<1> QED BY <1>3

-----------------------------------------------------------------------------
(* Folds from left to right.                                               *)

\* A sequence is folded along finitely many indices.
Indices(S) == IsFiniteSet(S) /\ S \subseteq Int

\* The numbers up to n can be folded over.
LEMMA IntervalIndices == \A n \in Nat : Indices(1..n)
BY FS_Interval DEF Indices

\* h gives the fold of step from base over every set of indices in S.
IsFold(base, step, S, h) ==
  h = [T \in SUBSET S |-> IF T = {} THEN base ELSE step[<<h[T \ {Max(T)}], Max(T)>>]]

\* A finite set of integers that is not empty has a greatest element.
LEMMA MaxIn ==
  ASSUME NEW T, Indices(T), T # {}
  PROVE  Max(T) \in T /\ \A y \in T : Max(T) >= y
<1> DEFINE Family == {U \in SUBSET T : \A y \in T : \E x \in U : x >= y}
<1>1. Family \in SUBSET (SUBSET T) /\ T \in Family /\ Family # {} /\ IsFiniteSet(T)
  BY DEF Indices
<1>2. PICK U \in Family : \A V \in Family : V \subseteq U => V = U
  <2> HIDE DEF Family
  <2> QED BY <1>1, MinimalSubset
<1>3. PICK x \in U : TRUE
  OBVIOUS
<1>4. ASSUME NEW y \in U, y # x
      PROVE  FALSE
  <2>1. ASSUME NEW a \in U, NEW c \in U, a # c, a >= c
        PROVE  FALSE
    <3>1. U \ {c} \in Family
      <4>1. SUFFICES ASSUME NEW z \in T
                     PROVE  \E w \in U \ {c} : w >= z
        OBVIOUS
      <4>2. PICK w \in U : w >= z
        OBVIOUS
      <4>3. a >= z \/ w # c
        BY <4>2, <2>1 DEF Indices
      <4> QED BY <4>2, <4>3, <2>1
    <3> QED BY <3>1, <1>2
  <2>2. x >= y \/ y >= x
    BY DEF Indices
  <2> QED BY <2>1, <2>2, <1>4 DEF Indices
<1>5. x \in T /\ \A y \in T : x >= y
  BY <1>3, <1>4
<1> QED BY <1>5 DEF Max

\* Folds over subsets, as SumRestrict.
LEMMA FoldRestrict ==
  ASSUME NEW base, NEW step, NEW S, NEW h, IsFold(base, step, S, h), NEW T \in SUBSET S
  PROVE  IsFold(base, step, T, [U \in SUBSET T |-> h[U]])
<1> DEFINE g == [U \in SUBSET T |-> h[U]]
<1>1. ASSUME NEW U \in SUBSET T
      PROVE  g[U] = IF U = {} THEN base ELSE step[<<g[U \ {Max(U)}], Max(U)>>]
  <2>1. U \in SUBSET S /\ U \ {Max(U)} \in SUBSET T
    OBVIOUS
  <2>2. h[U] = IF U = {} THEN base ELSE step[<<h[U \ {Max(U)}], Max(U)>>]
    BY <2>1 DEF IsFold
  <2> QED BY <2>1, <2>2
<1>2. g = [U \in SUBSET T |-> IF U = {} THEN base ELSE step[<<g[U \ {Max(U)}], Max(U)>>]]
  BY <1>1
<1> QED BY <1>2 DEF IsFold

\* At most one function gives the folds over all subsets.
LEMMA FoldUnique ==
  ASSUME NEW base, NEW step, NEW S, Indices(S), NEW g, NEW h,
         IsFold(base, step, S, g), IsFold(base, step, S, h)
  PROVE  g = h
<1> DEFINE Bad == {T \in SUBSET S : g[T] # h[T]}
<1>1. Bad = {}
  <2> SUFFICES ASSUME Bad # {} PROVE FALSE
    OBVIOUS
  <2>0. Bad \in SUBSET (SUBSET S) /\ IsFiniteSet(S)
    BY DEF Indices
  <2>1. PICK T \in Bad : \A U \in Bad : U \subseteq T => U = T
    <3> HIDE DEF Bad
    <3> QED BY <2>0, MinimalSubset
  <2>2. /\ g[T] = IF T = {} THEN base ELSE step[<<g[T \ {Max(T)}], Max(T)>>]
        /\ h[T] = IF T = {} THEN base ELSE step[<<h[T \ {Max(T)}], Max(T)>>]
    BY DEF IsFold
  <2>3. T # {}
    BY <2>2
  <2>4. Max(T) \in T
    BY <2>3, MaxIn, FS_Subset DEF Indices
  <2>5. T \ {Max(T)} \notin Bad
    BY <2>1, <2>4
  <2>6. g[T \ {Max(T)}] = h[T \ {Max(T)}]
    BY <2>5
  <2> QED BY <2>2, <2>3, <2>6
<1>2. g = [T \in SUBSET S |-> g[T]] /\ h = [T \in SUBSET S |-> h[T]]
  BY DEF IsFold
<1>3. \A T \in SUBSET S : g[T] = h[T]
  BY <1>1
<1> QED BY <1>2, <1>3

\* Some function gives the folds over all subsets.
LEMMA FoldExists ==
  ASSUME NEW base, NEW step, NEW S, Indices(S)
  PROVE  \E h : IsFold(base, step, S, h)
<1> DEFINE Bad == {T \in SUBSET S : ~ \E h : IsFold(base, step, T, h)}
           H(T) == CHOOSE h : IsFold(base, step, T, h)
<1> SUFFICES ASSUME Bad # {} PROVE FALSE
  OBVIOUS
<1>0. Bad \in SUBSET (SUBSET S) /\ IsFiniteSet(S)
  BY DEF Indices
<1>1. PICK B \in Bad : \A U \in Bad : U \subseteq B => U = B
  <2> HIDE DEF Bad
  <2> QED BY <1>0, MinimalSubset
<1>2. \A T \in SUBSET B : T # B => IsFold(base, step, T, H(T))
  BY <1>1
<1> DEFINE h == [T \in SUBSET B |-> IF T = {} THEN base
                                   ELSE step[<<H(T \ {Max(T)})[T \ {Max(T)}], Max(T)>>]]
<1>3. ASSUME NEW T \in SUBSET B, T # B
      PROVE  h[T] = H(T)[T]
  <2>1. IsFold(base, step, T, H(T))
    BY <1>2, <1>3
  <2>2. H(T)[T] = IF T = {} THEN base ELSE step[<<H(T)[T \ {Max(T)}], Max(T)>>]
    BY <2>1 DEF IsFold
  <2>3. CASE T = {}
    BY <2>2, <2>3
  <2>4. CASE T # {}
    <3> DEFINE U == T \ {Max(T)}
    <3>1. Max(T) \in T
      BY <2>4, MaxIn, FS_Subset DEF Indices
    <3>2. U \in SUBSET T /\ U \in SUBSET B /\ U # B
      BY <3>1, <1>3
    <3>3. IsFold(base, step, U, [V \in SUBSET U |-> H(T)[V]])
      BY <2>1, <3>2, FoldRestrict
    <3>4. IsFold(base, step, U, H(U))
      BY <1>2, <3>2
    <3>5. H(U) = [V \in SUBSET U |-> H(T)[V]]
      <4>1. Indices(U)
        BY <3>2, FS_Subset DEF Indices
      <4> HIDE DEF H, U
      <4> QED BY <3>3, <3>4, <4>1, FoldUnique
    <3>6. H(U)[U] = H(T)[U]
      BY <3>5
    <3> QED BY <3>6, <2>2, <2>4
  <2> QED BY <2>3, <2>4
<1>4. ASSUME NEW T \in SUBSET B
      PROVE  h[T] = IF T = {} THEN base ELSE step[<<h[T \ {Max(T)}], Max(T)>>]
  <2>1. CASE T = {}
    BY <2>1
  <2>2. CASE T # {}
    <3>1. Max(T) \in T
      BY <2>2, MaxIn, FS_Subset DEF Indices
    <3>2. T \ {Max(T)} \in SUBSET B /\ T \ {Max(T)} # B
      BY <3>1
    <3>3. h[T \ {Max(T)}] = H(T \ {Max(T)})[T \ {Max(T)}]
      BY <3>2, <1>3
    <3>4. h[T] = step[<<H(T \ {Max(T)})[T \ {Max(T)}], Max(T)>>]
      BY <2>2
    <3> HIDE DEF h, H
    <3> QED BY <3>3, <3>4, <2>2
  <2> QED BY <2>1, <2>2
<1>5. h = [T \in SUBSET B |-> IF T = {} THEN base ELSE step[<<h[T \ {Max(T)}], Max(T)>>]]
  <2> HIDE DEF H
  <2> QED BY <1>4
<1> QED BY <1>5, <1>1 DEF IsFold

\* What the first value of a fold is in, and every step keeps, is the last one in.
LEMMA FoldStays ==
  ASSUME NEW S, Indices(S), NEW W, NEW h, h[{}] \in W,
         \A T \in SUBSET S : T # {} /\ h[T \ {Max(T)}] \in W => h[T] \in W
  PROVE  \A T \in SUBSET S : h[T] \in W
<1> DEFINE Bad == {T \in SUBSET S : h[T] \notin W}
<1> SUFFICES ASSUME Bad # {} PROVE FALSE
  OBVIOUS
<1>0. Bad \in SUBSET (SUBSET S) /\ IsFiniteSet(S)
  BY DEF Indices
<1>1. PICK T \in Bad : \A U \in Bad : U \subseteq T => U = T
  <2> HIDE DEF Bad
  <2> QED BY <1>0, MinimalSubset
<1>2. Max(T) \in T
  <2>1. T # {} /\ Indices(T)
    BY FS_Subset DEF Indices
  <2> QED BY <2>1, MaxIn
<1>3. T \ {Max(T)} \notin Bad
  BY <1>1, <1>2
<1> QED BY <1>3

\* The fold of step from base over S is one of values in W.
FoldsWithin(base, step, S, W) ==
  \E h \in [SUBSET S -> W] :
     \A T \in SUBSET S : h[T] = IF T = {} THEN base ELSE step[<<h[T \ {Max(T)}], Max(T)>>]

\* A fold whose steps stay within a set of values, by the steps it takes.
THEOREM FoldWithin ==
  ASSUME NEW S, Indices(S),
         NEW W, NEW base, base \in W, NEW step, step \in [W \X S -> W]
  PROVE  FoldsWithin(base, step, S, W)
<1>1. PICK h : IsFold(base, step, S, h)
  BY FoldExists
<1>2. h = [T \in SUBSET S |-> h[T]]
  BY <1>1 DEF IsFold
<1>3. \A T \in SUBSET S :
         h[T] = IF T = {} THEN base ELSE step[<<h[T \ {Max(T)}], Max(T)>>]
  BY <1>1 DEF IsFold
<1>4. \A T \in SUBSET S : T # {} => Max(T) \in S
  BY MaxIn, FS_Subset DEF Indices
<1>5. h[{}] \in W
  BY <1>3
<1>6. \A T \in SUBSET S : T # {} /\ h[T \ {Max(T)}] \in W => h[T] \in W
  BY <1>3, <1>4
<1>7. \A T \in SUBSET S : h[T] \in W
  BY <1>5, <1>6, FoldStays
<1> QED BY <1>2, <1>3, <1>7 DEF FoldsWithin

\* The first indices of a sequence, and the last of them.
LEMMA FirstIndices ==
  ASSUME NEW n \in Nat
  PROVE  /\ Indices(1..n) /\ 1..0 = {}
         /\ \A i \in 1..n : /\ 1..i \in SUBSET (1..n) /\ 1..i # {}
                            /\ Max(1..i) = i /\ (1..i) \ {i} = 1..(i - 1)
         /\ \A T \in SUBSET (1..n) : T # {} => Max(T) \in 1..n
<1>1. Indices(1..n)
  BY IntervalIndices
<1>2. ASSUME NEW i \in 1..n PROVE Max(1..i) = i
  <2> DEFINE T == 1..i
  <2>1. Indices(T) /\ T # {} /\ i \in T /\ \A y \in T : y <= i
    BY IntervalIndices
  <2> HIDE DEF T
  <2>2. Max(T) \in T /\ Max(T) >= i
    BY <2>1, MaxIn
  <2>3. Max(T) \in Int /\ i \in Int
    BY <2>1, <2>2 DEF Indices
  <2>4. Max(T) = i
    BY <2>1, <2>2, <2>3
  <2> QED BY <2>4 DEF T
<1>3. ASSUME NEW T \in SUBSET (1..n), T # {} PROVE Max(T) \in 1..n
  <2> DEFINE S == 1..n
  <2>1. Indices(S) /\ T \in SUBSET S
    BY <1>1
  <2> HIDE DEF S
  <2>2. Max(T) \in S
    BY <1>3, <2>1, MaxIn, FS_Subset DEF Indices
  <2> QED BY <2>2 DEF S
<1> QED BY <1>1, <1>2, <1>3

\* What holds of 0 and, when of a number, of the next, holds of every number up to n.
LEMMA UpTo ==
  ASSUME NEW n \in Nat, NEW G \in SUBSET (0..n), 0 \in G, \A i \in 1..n : i - 1 \in G => i \in G
  PROVE  G = 0..n
<1> DEFINE Bad == (0..n) \ G
<1> SUFFICES ASSUME Bad # {} PROVE FALSE
  OBVIOUS
<1>1. Bad \in SUBSET Nat
  OBVIOUS
<1>2. PICK i \in Bad : \A k \in Bad : i <= k
  <2> HIDE DEF Bad
  <2> QED BY <1>1, LeastNatural
<1>3. i \in 1..n
  BY <1>2
<1>4. i - 1 \in 0..n /\ i - 1 \notin Bad
  BY <1>2, <1>3
<1> QED BY <1>2, <1>3, <1>4

\* The values of a fold over the first n indices, one after the other.
IsTrace(w, base, step, n, W) ==
  /\ w \in [0..n -> W] /\ w[0] = base
  /\ \A j \in 1..n : w[j] = step[<<w[j - 1], j>>]

\* The values of the fold over each set of indices up to n.
IsLoop(h, base, step, n, W) ==
  /\ step \in [W \X (1..n) -> W] /\ h \in [SUBSET (1..n) -> W]
  /\ \A T \in SUBSET (1..n) : h[T] = IF T = {} THEN base ELSE step[<<h[T \ {Max(T)}], Max(T)>>]

\* A fold over the numbers up to n has a trace, which ends with the fold's value.
LEMMA FoldTrace ==
  ASSUME NEW n \in Nat, NEW W, NEW base, NEW step, NEW h, IsLoop(h, base, step, n, W)
  PROVE  \E w : IsTrace(w, base, step, n, W) /\ w[n] = h[1..n]
<1>0. /\ step \in [W \X (1..n) -> W] /\ h \in [SUBSET (1..n) -> W]
      /\ \A T \in SUBSET (1..n) : h[T] = IF T = {} THEN base ELSE step[<<h[T \ {Max(T)}], Max(T)>>]
  BY DEF IsLoop
<1> DEFINE w == [i \in 0..n |-> h[1..i]]
<1>1. \A i \in 0..n : 1..i \in SUBSET (1..n)
  OBVIOUS
<1>2. w \in [0..n -> W] /\ w[n] = h[1..n]
  BY <1>0, <1>1
<1>3. w[0] = base
  <2>1. w[0] = h[1..0] /\ 1..0 = {}
    OBVIOUS
  <2> HIDE DEF w
  <2> QED BY <1>0, <2>1
<1>4. ASSUME NEW j \in 1..n PROVE w[j] = step[<<w[j - 1], j>>]
  <2> DEFINE T == 1..j
  <2>1. w[j] = h[T] /\ w[j - 1] = h[1..(j - 1)]
    OBVIOUS
  <2>2. T \in SUBSET (1..n) /\ T # {} /\ Max(T) = j /\ T \ {j} = 1..(j - 1)
    BY FirstIndices
  <2> HIDE DEF w, T
  <2> QED BY <1>0, <2>1, <2>2
<1> HIDE DEF w
<1> QED BY <1>2, <1>3, <1>4 DEF IsTrace

\* There is such a sequence of values.
LEMMA TraceExists ==
  ASSUME NEW n \in Nat, NEW W, NEW base \in W, NEW step \in [W \X (1..n) -> W]
  PROVE  \E w : IsTrace(w, base, step, n, W)
<1> DEFINE S == 1..n
<1>1. PICK h \in [SUBSET S -> W] :
         \A T \in SUBSET S : h[T] = IF T = {} THEN base ELSE step[<<h[T \ {Max(T)}], Max(T)>>]
  <2>1. Indices(S) /\ step \in [W \X S -> W]
    BY IntervalIndices
  <2> HIDE DEF S
  <2>2. FoldsWithin(base, step, S, W)
    BY <2>1, FoldWithin
  <2> QED BY <2>2 DEF FoldsWithin
<1>2. IsLoop(h, base, step, n, W)
  BY <1>1 DEF IsLoop
<1> QED BY <1>2, FoldTrace
=============================================================================
