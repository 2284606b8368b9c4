-------------------------------- MODULE Sums --------------------------------
(***************************************************************************)
(* Facts about SumFunction, the fold over the values of a function: what   *)
(* the proofs about the budget's tallies need of it.                       *)
(***************************************************************************)
EXTENDS Functions, FiniteSetTheorems, TLAPS

\* A set of natural numbers has a least one.
LEMMA MinimalNat ==
  ASSUME NEW T, T \subseteq Nat, T # {}
  PROVE  \E n \in T : \A m \in T : n <= m
<1> DEFINE R == OpToRel(<, Nat)
<1>1. IsWellFoundedOn(R, Nat)  BY NatLessThanWellFounded, Zenon
<1>2. \A m, n \in Nat : m < n => <<m, n>> \in R  BY DEF OpToRel
<1> HIDE DEF R
<1>3. \E n \in T : \A m \in T : ~(<<m, n>> \in R)  BY <1>1, WFMin, Zenon
<1>4. \E n \in T : \A m \in T : ~(m < n)  BY <1>2, <1>3, Zenon
<1>5. QED  BY <1>4

\* A set of subsets of a finite set has a minimal one.
LEMMA MinimalSubset ==
  ASSUME NEW D, IsFiniteSet(D), NEW T, T \subseteq SUBSET D, T # {}
  PROVE  \E S \in T : \A U \in T : U \subseteq S => U = S
<1>1. T \subseteq FiniteSubsetsOf(D)  BY FS_FiniteSubsetsOfFinite
<1>2. \E S \in T : \A U \in T : ~(<<U, S>> \in StrictSubsetOrdering(D))
  BY <1>1, FS_StrictSubsetOrderingWellFounded, WFMin, Zenon
<1>3. \A U, S \in SUBSET D : U \subseteq S /\ U # S => <<U, S>> \in StrictSubsetOrdering(D)
  BY DEF StrictSubsetOrdering
<1>4. QED  BY <1>2, <1>3

\* Induction over a finite set, element by element.
LEMMA OneByOne ==
  ASSUME NEW D, IsFiniteSet(D), NEW Good, {} \in Good,
         \A S \in SUBSET D, x \in D : x \in S /\ S \ {x} \in Good => S \in Good
  PROVE  D \in Good
<1> DEFINE Bad == (SUBSET D) \ Good
<1>1. Bad \subseteq SUBSET D  OBVIOUS
<1>2. ASSUME Bad # {} PROVE FALSE
  <2>1. \E S \in Bad : \A U \in Bad : U \subseteq S => U = S
    <3> HIDE DEF Bad
    <3>1. QED  BY <1>1, <1>2, MinimalSubset
  <2>2. PICK S \in Bad : \A U \in Bad : U \subseteq S => U = S  BY <2>1
  <2>3. PICK x \in S : TRUE  BY <2>2
  <2>4. S \ {x} \in Good  BY <2>2, <2>3
  <2>5. QED  BY <2>2, <2>3, <2>4
<1>3. QED  BY <1>2

-----------------------------------------------------------------------------
(* The fold obeys the equation it is defined by *)

Pick(s) == CHOOSE x \in s : TRUE

\* g sums f over the members of a family of sets, some element first.
Folds(g, f, family) ==
  /\ g = [s \in family |-> g[s]]
  /\ \A s \in family : g[s] = IF s = {} THEN 0 ELSE f[Pick(s)] + g[s \ {Pick(s)}]

\* The subsets of D with no more than n elements.
UpTo(D, n) == {s \in SUBSET D : Cardinality(s) <= n}

\* The recursion SumFunction is defined by has a solution on a finite set.
LEMMA FoldExists ==
  ASSUME NEW D, IsFiniteSet(D), NEW f
  PROVE  \E g : Folds(g, f, SUBSET D)
<1> DEFINE Bad == {n \in Nat : ~\E g : Folds(g, f, UpTo(D, n))}
<1>1. \A s \in SUBSET D : IsFiniteSet(s) /\ Cardinality(s) \in Nat
                           /\ (Cardinality(s) = 0 <=> s = {}) /\ Cardinality(s) <= Cardinality(D)
  BY FS_Subset, FS_CardinalityType, FS_EmptySet
<1>2. Bad = {}
  <2> SUFFICES ASSUME Bad # {} PROVE FALSE  OBVIOUS
  <2>1. PICK n \in Bad : \A m \in Bad : n <= m  BY MinimalNat
  <2>2. n \in Nat /\ ~\E g : Folds(g, f, UpTo(D, n))  BY <2>1
  <2>3. CASE n = 0
    <3> DEFINE g == [s \in UpTo(D, n) |-> 0]
    <3>1. \A s \in UpTo(D, n) : s = {}  BY <1>1, <2>3 DEF UpTo
    <3>2. Folds(g, f, UpTo(D, n))  BY <3>1 DEF Folds
    <3>3. QED  BY <2>2, <3>2
  <2>4. CASE n # 0
    <3>1. n - 1 \in Nat /\ n - 1 \notin Bad  BY <2>1, <2>2, <2>4
    <3>2. PICK g : Folds(g, f, UpTo(D, n - 1))  BY <3>1
    <3> DEFINE h == [s \in UpTo(D, n) |-> IF s = {} THEN 0 ELSE f[Pick(s)] + g[s \ {Pick(s)}]]
    <3>3. \A s \in UpTo(D, n - 1) : s \in UpTo(D, n)  BY <1>1, <2>2 DEF UpTo
    <3>4. \A s \in UpTo(D, n - 1) : h[s] = g[s]  BY <3>2, <3>3 DEF Folds
    <3>5. \A s \in UpTo(D, n) : s # {} => s \ {Pick(s)} \in UpTo(D, n - 1)
      <4> SUFFICES ASSUME NEW s \in UpTo(D, n), s # {} PROVE s \ {Pick(s)} \in UpTo(D, n - 1)
        OBVIOUS
      <4>1. Pick(s) \in s  BY DEF Pick
      <4>2. Cardinality(s \ {Pick(s)}) = Cardinality(s) - 1  BY <1>1, <4>1, FS_RemoveElement DEF UpTo
      <4>3. QED  BY <1>1, <2>2, <4>2 DEF UpTo
    <3>6. \A s \in UpTo(D, n) : s # {} => h[s \ {Pick(s)}] = g[s \ {Pick(s)}]  BY <3>4, <3>5
    <3>7. Folds(h, f, UpTo(D, n))
      <4>1. h = [s \in UpTo(D, n) |-> h[s]]  OBVIOUS
      <4>2. \A s \in UpTo(D, n) : h[s] = IF s = {} THEN 0 ELSE f[Pick(s)] + g[s \ {Pick(s)}]
        OBVIOUS
      <4> HIDE DEF h
      <4>3. QED  BY <3>6, <4>1, <4>2 DEF Folds
    <3>8. QED  BY <2>2, <3>7
  <2>5. QED  BY <2>3, <2>4
<1>3. UpTo(D, Cardinality(D)) = SUBSET D  BY <1>1 DEF UpTo
<1>4. Cardinality(D) \in Nat  BY FS_CardinalityType
<1>5. \E g : Folds(g, f, UpTo(D, Cardinality(D)))  BY <1>2, <1>4
<1>6. QED  BY <1>3, <1>5

\* SumFunction is the value such a g gives to the whole domain.
LEMMA SumIsFold ==
  ASSUME NEW D, IsFiniteSet(D), NEW f, DOMAIN f = D
  PROVE  \E g : Folds(g, f, SUBSET D) /\ SumFunction(f) = g[D]
<1> DEFINE it == CHOOSE g : g = [s \in SUBSET D |->
                                   IF s = {} THEN 0 ELSE f[Pick(s)] + g[s \ {Pick(s)}]]
<1>1. SumFunction(f) = it[D]
  BY DEF SumFunction, SumFunctionOnSet, FoldFunctionOnSet, MapThenFoldSet, Pick
<1>2. \E g : g = [s \in SUBSET D |-> IF s = {} THEN 0 ELSE f[Pick(s)] + g[s \ {Pick(s)}]]
  <2>1. PICK g : Folds(g, f, SUBSET D)  BY FoldExists
  <2> DEFINE k == [s \in SUBSET D |-> IF s = {} THEN 0 ELSE f[Pick(s)] + g[s \ {Pick(s)}]]
  <2>2. \A s \in SUBSET D : k[s] = g[s]  BY <2>1 DEF Folds
  <2>3. k = [s \in SUBSET D |-> k[s]]  OBVIOUS
  <2>4. g = [s \in SUBSET D |-> g[s]]  BY <2>1 DEF Folds
  <2>5. k = g
    <3> HIDE DEF k
    <3>1. [s \in SUBSET D |-> k[s]] = [s \in SUBSET D |-> g[s]]  BY <2>2
    <3>2. QED  BY <2>3, <2>4, <3>1, Zenon
  <2>6. QED  BY <2>5, Zenon
<1>3. it = [s \in SUBSET D |-> IF s = {} THEN 0 ELSE f[Pick(s)] + it[s \ {Pick(s)}]]
  BY <1>2, Zenon
<1> HIDE DEF it
<1>4. /\ it = [s \in SUBSET D |-> it[s]]
      /\ \A s \in SUBSET D : it[s] = IF s = {} THEN 0 ELSE f[Pick(s)] + it[s \ {Pick(s)}]
  <2> DEFINE k == [s \in SUBSET D |-> IF s = {} THEN 0 ELSE f[Pick(s)] + it[s \ {Pick(s)}]]
  <2>1. k = [s \in SUBSET D |-> k[s]]  OBVIOUS
  <2>2. \A s \in SUBSET D : k[s] = IF s = {} THEN 0 ELSE f[Pick(s)] + it[s \ {Pick(s)}]  OBVIOUS
  <2>3. it = k  BY <1>3, Zenon
  <2> HIDE DEF k
  <2>4. QED  BY <2>1, <2>2, <2>3
<1>5. QED  BY <1>1, <1>4, Zenon DEF Folds

-----------------------------------------------------------------------------
(* Any element may come first *)

\* g gives the sum of f over each subset of D.
Totals(g, f, D) ==
  /\ g[{}] = 0
  /\ \A S \in SUBSET D : g[S] \in Int /\ \A x \in S : g[S] = f[x] + g[S \ {x}]

\* Whatever order the recursion picks the elements in, any element can be taken out.
LEMMA FoldIsTotal ==
  ASSUME NEW D, IsFiniteSet(D), NEW f \in [D -> Int], NEW g, Folds(g, f, SUBSET D)
  PROVE  Totals(g, f, D)
<1> DEFINE Good(S) == g[S] \in Int /\ \A x \in S : g[S] = f[x] + g[S \ {x}]
           Bad == {S \in SUBSET D : ~Good(S)}
<1>1. g[{}] = 0  BY DEF Folds
<1>2. \A S \in SUBSET D : S # {} => Pick(S) \in S /\ g[S] = f[Pick(S)] + g[S \ {Pick(S)}]
  BY DEF Folds, Pick
<1>3. Bad = {}
  <2> SUFFICES ASSUME Bad # {} PROVE FALSE  OBVIOUS
  <2>1. \E S \in Bad : \A U \in Bad : U \subseteq S => U = S
    <3>1. Bad \subseteq SUBSET D  OBVIOUS
    <3> HIDE DEF Bad
    <3>2. QED  BY <3>1, MinimalSubset
  <2>2. PICK S \in Bad : \A U \in Bad : U \subseteq S => U = S  BY <2>1
  <2>3. S \in SUBSET D /\ ~Good(S) /\ S # {}
    <3>1. S \in SUBSET D /\ ~Good(S)  BY <2>2
    <3>2. S = {} => Good(S)  BY <1>1
    <3>3. QED  BY <3>1, <3>2
  <2> DEFINE c == Pick(S)
  <2>4. c \in S /\ g[S] = f[c] + g[S \ {c}]  BY <1>2, <2>3
  <2>5. \A U \in SUBSET D : U \subseteq S /\ U # S => Good(U)  BY <2>2
  <2>6. \A x \in S : Good(S \ {x})  BY <2>3, <2>5
  <2> HIDE DEF c
  <2>7. \A x \in S : g[S \ {x}] \in Int /\ f[x] \in Int  BY <2>3, <2>6
  <2>8. ASSUME NEW x \in S PROVE g[S] = f[x] + g[S \ {x}]
    <3>1. CASE x = c  BY <2>4, <3>1
    <3>2. CASE x # c
      <4> DEFINE both == (S \ {c}) \ {x}
      <4>1. x \in S \ {c} /\ c \in S \ {x} /\ both = (S \ {x}) \ {c}  BY <2>4, <3>2
      <4>2. g[S \ {c}] = f[x] + g[both]  BY <2>4, <2>6, <4>1
      <4>3. g[S \ {x}] = f[c] + g[both]  BY <2>6, <4>1
      <4>4. g[both] \in Int
        <5>1. both \in SUBSET D /\ both # S /\ both \subseteq S  BY <2>3, <2>4
        <5> HIDE DEF both
        <5>2. QED  BY <2>5, <5>1
      <4> HIDE DEF both
      <4>5. QED  BY <2>4, <2>7, <4>2, <4>3, <4>4
    <3>3. QED  BY <3>1, <3>2
  <2>9. g[S] \in Int  BY <2>4, <2>7
  <2>10. QED  BY <2>3, <2>8, <2>9
<1>4. QED  BY <1>1, <1>3 DEF Totals

\* SumFunction is an integer that can be taken apart in any order.
LEMMA SumIsTotal ==
  ASSUME NEW D, IsFiniteSet(D), NEW f \in [D -> Int]
  PROVE  \E g : Totals(g, f, D) /\ SumFunction(f) = g[D]
BY SumIsFold, FoldIsTotal

\* The sum of integers is an integer.
LEMMA SumInteger ==
  ASSUME NEW D, IsFiniteSet(D), NEW f \in [D -> Int]
  PROVE  SumFunction(f) \in Int
<1>1. PICK g : Totals(g, f, D) /\ SumFunction(f) = g[D]  BY SumIsTotal
<1>2. QED  BY <1>1 DEF Totals

\* Nothing sums to 0.
LEMMA SumOfNothing ==
  ASSUME NEW f, f = [x \in {} |-> f[x]]
  PROVE  SumFunction(f) = 0
<1>1. IsFiniteSet({})  BY FS_EmptySet
<1>2. f \in [{} -> Int]  OBVIOUS
<1>3. PICK g : Totals(g, f, {}) /\ SumFunction(f) = g[{}]  BY <1>1, <1>2, SumIsTotal
<1>4. QED  BY <1>3 DEF Totals

-----------------------------------------------------------------------------
(* Sums of functions that are related point by point *)

\* Two functions that agree on D have the same sum over it.
LEMMA TotalsAgree ==
  ASSUME NEW D, IsFiniteSet(D), NEW C, NEW E, D \subseteq C, D \subseteq E,
         NEW f, NEW g, NEW p, NEW q, Totals(p, f, C), Totals(q, g, E),
         \A x \in D : f[x] = g[x]
  PROVE  p[D] = q[D]
<1> DEFINE Good == {S \in SUBSET D : p[S] = q[S]}
<1>1. {} \in Good  BY DEF Totals
<1>2. ASSUME NEW S \in SUBSET D, NEW x \in D, x \in S, S \ {x} \in Good PROVE S \in Good
  <2>1. p[S] = f[x] + p[S \ {x}] /\ q[S] = g[x] + q[S \ {x}]  BY <1>2 DEF Totals
  <2>2. QED  BY <1>2, <2>1
<1> HIDE DEF Good
<1>3. D \in Good  BY <1>1, <1>2, OneByOne
<1>4. QED  BY <1>3 DEF Good

\* The sum of a sum is the sum of the sums.
LEMMA SumAdds ==
  ASSUME NEW D, IsFiniteSet(D), NEW f \in [D -> Int], NEW g \in [D -> Int], NEW h \in [D -> Int],
         \A x \in D : h[x] = f[x] + g[x]
  PROVE  SumFunction(h) = SumFunction(f) + SumFunction(g)
<1>1. PICK p : Totals(p, f, D) /\ SumFunction(f) = p[D]  BY SumIsTotal
<1>2. PICK q : Totals(q, g, D) /\ SumFunction(g) = q[D]  BY SumIsTotal
<1>3. PICK r : Totals(r, h, D) /\ SumFunction(h) = r[D]  BY SumIsTotal
<1> DEFINE Good == {S \in SUBSET D : r[S] = p[S] + q[S]}
<1>4. {} \in Good  BY <1>1, <1>2, <1>3 DEF Totals
<1>5. ASSUME NEW S \in SUBSET D, NEW x \in D, x \in S, S \ {x} \in Good PROVE S \in Good
  <2> DEFINE T == S \ {x}
  <2>1. /\ p[S] = f[x] + p[T] /\ q[S] = g[x] + q[T] /\ r[S] = h[x] + r[T]
        /\ p[T] \in Int /\ q[T] \in Int /\ r[T] \in Int
    BY <1>1, <1>2, <1>3, <1>5 DEF Totals
  <2>2. h[x] = f[x] + g[x] /\ f[x] \in Int /\ g[x] \in Int  OBVIOUS
  <2>3. r[T] = p[T] + q[T]  BY <1>5
  <2> HIDE DEF T
  <2>4. r[S] = p[S] + q[S]  BY <2>1, <2>2, <2>3
  <2>5. QED  BY <2>4
<1> HIDE DEF Good
<1>6. D \in Good  BY <1>4, <1>5, OneByOne
<1>7. QED  BY <1>1, <1>2, <1>3, <1>6 DEF Good

\* What is nowhere negative has no negative sum.
\* The sum of natural numbers is a natural number.
LEMMA SumNatural ==
  ASSUME NEW D, IsFiniteSet(D), NEW f \in [D -> Nat]
  PROVE  SumFunction(f) \in Nat
<1>1. f \in [D -> Int]  OBVIOUS
<1>2. PICK p : Totals(p, f, D) /\ SumFunction(f) = p[D]  BY <1>1, SumIsTotal
<1> DEFINE Good == {S \in SUBSET D : p[S] \in Nat}
<1>3. {} \in Good  BY <1>2 DEF Totals
<1>4. ASSUME NEW S \in SUBSET D, NEW x \in D, x \in S, S \ {x} \in Good PROVE S \in Good
  <2>1. p[S] = f[x] + p[S \ {x}] /\ f[x] \in Nat  BY <1>2, <1>4 DEF Totals
  <2>2. QED  BY <1>4, <2>1
<1> HIDE DEF Good
<1>5. D \in Good  BY <1>3, <1>4, OneByOne
<1>6. QED  BY <1>2, <1>5 DEF Good

\* What is nowhere greater has no greater sum.
LEMMA SumMonotone ==
  ASSUME NEW D, IsFiniteSet(D), NEW f \in [D -> Int], NEW g \in [D -> Int],
         \A x \in D : f[x] <= g[x]
  PROVE  SumFunction(f) <= SumFunction(g)
<1> DEFINE d == [x \in D |-> g[x] - f[x]]
<1>1. d \in [D -> Nat] /\ d \in [D -> Int]  OBVIOUS
<1>2. \A x \in D : g[x] = f[x] + d[x]  OBVIOUS
<1> HIDE DEF d
<1>3. SumFunction(g) = SumFunction(f) + SumFunction(d)  BY <1>1, <1>2, SumAdds
<1>4. SumFunction(d) \in Nat /\ SumFunction(f) \in Int  BY <1>1, SumNatural, SumInteger
<1>5. QED  BY <1>3, <1>4

\* A new element adds its own value.
LEMMA SumExtends ==
  ASSUME NEW D, IsFiniteSet(D), NEW x, x \notin D, NEW f \in [D -> Int],
         NEW g \in [D \cup {x} -> Int], \A y \in D : g[y] = f[y]
  PROVE  SumFunction(g) = SumFunction(f) + g[x]
<1>1. IsFiniteSet(D \cup {x})  BY FS_AddElement
<1>2. PICK p : Totals(p, f, D) /\ SumFunction(f) = p[D]  BY SumIsTotal
<1>3. PICK q : Totals(q, g, D \cup {x}) /\ SumFunction(g) = q[D \cup {x}]  BY <1>1, SumIsTotal
<1>4. q[D] = p[D]  BY <1>2, <1>3, TotalsAgree
<1>5. q[D \cup {x}] = g[x] + q[D]
  <2>1. (D \cup {x}) \ {x} = D /\ x \in D \cup {x}  OBVIOUS
  <2>2. QED  BY <1>3, <2>1 DEF Totals
<1>6. p[D] \in Int /\ g[x] \in Int  BY <1>2 DEF Totals
<1>7. QED  BY <1>2, <1>3, <1>4, <1>5, <1>6

\* An element that counts for nothing leaves the sum alone.
LEMMA SumKeeps ==
  ASSUME NEW D, IsFiniteSet(D), NEW x, x \notin D, NEW f \in [D -> Int],
         NEW g, g = [y \in D \cup {x} |-> g[y]], \A y \in D : g[y] = f[y], g[x] = 0
  PROVE  SumFunction(g) = SumFunction(f)
<1>1. \A y \in D \cup {x} : g[y] \in Int  OBVIOUS
<1>2. g \in [D \cup {x} -> Int]  BY <1>1, Zenon
<1>3. SumFunction(g) = SumFunction(f) + g[x]  BY <1>2, SumExtends
<1>4. QED  BY <1>3, SumInteger

\* Changing one value changes the sum by as much.
LEMMA SumChanges ==
  ASSUME NEW D, IsFiniteSet(D), NEW x \in D, NEW f \in [D -> Int], NEW g \in [D -> Int],
         \A y \in D \ {x} : g[y] = f[y]
  PROVE  SumFunction(g) = SumFunction(f) + g[x] - f[x]
<1>1. PICK p : Totals(p, f, D) /\ SumFunction(f) = p[D]  BY SumIsTotal
<1>2. PICK q : Totals(q, g, D) /\ SumFunction(g) = q[D]  BY SumIsTotal
<1>3. IsFiniteSet(D \ {x})  BY FS_RemoveElement
<1>4. p[D \ {x}] = q[D \ {x}]  BY <1>1, <1>2, <1>3, TotalsAgree
<1>5. /\ p[D] = f[x] + p[D \ {x}] /\ q[D] = g[x] + q[D \ {x}]
      /\ p[D \ {x}] \in Int
  BY <1>1, <1>2 DEF Totals
<1>6. f[x] \in Int /\ g[x] \in Int  OBVIOUS
<1>7. QED  BY <1>1, <1>2, <1>4, <1>5, <1>6

=============================================================================
