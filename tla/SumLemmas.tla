----------------------------- MODULE SumLemmas -----------------------------
(***************************************************************************)
(* Facts about the sum of a function over a finite set, as                 *)
(* SumFunctionOnSet of the community modules defines it, and about least   *)
(* naturals, which take the place of induction.                            *)
(***************************************************************************)
EXTENDS Functions, FiniteSets, FiniteSetTheorems, WellFoundedInduction, TLAPS

\* Every non-empty set of naturals has a least element: the form of induction
\* used here (a claim about all k holds because it has no least exception).
LEMMA LeastNat ==
  ASSUME NEW S \in SUBSET Nat, S # {}
  PROVE  \E m \in S : \A n \in S : m <= n
<1> DEFINE R == OpToRel(<, Nat)
<1>1. IsWellFoundedOn(R, Nat)
  BY NatLessThanWellFounded, Zenon
<1>2. PICK m \in S : \A n \in S : ~ (<<n, m>> \in R)
  BY <1>1, WFMin, Zenon
<1>3. \A n \in S : ~ (n < m)
  BY <1>2 DEF OpToRel
<1> QED
  BY <1>3

\* A non-empty collection of finite sets has a smallest member.
LEMMA SmallestSet ==
  ASSUME NEW C, C # {}, \A S \in C : IsFiniteSet(S)
  PROVE  \E S \in C : \A T \in C : Cardinality(S) <= Cardinality(T)
<1> DEFINE Sizes == {Cardinality(S) : S \in C}
<1>1. Sizes \in SUBSET Nat /\ Sizes # {}
  BY FS_CardinalityType
<1>2. PICK m \in Sizes : \A n \in Sizes : m <= n
  BY <1>1, LeastNat
<1>3. PICK S \in C : m = Cardinality(S)
  BY <1>2
<1> QED
  BY <1>2, <1>3

(***************************************************************************)
(* The recursive function a sum is defined by                              *)
(***************************************************************************)

Pick(s) == CHOOSE x \in s : TRUE

\* g sums the members of each set of D, one picked element after the other.
Unfolds(g, fun, D) ==
  g = [s \in D |-> IF s = {} THEN 0 ELSE fun[Pick(s)] + g[s \ {Pick(s)}]]

SumsOf(g, fun, S) == Unfolds(g, fun, SUBSET S)

LEMMA PickIn ==
  ASSUME NEW S, S # {}
  PROVE  Pick(S) \in S
BY DEF Pick

LEMMA SumIsChosen ==
  ASSUME NEW fun, NEW S
  PROVE  SumFunctionOnSet(fun, S) = (CHOOSE iter : SumsOf(iter, fun, S))[S]
BY Zenon DEF SumFunctionOnSet, FoldFunctionOnSet, MapThenFoldSet, Unfolds, SumsOf, Pick

\* The subsets of S with at most n elements.
UpTo(S, n) == {s \in SUBSET S : Cardinality(s) <= n}

LEMMA SmallerSet ==
  ASSUME NEW s, IsFiniteSet(s), s # {}
  PROVE  /\ IsFiniteSet(s \ {Pick(s)})
         /\ Cardinality(s \ {Pick(s)}) = Cardinality(s) - 1
         /\ Cardinality(s) \in Nat \ {0}
<1>1. Pick(s) \in s
  BY PickIn
<1>2. Cardinality(s) \in Nat /\ Cardinality(s) # 0
  BY FS_CardinalityType, FS_EmptySet
<1> QED
  BY <1>1, <1>2, FS_RemoveElement

\* Such a function exists for sets of every size.
LEMMA SumFunctionUpTo ==
  ASSUME NEW fun, NEW S, IsFiniteSet(S), \A x \in S : fun[x] \in Int
  PROVE  \A n \in Nat : \E g \in [UpTo(S, n) -> Int] : Unfolds(g, fun, UpTo(S, n))
<1> DEFINE Bad == {n \in Nat : ~ \E g \in [UpTo(S, n) -> Int] : Unfolds(g, fun, UpTo(S, n))}
<1> SUFFICES ASSUME Bad # {} PROVE FALSE
  OBVIOUS
<1>1. PICK m \in Bad : \A n \in Bad : m <= n
  BY LeastNat
<1>2. \A s \in SUBSET S : IsFiniteSet(s) /\ Cardinality(s) \in Nat
  BY FS_Subset, FS_CardinalityType
<1>3. m # 0
  <2> SUFFICES ASSUME m = 0 PROVE FALSE
    OBVIOUS
  <2> DEFINE g == [s \in UpTo(S, 0) |-> 0]
  <2>1. \A s \in UpTo(S, 0) : s = {}
    <3> TAKE s \in UpTo(S, 0)
    <3>1. IsFiniteSet(s) /\ Cardinality(s) = 0
      BY <1>2 DEF UpTo
    <3> QED
      BY <3>1, FS_EmptySet
  <2>2. g \in [UpTo(S, 0) -> Int] /\ Unfolds(g, fun, UpTo(S, 0))
    BY <2>1 DEF Unfolds, SumsOf
  <2> QED
    BY <2>2, <1>1
<1>4. (m - 1) \in Nat /\ (m - 1) \notin Bad
  BY <1>1, <1>3
<1>5. PICK g \in [UpTo(S, m - 1) -> Int] : Unfolds(g, fun, UpTo(S, m - 1))
  BY <1>4
<1> DEFINE h == [s \in UpTo(S, m) |-> IF s = {} THEN 0 ELSE fun[Pick(s)] + g[s \ {Pick(s)}]]
<1>6. ASSUME NEW s \in UpTo(S, m), s # {}
      PROVE  /\ s \ {Pick(s)} \in UpTo(S, m - 1)
             /\ fun[Pick(s)] + g[s \ {Pick(s)}] \in Int
  <2>1. Cardinality(s \ {Pick(s)}) = Cardinality(s) - 1 /\ Cardinality(s) \in Nat
    BY <1>2, <1>6, SmallerSet DEF UpTo
  <2>2. Pick(s) \in S
    BY <1>6, PickIn DEF UpTo
  <2>3. s \ {Pick(s)} \in UpTo(S, m - 1)
    BY <1>6, <1>1, <2>1 DEF UpTo
  <2> QED
    BY <2>2, <2>3, <1>5
<1>7. h \in [UpTo(S, m) -> Int]
  BY <1>6
<1>8. \A s \in UpTo(S, m - 1) : s \in UpTo(S, m) /\ g[s] = h[s]
  <2> TAKE s \in UpTo(S, m - 1)
  <2>1. s \in UpTo(S, m)
    BY <1>2, <1>1 DEF UpTo
  <2>2. g[s] = IF s = {} THEN 0 ELSE fun[Pick(s)] + g[s \ {Pick(s)}]
    BY <1>5, Zenon DEF Unfolds, SumsOf
  <2> QED
    BY <2>1, <2>2
<1>9. Unfolds(h, fun, UpTo(S, m))
  <2>1. \A s \in UpTo(S, m) : s # {} => h[s \ {Pick(s)}] = g[s \ {Pick(s)}]
    BY <1>6, <1>8
  <2> QED
    BY <2>1, Zenon DEF Unfolds, SumsOf
<1> QED
  BY <1>1, <1>7, <1>9

\* Two such functions agree where both are defined.
LEMMA UnfoldsUnique ==
  ASSUME NEW fun, NEW S, IsFiniteSet(S), NEW T \in SUBSET S,
         NEW g, SumsOf(g, fun, S), NEW h, SumsOf(h, fun, T)
  PROVE  \A s \in SUBSET T : g[s] = h[s]
<1> DEFINE Bad == {s \in SUBSET T : g[s] # h[s]}
<1> SUFFICES ASSUME Bad # {} PROVE FALSE
  OBVIOUS
<1>1. \A s \in Bad : IsFiniteSet(s)
  BY FS_Subset
<1> HIDE DEF Bad
<1>2. PICK s \in Bad : \A t \in Bad : Cardinality(s) <= Cardinality(t)
  BY <1>1, SmallestSet
<1> USE DEF Bad
<1>3. s \in SUBSET S /\ s \in SUBSET T /\ IsFiniteSet(s)
  BY <1>1, <1>2
<1>4. /\ g[s] = IF s = {} THEN 0 ELSE fun[Pick(s)] + g[s \ {Pick(s)}]
      /\ h[s] = IF s = {} THEN 0 ELSE fun[Pick(s)] + h[s \ {Pick(s)}]
  BY <1>3, Zenon DEF Unfolds, SumsOf
<1>5. s # {}
  BY <1>2, <1>4
<1>6. s \ {Pick(s)} \in SUBSET T /\ s \ {Pick(s)} \notin Bad
  <2>1. /\ Cardinality(s \ {Pick(s)}) = Cardinality(s) - 1
        /\ Cardinality(s) \in Nat \ {0}
    BY <1>3, <1>5, SmallerSet
  <2>2. ~ (Cardinality(s) <= Cardinality(s \ {Pick(s)}))
    BY <2>1
  <2> QED
    BY <2>2, <1>2, <1>3
<1> QED
  BY <1>2, <1>4, <1>5, <1>6

\* One function sums S and every subset of it.
LEMMA SumFunctionExists ==
  ASSUME NEW fun, NEW S, IsFiniteSet(S), \A x \in S : fun[x] \in Int
  PROVE  \E g \in [SUBSET S -> Int] :
           /\ SumsOf(g, fun, S)
           /\ \A T \in SUBSET S : SumFunctionOnSet(fun, T) = g[T]
<1>1. ASSUME NEW T, IsFiniteSet(T), \A x \in T : fun[x] \in Int
      PROVE  \E g \in [SUBSET T -> Int] : SumsOf(g, fun, T)
  <2>1. Cardinality(T) \in Nat
    BY <1>1, FS_CardinalityType
  <2>2. UpTo(T, Cardinality(T)) = SUBSET T
    <3>1. \A s \in SUBSET T : Cardinality(s) <= Cardinality(T)
      BY <1>1, FS_Subset
    <3> QED
      BY <3>1 DEF UpTo
  <2>3. \E g \in [UpTo(T, Cardinality(T)) -> Int] : Unfolds(g, fun, UpTo(T, Cardinality(T)))
    BY <1>1, <2>1, SumFunctionUpTo
  <2> QED
    BY <2>2, <2>3, Zenon DEF SumsOf
<1>2. PICK g \in [SUBSET S -> Int] : SumsOf(g, fun, S)
  BY <1>1
<1>3. ASSUME NEW T \in SUBSET S
      PROVE  SumFunctionOnSet(fun, T) = g[T]
  <2> DEFINE iter == CHOOSE iter : SumsOf(iter, fun, T)
  <2>1. \E h \in [SUBSET T -> Int] : SumsOf(h, fun, T)
    BY <1>1, FS_Subset
  <2>2. SumsOf(iter, fun, T)
    BY <2>1, Zenon
  <2>3. iter[T] = SumFunctionOnSet(fun, T)
    BY SumIsChosen
  <2> HIDE DEF iter
  <2>4. \A s \in SUBSET T : g[s] = iter[s]
    BY <1>2, <2>2, UnfoldsUnique
  <2> QED
    BY <2>3, <2>4
<1> QED
  BY <1>2, <1>3

(***************************************************************************)
(* Sums                                                                    *)
(***************************************************************************)

LEMMA SumEmpty ==
  ASSUME NEW fun
  PROVE  SumFunctionOnSet(fun, {}) = 0
<1>1. PICK g \in [SUBSET {} -> Int] :
        SumsOf(g, fun, {}) /\ \A T \in SUBSET {} : SumFunctionOnSet(fun, T) = g[T]
  BY SumFunctionExists, FS_EmptySet
<1>2. g[{}] = 0
  BY <1>1, Zenon DEF Unfolds, SumsOf
<1> QED
  BY <1>1, <1>2

LEMMA SumType ==
  ASSUME NEW fun, NEW S, IsFiniteSet(S), \A x \in S : fun[x] \in Int
  PROVE  SumFunctionOnSet(fun, S) \in Int
<1>1. PICK g \in [SUBSET S -> Int] :
        SumsOf(g, fun, S) /\ \A T \in SUBSET S : SumFunctionOnSet(fun, T) = g[T]
  BY SumFunctionExists
<1> QED
  BY <1>1

\* The element the definition picks can be taken out of the sum.
LEMMA SumPicked ==
  ASSUME NEW fun, NEW S, IsFiniteSet(S), \A x \in S : fun[x] \in Int, S # {}
  PROVE  SumFunctionOnSet(fun, S) = fun[Pick(S)] + SumFunctionOnSet(fun, S \ {Pick(S)})
<1>1. PICK g \in [SUBSET S -> Int] :
        SumsOf(g, fun, S) /\ \A T \in SUBSET S : SumFunctionOnSet(fun, T) = g[T]
  BY SumFunctionExists
<1>2. g[S] = fun[Pick(S)] + g[S \ {Pick(S)}]
  BY <1>1, Zenon DEF Unfolds, SumsOf
<1>3. S \ {Pick(S)} \in SUBSET S /\ S \in SUBSET S
  OBVIOUS
<1> QED
  BY <1>1, <1>2, <1>3

\* Any element can.
LEMMA SumRemove ==
  ASSUME NEW fun, NEW S, IsFiniteSet(S), \A x \in S : fun[x] \in Int
  PROVE  \A x \in S : SumFunctionOnSet(fun, S) = fun[x] + SumFunctionOnSet(fun, S \ {x})
<1> DEFINE Sum(T) == SumFunctionOnSet(fun, T)
           Bad == {T \in SUBSET S : ~ \A x \in T : Sum(T) = fun[x] + Sum(T \ {x})}
<1> SUFFICES ASSUME Bad # {} PROVE FALSE
  OBVIOUS
<1>1. \A T \in SUBSET S : IsFiniteSet(T) /\ Sum(T) \in Int
  BY FS_Subset, SumType
<1>2. \A T \in SUBSET S : T # {} => Sum(T) = fun[Pick(T)] + Sum(T \ {Pick(T)})
  BY <1>1, SumPicked
<1> HIDE DEF Sum
<1>3. PICK T \in Bad : \A U \in Bad : Cardinality(T) <= Cardinality(U)
  <2> HIDE DEF Bad
  <2>1. \A T \in Bad : IsFiniteSet(T)
    BY <1>1 DEF Bad
  <2> QED
    BY <2>1, SmallestSet
<1>4. PICK x \in T : Sum(T) # fun[x] + Sum(T \ {x})
  BY <1>3
<1> DEFINE p == Pick(T)
<1>5. p \in T /\ Sum(T) = fun[p] + Sum(T \ {p}) /\ p # x
  BY <1>2, <1>3, <1>4, PickIn
<1> HIDE DEF p
<1>6. ASSUME NEW y \in T, NEW z \in T \ {y}
      PROVE  Sum(T \ {y}) = fun[z] + Sum(T \ {y, z})
  <2>1. Cardinality(T \ {y}) = Cardinality(T) - 1 /\ Cardinality(T) \in Nat
    BY <1>1, <1>3, <1>6, FS_RemoveElement, FS_CardinalityType
  <2>2. T \ {y} \notin Bad
    BY <1>3, <2>1
  <2>3. Sum(T \ {y}) = fun[z] + Sum((T \ {y}) \ {z})
    BY <2>2
  <2>4. (T \ {y}) \ {z} = T \ {y, z}
    OBVIOUS
  <2> QED
    BY <2>3, <2>4
<1>7. Sum(T \ {x}) = fun[p] + Sum(T \ {x, p}) /\ Sum(T \ {p}) = fun[x] + Sum(T \ {p, x})
  BY <1>5, <1>6
<1>8. T \ {x, p} = T \ {p, x} /\ T \ {x, p} \in SUBSET S /\ x \in S /\ p \in S
  BY <1>3, <1>4, <1>5
<1>9. fun[x] \in Int /\ fun[p] \in Int /\ Sum(T \ {x, p}) \in Int
  BY <1>1, <1>8
<1>10. Sum(T \ {p}) = fun[x] + Sum(T \ {x, p})
  BY <1>7, <1>8
<1>11. Sum(T) = fun[p] + (fun[x] + Sum(T \ {x, p}))
  BY <1>5, <1>10
<1>12. Sum(T) = fun[x] + Sum(T \ {x})
  BY <1>7, <1>9, <1>11
<1> QED
  BY <1>4, <1>12

\* A new element adds its value.
LEMMA SumAdd ==
  ASSUME NEW fun, NEW S, IsFiniteSet(S), NEW x, x \notin S, \A y \in S \cup {x} : fun[y] \in Int
  PROVE  SumFunctionOnSet(fun, S \cup {x}) = SumFunctionOnSet(fun, S) + fun[x]
<1>1. IsFiniteSet(S \cup {x}) /\ (S \cup {x}) \ {x} = S
  BY FS_AddElement
<1>2. SumFunctionOnSet(fun, S \cup {x}) = fun[x] + SumFunctionOnSet(fun, (S \cup {x}) \ {x})
  BY <1>1, SumRemove
<1>3. SumFunctionOnSet(fun, S \cup {x}) = fun[x] + SumFunctionOnSet(fun, S)
  BY <1>1, <1>2
<1>4. SumFunctionOnSet(fun, S) \in Int /\ fun[x] \in Int
  <2>1. \A y \in S : fun[y] \in Int
    OBVIOUS
  <2> QED
    BY <2>1, SumType
<1> QED
  BY <1>3, <1>4

\* Larger values have a larger sum.
LEMMA SumMonotone ==
  ASSUME NEW f, NEW g, NEW S, IsFiniteSet(S),
         \A x \in S : f[x] \in Int /\ g[x] \in Int /\ f[x] <= g[x]
  PROVE  SumFunctionOnSet(f, S) <= SumFunctionOnSet(g, S)
<1> DEFINE F(T) == SumFunctionOnSet(f, T)
           G(T) == SumFunctionOnSet(g, T)
           Bad == {T \in SUBSET S : ~ (F(T) <= G(T))}
<1> SUFFICES ASSUME Bad # {} PROVE FALSE
  OBVIOUS
<1>1. \A T \in SUBSET S : IsFiniteSet(T) /\ F(T) \in Int /\ G(T) \in Int
  BY FS_Subset, SumType
<1>2. F({}) = 0 /\ G({}) = 0
  BY SumEmpty
<1>3. ASSUME NEW T \in SUBSET S
      PROVE  \A x \in T : F(T) = f[x] + F(T \ {x}) /\ G(T) = g[x] + G(T \ {x})
  <2>1. IsFiniteSet(T) /\ \A x \in T : f[x] \in Int /\ g[x] \in Int
    BY <1>1
  <2>2. \A x \in T : F(T) = f[x] + F(T \ {x})
    BY <2>1, SumRemove
  <2>3. \A x \in T : G(T) = g[x] + G(T \ {x})
    BY <2>1, SumRemove
  <2> QED
    BY <2>2, <2>3
<1> HIDE DEF F, G
<1>4. PICK T \in Bad : \A U \in Bad : Cardinality(T) <= Cardinality(U)
  <2> HIDE DEF Bad
  <2>1. \A T \in Bad : IsFiniteSet(T)
    BY <1>1 DEF Bad
  <2> QED
    BY <2>1, SmallestSet
<1>5. PICK x \in T : TRUE
  BY <1>2, <1>4
<1>6. Cardinality(T \ {x}) = Cardinality(T) - 1 /\ Cardinality(T) \in Nat
  BY <1>1, <1>4, <1>5, FS_RemoveElement, FS_CardinalityType
<1>7. F(T \ {x}) <= G(T \ {x})
  BY <1>4, <1>6
<1> QED
  BY <1>1, <1>3, <1>4, <1>5, <1>7

\* A sum depends on nothing but the values at the elements.
LEMMA SumEqual ==
  ASSUME NEW f, NEW g, NEW S, IsFiniteSet(S), \A x \in S : f[x] \in Int /\ f[x] = g[x]
  PROVE  SumFunctionOnSet(f, S) = SumFunctionOnSet(g, S)
<1>1. SumFunctionOnSet(f, S) <= SumFunctionOnSet(g, S)
  BY SumMonotone
<1>2. SumFunctionOnSet(g, S) <= SumFunctionOnSet(f, S)
  BY SumMonotone
<1>3. SumFunctionOnSet(f, S) \in Int /\ SumFunctionOnSet(g, S) \in Int
  BY SumType
<1> QED
  BY <1>1, <1>2, <1>3

\* Sums over disjoint sets add up.
LEMMA SumDisjoint ==
  ASSUME NEW fun, NEW S, IsFiniteSet(S), NEW T, IsFiniteSet(T), S \cap T = {},
         \A x \in S \cup T : fun[x] \in Int
  PROVE  SumFunctionOnSet(fun, S \cup T) = SumFunctionOnSet(fun, S) + SumFunctionOnSet(fun, T)
<1> DEFINE Sum(U) == SumFunctionOnSet(fun, U)
           Bad == {U \in SUBSET T : Sum(S \cup U) # Sum(S) + Sum(U)}
<1> SUFFICES ASSUME Bad # {} PROVE FALSE
  OBVIOUS
<1>1. \A U \in SUBSET T : IsFiniteSet(U) /\ IsFiniteSet(S \cup U)
  BY FS_Subset, FS_Union
<1>2. \A U \in SUBSET T : Sum(U) \in Int /\ Sum(S \cup U) \in Int
  BY <1>1, SumType
<1>3. Sum({}) = 0 /\ Sum(S) \in Int
  BY SumEmpty, SumType
<1>4. ASSUME NEW U \in SUBSET T
      PROVE  \A x \in U : /\ Sum(U) = fun[x] + Sum(U \ {x})
                          /\ Sum(S \cup U) = fun[x] + Sum((S \cup U) \ {x})
  <2>1. \A x \in U : Sum(U) = fun[x] + Sum(U \ {x})
    BY <1>1, SumRemove
  <2>2. \A x \in S \cup U : Sum(S \cup U) = fun[x] + Sum((S \cup U) \ {x})
    BY <1>1, SumRemove
  <2> QED
    BY <2>1, <2>2
<1> HIDE DEF Sum
<1>5. PICK U \in Bad : \A V \in Bad : Cardinality(U) <= Cardinality(V)
  <2> HIDE DEF Bad
  <2>1. \A V \in Bad : IsFiniteSet(V)
    BY <1>1 DEF Bad
  <2> QED
    BY <2>1, SmallestSet
<1>6. PICK x \in U : TRUE
  <2>1. S \cup {} = S
    OBVIOUS
  <2> QED
    BY <2>1, <1>3, <1>5
<1>7. Cardinality(U \ {x}) = Cardinality(U) - 1 /\ Cardinality(U) \in Nat
  BY <1>1, <1>5, <1>6, FS_RemoveElement, FS_CardinalityType
<1>8. Sum(S \cup (U \ {x})) = Sum(S) + Sum(U \ {x})
  BY <1>5, <1>7
<1>9. (S \cup U) \ {x} = S \cup (U \ {x}) /\ fun[x] \in Int
  <2>1. x \in T /\ x \notin S
    BY <1>5, <1>6
  <2> QED
    BY <2>1
<1>10. U \in SUBSET T /\ U \ {x} \in SUBSET T
  BY <1>5
<1>11. Sum(U \ {x}) \in Int /\ Sum(U) = fun[x] + Sum(U \ {x})
  BY <1>2, <1>4, <1>6, <1>10
<1>12. Sum(S \cup U) = fun[x] + Sum(S \cup (U \ {x}))
  <2>1. Sum(S \cup U) = fun[x] + Sum((S \cup U) \ {x})
    BY <1>4, <1>6, <1>10
  <2> QED
    BY <2>1, <1>9
<1>13. Sum(S \cup U) = Sum(S) + Sum(U)
  BY <1>3, <1>8, <1>9, <1>11, <1>12
<1> QED
  BY <1>5, <1>13

\* No negative values, no negative sum.
LEMMA SumNonNegative ==
  ASSUME NEW fun, NEW S, IsFiniteSet(S), \A x \in S : fun[x] \in Int /\ fun[x] >= 0
  PROVE  SumFunctionOnSet(fun, S) \in Nat
<1> DEFINE Sum(T) == SumFunctionOnSet(fun, T)
           Bad == {T \in SUBSET S : ~ (Sum(T) >= 0)}
<1>1. \A T \in SUBSET S : IsFiniteSet(T) /\ Sum(T) \in Int
  BY FS_Subset, SumType
<1> SUFFICES ASSUME Bad # {} PROVE FALSE
  BY <1>1
<1>2. Sum({}) = 0
  BY SumEmpty
<1>3. \A T \in SUBSET S : \A x \in T : Sum(T) = fun[x] + Sum(T \ {x})
  BY <1>1, SumRemove
<1> HIDE DEF Sum
<1>4. PICK T \in Bad : \A U \in Bad : Cardinality(T) <= Cardinality(U)
  <2> HIDE DEF Bad
  <2>1. \A T \in Bad : IsFiniteSet(T)
    BY <1>1 DEF Bad
  <2> QED
    BY <2>1, SmallestSet
<1>5. PICK x \in T : TRUE
  BY <1>2, <1>4
<1>6. Cardinality(T \ {x}) = Cardinality(T) - 1 /\ Cardinality(T) \in Nat
  BY <1>1, <1>4, <1>5, FS_RemoveElement, FS_CardinalityType
<1>7. Sum(T \ {x}) >= 0 /\ Sum(T \ {x}) \in Int
  BY <1>1, <1>4, <1>6
<1> QED
  BY <1>3, <1>4, <1>5, <1>7

\* A subset sums to no more, if what it leaves out is not negative.
LEMMA SumSubset ==
  ASSUME NEW fun, NEW S, IsFiniteSet(S), NEW T \in SUBSET S,
         \A x \in S : fun[x] \in Int, \A x \in S \ T : fun[x] >= 0
  PROVE  SumFunctionOnSet(fun, T) <= SumFunctionOnSet(fun, S)
<1>1. IsFiniteSet(T) /\ IsFiniteSet(S \ T) /\ T \cap (S \ T) = {} /\ S = T \cup (S \ T)
  BY FS_Subset
<1>2. SumFunctionOnSet(fun, S) = SumFunctionOnSet(fun, T) + SumFunctionOnSet(fun, S \ T)
  <2>1. SumFunctionOnSet(fun, T \cup (S \ T))
          = SumFunctionOnSet(fun, T) + SumFunctionOnSet(fun, S \ T)
    BY <1>1, SumDisjoint
  <2> QED
    BY <1>1, <2>1
<1>3. SumFunctionOnSet(fun, T) \in Int /\ SumFunctionOnSet(fun, S \ T) \in Int
  BY <1>1, SumType
<1>4. SumFunctionOnSet(fun, S \ T) >= 0
  BY <1>1, SumNonNegative
<1> QED
  BY <1>2, <1>3, <1>4

\* The sum over one element.
LEMMA SumSingle ==
  ASSUME NEW fun, NEW x, fun[x] \in Int
  PROVE  SumFunctionOnSet(fun, {x}) = fun[x]
<1>1. IsFiniteSet({}) /\ {} \cup {x} = {x} /\ x \notin {}
  BY FS_EmptySet
<1>2. SumFunctionOnSet(fun, {} \cup {x}) = SumFunctionOnSet(fun, {}) + fun[x]
  BY <1>1, SumAdd
<1> QED
  BY <1>1, <1>2, SumEmpty

\* Values that add up one by one add up in the sum.
LEMMA SumPlus ==
  ASSUME NEW f, NEW g, NEW h, NEW S, IsFiniteSet(S),
         \A x \in S : f[x] \in Int /\ g[x] \in Int /\ h[x] = f[x] + g[x]
  PROVE  SumFunctionOnSet(h, S) = SumFunctionOnSet(f, S) + SumFunctionOnSet(g, S)
<1> DEFINE F(T) == SumFunctionOnSet(f, T)
           G(T) == SumFunctionOnSet(g, T)
           H(T) == SumFunctionOnSet(h, T)
           Bad == {T \in SUBSET S : H(T) # F(T) + G(T)}
<1> SUFFICES ASSUME Bad # {} PROVE FALSE
  OBVIOUS
<1>1. \A T \in SUBSET S : IsFiniteSet(T)
  BY FS_Subset
<1>2. \A T \in SUBSET S : F(T) \in Int /\ G(T) \in Int
  BY <1>1, SumType
<1>3. F({}) = 0 /\ G({}) = 0 /\ H({}) = 0
  BY SumEmpty
<1>4. ASSUME NEW T \in SUBSET S, NEW x \in T
      PROVE  F(T) = f[x] + F(T \ {x}) /\ G(T) = g[x] + G(T \ {x}) /\ H(T) = h[x] + H(T \ {x})
  <2>1. F(T) = f[x] + F(T \ {x})
    BY <1>1, SumRemove
  <2>2. G(T) = g[x] + G(T \ {x})
    BY <1>1, SumRemove
  <2>3. \A y \in T : h[y] \in Int
    OBVIOUS
  <2>4. H(T) = h[x] + H(T \ {x})
    BY <1>1, <2>3, SumRemove
  <2> QED
    BY <2>1, <2>2, <2>4
<1> HIDE DEF F, G, H
<1>5. PICK T \in Bad : \A U \in Bad : Cardinality(T) <= Cardinality(U)
  <2> HIDE DEF Bad
  <2>1. \A T \in Bad : IsFiniteSet(T)
    BY <1>1 DEF Bad
  <2> QED
    BY <2>1, SmallestSet
<1>6. T \in SUBSET S /\ T # {}
  <2>1. {} \notin Bad
    BY <1>3
  <2> QED
    BY <1>5, <2>1
<1>7. PICK x \in T : TRUE
  BY <1>6
<1>8. Cardinality(T \ {x}) = Cardinality(T) - 1 /\ Cardinality(T) \in Nat
  BY <1>1, <1>6, <1>7, FS_RemoveElement, FS_CardinalityType
<1>9. T \ {x} \in SUBSET S /\ H(T \ {x}) = F(T \ {x}) + G(T \ {x})
  BY <1>5, <1>6, <1>8
<1>10. F(T) = f[x] + F(T \ {x}) /\ G(T) = g[x] + G(T \ {x}) /\ H(T) = h[x] + H(T \ {x})
  BY <1>4, <1>6, <1>7
<1>11. F(T \ {x}) \in Int /\ G(T \ {x}) \in Int
  BY <1>2, <1>9
<1>12. f[x] \in Int /\ g[x] \in Int /\ h[x] = f[x] + g[x]
  BY <1>6, <1>7
<1>13. H(T) = F(T) + G(T)
  BY <1>9, <1>10, <1>11, <1>12
<1> QED
  BY <1>5, <1>13

\* Zeros sum to zero.
LEMMA SumZero ==
  ASSUME NEW fun, NEW S, IsFiniteSet(S), \A x \in S : fun[x] = 0
  PROVE  SumFunctionOnSet(fun, S) = 0
<1> DEFINE sum == SumFunctionOnSet(fun, S)
<1>1. \A x \in S : fun[x] \in Int /\ fun[x] \in Int /\ fun[x] = fun[x] + fun[x]
  OBVIOUS
<1>2. sum = sum + sum
  BY <1>1, SumPlus
<1>3. sum \in Int
  BY <1>1, SumType
<1> QED
  BY <1>2, <1>3

\* Values scaled by a factor sum to the scaled sum.
LEMMA SumScaled ==
  ASSUME NEW f, NEW h, NEW S, IsFiniteSet(S), NEW c \in Int,
         \A x \in S : f[x] \in Int /\ h[x] = c * f[x]
  PROVE  SumFunctionOnSet(h, S) = c * SumFunctionOnSet(f, S)
<1> DEFINE F(T) == SumFunctionOnSet(f, T)
           H(T) == SumFunctionOnSet(h, T)
           Bad == {T \in SUBSET S : H(T) # c * F(T)}
<1> SUFFICES ASSUME Bad # {} PROVE FALSE
  OBVIOUS
<1>1. \A T \in SUBSET S : IsFiniteSet(T)
  BY FS_Subset
<1>2. \A T \in SUBSET S : F(T) \in Int
  BY <1>1, SumType
<1>3. F({}) = 0 /\ H({}) = 0
  BY SumEmpty
<1>4. ASSUME NEW T \in SUBSET S, NEW x \in T
      PROVE  F(T) = f[x] + F(T \ {x}) /\ H(T) = h[x] + H(T \ {x})
  <2>1. F(T) = f[x] + F(T \ {x})
    BY <1>1, SumRemove
  <2>2. \A y \in T : h[y] \in Int
    OBVIOUS
  <2>3. H(T) = h[x] + H(T \ {x})
    BY <1>1, <2>2, SumRemove
  <2> QED
    BY <2>1, <2>3
<1> HIDE DEF F, H
<1>5. PICK T \in Bad : \A U \in Bad : Cardinality(T) <= Cardinality(U)
  <2> HIDE DEF Bad
  <2>1. \A T \in Bad : IsFiniteSet(T)
    BY <1>1 DEF Bad
  <2> QED
    BY <2>1, SmallestSet
<1>6. T \in SUBSET S /\ T # {}
  <2>1. {} \notin Bad
    BY <1>3
  <2> QED
    BY <1>5, <2>1
<1>7. PICK x \in T : TRUE
  BY <1>6
<1>8. Cardinality(T \ {x}) = Cardinality(T) - 1 /\ Cardinality(T) \in Nat
  BY <1>1, <1>6, <1>7, FS_RemoveElement, FS_CardinalityType
<1>9. T \ {x} \in SUBSET S /\ H(T \ {x}) = c * F(T \ {x})
  BY <1>5, <1>6, <1>8
<1>10. F(T) = f[x] + F(T \ {x}) /\ H(T) = h[x] + H(T \ {x})
  BY <1>4, <1>6, <1>7
<1>11. F(T \ {x}) \in Int
  BY <1>2, <1>9
<1>12. f[x] \in Int /\ h[x] = c * f[x]
  BY <1>6, <1>7
<1>13. c * (f[x] + F(T \ {x})) = c * f[x] + c * F(T \ {x})
  BY <1>11, <1>12
<1>14. H(T) = c * F(T)
  BY <1>9, <1>10, <1>12, <1>13
<1> QED
  BY <1>5, <1>14

\* One sums to the number of elements.
LEMMA SumOnes ==
  ASSUME NEW fun, NEW S, IsFiniteSet(S), \A x \in S : fun[x] = 1
  PROVE  SumFunctionOnSet(fun, S) = Cardinality(S)
<1> DEFINE F(T) == SumFunctionOnSet(fun, T)
           Bad == {T \in SUBSET S : F(T) # Cardinality(T)}
<1> SUFFICES ASSUME Bad # {} PROVE FALSE
  OBVIOUS
<1>1. \A T \in SUBSET S : IsFiniteSet(T)
  BY FS_Subset
<1>2. F({}) = 0 /\ Cardinality({}) = 0
  BY SumEmpty, FS_EmptySet
<1>3. ASSUME NEW T \in SUBSET S, NEW x \in T
      PROVE  F(T) = fun[x] + F(T \ {x})
  <2>1. \A y \in T : fun[y] \in Int
    OBVIOUS
  <2> QED
    BY <1>1, <2>1, SumRemove
<1> HIDE DEF F
<1>4. PICK T \in Bad : \A U \in Bad : Cardinality(T) <= Cardinality(U)
  <2> HIDE DEF Bad
  <2>1. \A T \in Bad : IsFiniteSet(T)
    BY <1>1 DEF Bad
  <2> QED
    BY <2>1, SmallestSet
<1>5. T \in SUBSET S /\ T # {}
  <2>1. {} \notin Bad
    BY <1>2
  <2> QED
    BY <1>4, <2>1
<1>6. PICK x \in T : TRUE
  BY <1>5
<1>7. Cardinality(T \ {x}) = Cardinality(T) - 1 /\ Cardinality(T) \in Nat
  BY <1>1, <1>5, <1>6, FS_RemoveElement, FS_CardinalityType
<1>8. F(T \ {x}) = Cardinality(T \ {x})
  BY <1>4, <1>5, <1>7
<1>9. F(T) = fun[x] + F(T \ {x}) /\ fun[x] = 1
  BY <1>3, <1>5, <1>6
<1> QED
  BY <1>4, <1>7, <1>8, <1>9

\* A constant sums to its multiple.
LEMMA SumConstant ==
  ASSUME NEW fun, NEW S, IsFiniteSet(S), NEW c \in Int, \A x \in S : fun[x] = c
  PROVE  SumFunctionOnSet(fun, S) = c * Cardinality(S)
<1> DEFINE one == [x \in S |-> 1]
<1>1. \A x \in S : one[x] = 1
  OBVIOUS
<1>2. \A x \in S : one[x] \in Int /\ fun[x] = c * one[x]
  OBVIOUS
<1> HIDE DEF one
<1>3. SumFunctionOnSet(fun, S) = c * SumFunctionOnSet(one, S)
  BY <1>2, SumScaled
<1> QED
  BY <1>1, <1>3, SumOnes

\* So does one that only the elements of a subset have, by the subset's size.
LEMMA SumIndicator ==
  ASSUME NEW fun, NEW S, IsFiniteSet(S), NEW T \in SUBSET S, NEW c \in Int,
         \A x \in T : fun[x] = c, \A x \in S \ T : fun[x] = 0
  PROVE  SumFunctionOnSet(fun, S) = c * Cardinality(T)
<1>1. IsFiniteSet(T) /\ IsFiniteSet(S \ T) /\ T \cap (S \ T) = {} /\ S = T \cup (S \ T)
  BY FS_Subset
<1>2. \A x \in S : fun[x] \in Int
  OBVIOUS
<1>3. SumFunctionOnSet(fun, T \cup (S \ T)) = SumFunctionOnSet(fun, T) + SumFunctionOnSet(fun, S \ T)
  BY <1>1, <1>2, SumDisjoint
<1>4. \A x \in T : fun[x] = c
  OBVIOUS
<1>5. SumFunctionOnSet(fun, T) = c * Cardinality(T)
  BY <1>1, <1>4, SumConstant
<1>6. \A x \in S \ T : fun[x] = 0
  OBVIOUS
<1>7. SumFunctionOnSet(fun, S \ T) = 0
  BY <1>1, <1>6, SumZero
<1>8. Cardinality(T) \in Nat
  BY <1>1, FS_CardinalityType
<1> QED
  BY <1>1, <1>3, <1>5, <1>7, <1>8

\* What each value is too much by at most, the sum is as often.
LEMMA SumWithin ==
  ASSUME NEW f, NEW g, NEW S, IsFiniteSet(S), NEW c \in Int,
         \A x \in S : f[x] \in Int /\ g[x] \in Int /\ f[x] <= g[x] + c
  PROVE  SumFunctionOnSet(f, S) <= SumFunctionOnSet(g, S) + c * Cardinality(S)
<1> DEFINE more == [x \in S |-> c]
           h == [x \in S |-> g[x] + c]
<1>1. \A x \in S : more[x] = c /\ more[x] \in Int /\ h[x] = g[x] + more[x] /\ h[x] \in Int
  OBVIOUS
<1>2. \A x \in S : f[x] \in Int /\ h[x] \in Int /\ f[x] <= h[x]
  OBVIOUS
<1> HIDE DEF more, h
<1>3. SumFunctionOnSet(f, S) <= SumFunctionOnSet(h, S)
  BY <1>2, SumMonotone
<1>4. SumFunctionOnSet(h, S) = SumFunctionOnSet(g, S) + SumFunctionOnSet(more, S)
  BY <1>1, SumPlus
<1>5. SumFunctionOnSet(more, S) = c * Cardinality(S)
  BY <1>1, SumConstant
<1> QED
  BY <1>3, <1>4, <1>5

\* fun has what each value of F is more than the one before.
Differences(fun, F) == \A n \in Int : F[n] \in Int /\ fun[n] = F[n] - F[n - 1]

\* Differences of successive values add up to the difference of the last and the first.
LEMMA SumTelescopes ==
  ASSUME NEW fun, NEW F, NEW a \in Int, NEW b \in Int, a <= b + 1,
         Differences(fun, F)
  PROVE  SumFunctionOnSet(fun, a..b) = F[b] - F[a - 1]
<1> DEFINE Good(k) == SumFunctionOnSet(fun, a..(a + k - 1)) = F[a + k - 1] - F[a - 1]
           Bad == {k \in Nat : ~Good(k)}
<1>1. Bad = {}
  <2> SUFFICES ASSUME Bad # {} PROVE FALSE
    OBVIOUS
  <2>1. PICK k \in Bad : \A j \in Bad : k <= j
    BY LeastNat
  <2>2. Good(0)
    <3>1. a..(a - 1) = {} /\ a + 0 - 1 = a - 1 /\ a - 1 \in Int
      OBVIOUS
    <3>2. F[a - 1] \in Int
      BY <3>1 DEF Differences
    <3>3. SumFunctionOnSet(fun, a..(a - 1)) = 0
      BY <3>1, SumEmpty
    <3> QED
      BY <3>1, <3>2, <3>3
  <2>3. k \in Nat /\ k # 0 /\ k - 1 \in Nat /\ Good(k - 1)
    <3> HIDE DEF Good
    <3>1. k \in Nat /\ ~Good(k)
      BY <2>1
    <3>2. k # 0
      BY <2>2, <3>1
    <3>3. k - 1 \in Nat /\ ~(k <= k - 1)
      BY <3>1, <3>2
    <3> QED
      BY <2>1, <3>1, <3>2, <3>3
  <2> DEFINE last == a + k - 1
  <2>4. last \in Int /\ a + (k - 1) - 1 = last - 1 /\ last >= a
    BY <2>3
  <2>5. SumFunctionOnSet(fun, a..(last - 1)) = F[last - 1] - F[a - 1]
    BY <2>3, <2>4
  <2> HIDE DEF last
  <2>6. /\ a..last = (a..(last - 1)) \cup {last} /\ last \notin a..(last - 1)
        /\ IsFiniteSet(a..(last - 1))
    <3>1. last - 1 \in Int
      BY <2>4
    <3>2. IsFiniteSet(a..(last - 1))
      BY <3>1, FS_Interval
    <3>3. \A n \in Int : n \in a..last <=> n \in a..(last - 1) \/ n = last
      BY <2>4
    <3> QED
      BY <2>4, <3>2, <3>3
  <2>7. ASSUME NEW n \in Int
        PROVE  fun[n] \in Int
    <3>1. n - 1 \in Int
      OBVIOUS
    <3>2. F[n] \in Int /\ F[n - 1] \in Int /\ fun[n] = F[n] - F[n - 1]
      BY <3>1, Zenon DEF Differences
    <3> QED
      BY <3>2
  <2>8. SumFunctionOnSet(fun, a..last) = SumFunctionOnSet(fun, a..(last - 1)) + fun[last]
    <3>1. \A n \in (a..(last - 1)) \cup {last} : fun[n] \in Int
      BY <2>4, <2>7
    <3>2. SumFunctionOnSet(fun, (a..(last - 1)) \cup {last}) = SumFunctionOnSet(fun, a..(last - 1)) + fun[last]
      BY <2>6, <3>1, SumAdd
    <3> QED
      BY <2>6, <3>2
  <2>9. F[last] \in Int /\ F[last - 1] \in Int /\ F[a - 1] \in Int /\ fun[last] = F[last] - F[last - 1]
    <3>1. last - 1 \in Int /\ a - 1 \in Int
      BY <2>4
    <3> QED
      BY <2>4, <3>1, Zenon DEF Differences
  <2>10. SumFunctionOnSet(fun, a..last) = F[last] - F[a - 1]
    BY <2>5, <2>8, <2>9
  <2> QED
    BY <2>1, <2>10 DEF last
<1>2. b - a + 1 \in Nat /\ a + (b - a + 1) - 1 = b
  OBVIOUS
<1>3. Good(b - a + 1)
  BY <1>1, <1>2
<1> QED
  BY <1>2, <1>3

\* Half units on either side, one by one and in the sum.
LEMMA SumsDiffer ==
  ASSUME NEW S, IsFiniteSet(S), NEW f, NEW g, NEW c, NEW l,
         \A k \in S : /\ f[k] \in Int /\ g[k] \in Int /\ c[k] \in Int /\ l[k] \in Int
                      /\ 2 * f[k] <= 2 * g[k] + c[k] + 2 * l[k]
  PROVE  2 * SumFunctionOnSet(f, S) <= 2 * SumFunctionOnSet(g, S) + SumFunctionOnSet(c, S) + 2 * SumFunctionOnSet(l, S)
<1> DEFINE f2 == [k \in S |-> 2 * f[k]]
           g2 == [k \in S |-> 2 * g[k]]
           l2 == [k \in S |-> 2 * l[k]]
           gc == [k \in S |-> 2 * g[k] + c[k]]
           all == [k \in S |-> 2 * g[k] + c[k] + 2 * l[k]]
<1>1. \A k \in S : /\ f[k] \in Int /\ g[k] \in Int /\ c[k] \in Int /\ l[k] \in Int
                   /\ f2[k] = 2 * f[k] /\ g2[k] = 2 * g[k] /\ l2[k] = 2 * l[k]
                   /\ gc[k] = g2[k] + c[k] /\ all[k] = gc[k] + l2[k]
                   /\ f2[k] <= all[k]
  OBVIOUS
<1> HIDE DEF f2, g2, l2, gc, all
<1>2. \A k \in S : f2[k] \in Int /\ g2[k] \in Int /\ l2[k] \in Int /\ gc[k] \in Int /\ all[k] \in Int
  BY <1>1
<1>3. 2 \in Int
  OBVIOUS
<1>4. SumFunctionOnSet(f2, S) = 2 * SumFunctionOnSet(f, S)
  BY <1>1, <1>3, SumScaled
<1>5. SumFunctionOnSet(g2, S) = 2 * SumFunctionOnSet(g, S)
  BY <1>1, <1>3, SumScaled
<1>6. SumFunctionOnSet(l2, S) = 2 * SumFunctionOnSet(l, S)
  BY <1>1, <1>3, SumScaled
<1>7. SumFunctionOnSet(gc, S) = SumFunctionOnSet(g2, S) + SumFunctionOnSet(c, S)
  BY <1>1, <1>2, SumPlus
<1>8. SumFunctionOnSet(all, S) = SumFunctionOnSet(gc, S) + SumFunctionOnSet(l2, S)
  BY <1>1, <1>2, SumPlus
<1>9. SumFunctionOnSet(f2, S) <= SumFunctionOnSet(all, S)
  BY <1>1, <1>2, SumMonotone
<1> QED
  BY <1>4, <1>5, <1>6, <1>7, <1>8, <1>9

=============================================================================
