--------------------------- MODULE BillingProofs ---------------------------
(***************************************************************************)
(* Safety of the billing service for any number of threads, invoices,      *)
(* currencies, amounts and calls.                                          *)
(***************************************************************************)
EXTENDS Billing, SumLemmas, FunctionTheorems, SequenceTheorems

(***************************************************************************)
(* What allocate_payment computes, for every payment and every list        *)
(***************************************************************************)

\* Lists of entries that can be allocated to: totals are integers.
Priced(sorted) == Len(sorted) \in Nat /\ \A k \in 1..Len(sorted) : sorted[k].total \in Int

\* g is the running remainder over the first n entries.
Running(g, amount, sorted, n) ==
  g = [k \in 0..n |-> IF k = 0 THEN amount ELSE g[k-1] - Share(sorted[k].total, g[k-1])]

\* A share is an integer, and never more than what is left to share.
LEMMA ShareBound ==
  ASSUME NEW total \in Int, NEW remaining \in Int
  PROVE  /\ Share(total, remaining) \in Int
         /\ remaining >= 0 => Share(total, remaining) <= remaining
         /\ total >= 0 => Share(total, remaining) \in 0..total
BY DEF Share

\* A running remainder exists for every prefix of the list.
LEMMA RunningExists ==
  ASSUME NEW amount \in Int, NEW sorted, Priced(sorted)
  PROVE  \A n \in 0..Len(sorted) : \E g \in [0..n -> Int] : Running(g, amount, sorted, n)
<1> DEFINE Bad == {n \in 0..Len(sorted) : ~ \E g \in [0..n -> Int] : Running(g, amount, sorted, n)}
<1> SUFFICES ASSUME Bad # {} PROVE FALSE
  OBVIOUS
<1>1. PICK m \in Bad : \A n \in Bad : m <= n
  <2>1. Bad \subseteq Nat
    BY DEF Priced
  <2> QED
    BY <2>1, LeastNat
<1>2. m # 0
  <2> SUFFICES ASSUME m = 0 PROVE FALSE
    OBVIOUS
  <2> DEFINE g == [k \in 0..0 |-> amount]
  <2>1. g \in [0..0 -> Int] /\ Running(g, amount, sorted, 0)
    BY DEF Running
  <2> QED
    BY <2>1
<1>3. m \in 1..Len(sorted) /\ (m - 1) \in 0..Len(sorted) /\ (m - 1) \notin Bad
  BY <1>1, <1>2 DEF Priced
<1>4. PICK g \in [0..(m-1) -> Int] : Running(g, amount, sorted, m - 1)
  BY <1>3
<1> DEFINE h == [k \in 0..m |-> IF k < m THEN g[k]
                               ELSE g[m-1] - Share(sorted[m].total, g[m-1])]
<1>5. h \in [0..m -> Int]
  <2>1. \A k \in 0..m : k < m => k \in 0..(m-1)
    BY <1>3
  <2>2. g[m-1] - Share(sorted[m].total, g[m-1]) \in Int
    <3>1. g[m-1] \in Int /\ sorted[m].total \in Int
      BY <1>3, <1>4 DEF Priced
    <3>2. Share(sorted[m].total, g[m-1]) \in Int
      BY <3>1, ShareBound
    <3> QED
      BY <3>1, <3>2
  <2> QED
    BY <2>1, <2>2, <1>4
<1>6. Running(h, amount, sorted, m)
  <2> SUFFICES ASSUME NEW k \in 0..m
               PROVE  h[k] = IF k = 0 THEN amount
                             ELSE h[k-1] - Share(sorted[k].total, h[k-1])
    BY DEF Running
  <2>1. CASE k = m
    <3>1. h[m-1] = g[m-1] /\ h[m] = g[m-1] - Share(sorted[m].total, g[m-1])
      BY <1>3
    <3> QED
      BY <3>1, <2>1, <1>2
  <2>2. CASE k < m
    <3>1. k \in 0..(m-1)
      BY <2>2, <1>3
    <3>2. g[k] = IF k = 0 THEN amount ELSE g[k-1] - Share(sorted[k].total, g[k-1])
      BY <1>4, <3>1 DEF Running
    <3>3. h[k] = g[k] /\ (k # 0 => h[k-1] = g[k-1])
      BY <2>2, <1>3
    <3> QED
      BY <3>2, <3>3
  <2> QED
    BY <2>1, <2>2, <1>3
<1> QED
  BY <1>1, <1>5, <1>6

\* Remaining is the running remainder over the whole list: an integer after every
\* entry, the payment before the first, and less by one share after each.
THEOREM RemainingStep ==
  ASSUME NEW amount \in Int, NEW sorted, Priced(sorted)
  PROVE  /\ Remaining(amount, sorted) \in [0..Len(sorted) -> Int]
         /\ Remaining(amount, sorted)[0] = amount
         /\ \A k \in 1..Len(sorted) :
              Remaining(amount, sorted)[k] =
                Remaining(amount, sorted)[k-1]
                  - Share(sorted[k].total, Remaining(amount, sorted)[k-1])
<1> DEFINE left == Remaining(amount, sorted)
           n == Len(sorted)
<1>1. PICK g \in [0..n -> Int] : Running(g, amount, sorted, n)
  <2>1. n \in 0..Len(sorted)
    BY DEF Priced
  <2> QED
    BY <2>1, RunningExists
<1>2. Running(left, amount, sorted, n)
  BY <1>1 DEF Running, Remaining
<1>3. \A k \in 0..n : left[k] = IF k = 0 THEN amount
                                ELSE left[k-1] - Share(sorted[k].total, left[k-1])
  BY <1>2 DEF Running
<1>4. \A k \in 0..n : left[k] \in Int
  <2> DEFINE Bad == {k \in 0..n : left[k] \notin Int}
  <2> SUFFICES ASSUME Bad # {} PROVE FALSE
    OBVIOUS
  <2>1. PICK m \in Bad : \A k \in Bad : m <= k
    <3>1. Bad \subseteq Nat
      BY DEF Priced
    <3> QED
      BY <3>1, LeastNat
  <2>2. m # 0
    BY <2>1, <1>3
  <2>3. (m - 1) \in 0..n /\ m \in 1..n /\ left[m-1] \in Int
    BY <2>1, <2>2 DEF Priced
  <2>4. left[m] = left[m-1] - Share(sorted[m].total, left[m-1])
    BY <2>2, <2>3, <1>3
  <2>5. sorted[m].total \in Int
    BY <2>3 DEF Priced
  <2>6. Share(sorted[m].total, left[m-1]) \in Int
    BY <2>3, <2>5, ShareBound
  <2>7. left[m] \in Int
    BY <2>3, <2>4, <2>6
  <2> QED
    BY <2>1, <2>7
<1>5. left \in [0..n -> Int]
  BY <1>2, <1>4 DEF Running
<1>6. 0 \in 0..n /\ \A k \in 1..n : k \in 0..n /\ k # 0
  BY DEF Priced
<1> QED
  BY <1>3, <1>5, <1>6

\* The remainder never goes below zero and never grows over invoices with a
\* non-negative total.
THEOREM RemainingBounded ==
  ASSUME NEW amount \in Nat, NEW sorted, Priced(sorted)
  PROVE  \A k \in 0..Len(sorted) : Remaining(amount, sorted)[k] >= 0
<1> DEFINE left == Remaining(amount, sorted)
           n == Len(sorted)
           Bad == {k \in 0..n : ~ (left[k] >= 0)}
<1>1. /\ left \in [0..n -> Int]
      /\ left[0] = amount
      /\ \A k \in 1..n : left[k] = left[k-1] - Share(sorted[k].total, left[k-1])
  BY RemainingStep
<1> HIDE DEF left
<1> SUFFICES ASSUME Bad # {} PROVE FALSE
  BY DEF left
<1>2. PICK m \in Bad : \A k \in Bad : m <= k
  <2>1. Bad \subseteq Nat
    BY DEF Priced
  <2> QED
    BY <2>1, LeastNat
<1>3. m # 0
  BY <1>1, <1>2
<1>4. (m - 1) \in 0..n /\ m \in 1..n /\ left[m-1] >= 0
  BY <1>2, <1>3 DEF Priced
<1>5. left[m-1] \in Int /\ sorted[m].total \in Int
  BY <1>1, <1>4 DEF Priced
<1>6. /\ Share(sorted[m].total, left[m-1]) \in Int
      /\ Share(sorted[m].total, left[m-1]) <= left[m-1]
  BY <1>4, <1>5, ShareBound
<1>7. left[m] >= 0
  BY <1>1, <1>4, <1>5, <1>6
<1> QED
  BY <1>2, <1>7

\* An allocation for every entry, of an integer amount.
THEOREM AllocationsType ==
  ASSUME NEW amount \in Int, NEW Id, NEW sorted, Priced(sorted),
         \A k \in 1..Len(sorted) : sorted[k].inv \in Id
  PROVE  /\ Allocations(amount, sorted) \in Seq([inv : Id, amount : Int])
         /\ Len(Allocations(amount, sorted)) = Len(sorted)
<1> DEFINE left == Remaining(amount, sorted)
<1>1. \A k \in 1..Len(sorted) : (k - 1) \in 0..Len(sorted)
  BY DEF Priced
<1>2. \A k \in 1..Len(sorted) : left[k-1] \in Int /\ sorted[k].total \in Int
  BY <1>1, RemainingStep DEF Priced
<1>3. \A k \in 1..Len(sorted) : Share(sorted[k].total, left[k-1]) \in Int
  BY <1>2, ShareBound
<1>4. \A k \in 1..Len(sorted) :
        [inv |-> sorted[k].inv, amount |-> Share(sorted[k].total, left[k-1])]
          \in [inv : Id, amount : Int]
  BY <1>3
<1> HIDE DEF left
<1>5. [k \in 1..Len(sorted) |->
         [inv |-> sorted[k].inv, amount |-> Share(sorted[k].total, left[k-1])]]
        \in [1..Len(sorted) -> [inv : Id, amount : Int]]
  BY <1>4
<1>6. Allocations(amount, sorted) \in [1..Len(sorted) -> [inv : Id, amount : Int]]
  BY <1>5 DEF Allocations, left
<1>7. ASSUME NEW S, NEW n \in Nat, NEW a \in [1..n -> S]
      PROVE  a \in Seq(S) /\ Len(a) = n
  OBVIOUS
<1>8. Len(sorted) \in Nat
  BY DEF Priced
<1> QED
  BY <1>6, <1>7, <1>8

\* The order is a priority: with no negative total an invoice is given between
\* nothing and its total, and one that is given less than its total leaves nothing
\* for any later one.
THEOREM AllocationsPriority ==
  ASSUME NEW amount \in Nat, NEW sorted, Priced(sorted),
         \A k \in 1..Len(sorted) : sorted[k].total >= 0
  PROVE  \A k \in 1..Len(sorted) :
           /\ Allocations(amount, sorted)[k].amount \in 0..sorted[k].total
           /\ Allocations(amount, sorted)[k].amount < sorted[k].total
                => \A j \in (k+1)..Len(sorted) : Allocations(amount, sorted)[j].amount = 0
<1> DEFINE left == Remaining(amount, sorted)
           n == Len(sorted)
<1> SUFFICES ASSUME NEW k \in 1..n
    PROVE  /\ Allocations(amount, sorted)[k].amount \in 0..sorted[k].total
           /\ Allocations(amount, sorted)[k].amount < sorted[k].total
                => \A j \in (k+1)..n : Allocations(amount, sorted)[j].amount = 0
  OBVIOUS
<1>1. /\ left \in [0..n -> Int]
      /\ \A j \in 1..n : left[j] = left[j-1] - Share(sorted[j].total, left[j-1])
      /\ \A j \in 0..n : left[j] >= 0
  BY RemainingStep, RemainingBounded
<1>2. \A j \in 1..n : Allocations(amount, sorted)[j].amount = Share(sorted[j].total, left[j-1])
  BY DEF Allocations
<1> HIDE DEF left
<1>3. n \in Nat /\ \A j \in 1..n : sorted[j].total \in Nat
  BY DEF Priced
<1>4. \A j \in 1..n : (j - 1) \in 0..n /\ left[j-1] \in Nat
  BY <1>1, <1>3
<1>5. Share(sorted[k].total, left[k-1]) \in 0..sorted[k].total
  <2>1. sorted[k].total \in Int /\ sorted[k].total >= 0 /\ left[k-1] \in Int
    BY <1>3, <1>4
  <2> QED
    BY <2>1, ShareBound
<1>6. ASSUME Share(sorted[k].total, left[k-1]) < sorted[k].total
      PROVE  \A j \in k..n : left[j] = 0
  <2> DEFINE Bad == {j \in k..n : left[j] # 0}
  <2> SUFFICES ASSUME Bad # {} PROVE FALSE
    OBVIOUS
  <2>1. PICK m \in Bad : \A j \in Bad : m <= j
    <3>1. Bad \subseteq Nat
      BY <1>3
    <3> QED
      BY <3>1, LeastNat
  <2>2. left[k] = 0
    <3>1. sorted[k].total \in Nat /\ left[k-1] \in Nat
      BY <1>3, <1>4
    <3>2. left[k] = left[k-1] - Share(sorted[k].total, left[k-1])
      BY <1>1
    <3>3. Share(sorted[k].total, left[k-1]) = left[k-1]
      BY <3>1, <1>6 DEF Share
    <3> QED
      BY <3>1, <3>2, <3>3
  <2>3. m \in (k+1)..n /\ m \in 1..n /\ (m - 1) \in k..n
    BY <2>1, <2>2, <1>3
  <2>4. left[m-1] = 0
    BY <2>1, <2>3
  <2>5. left[m] = left[m-1] - Share(sorted[m].total, left[m-1])
    BY <1>1, <2>3
  <2>6. Share(sorted[m].total, left[m-1]) = 0
    BY <2>4 DEF Share
  <2> QED
    BY <2>1, <2>4, <2>5, <2>6
<1>7. ASSUME Share(sorted[k].total, left[k-1]) < sorted[k].total
      PROVE  \A j \in (k+1)..n : Share(sorted[j].total, left[j-1]) = 0
  <2>1. \A j \in (k+1)..n : (j - 1) \in k..n
    BY <1>3
  <2> QED
    BY <2>1, <1>6, <1>7 DEF Share
<1>8. \A j \in (k+1)..n : j \in 1..n
  BY <1>3
<1> QED
  BY <1>2, <1>5, <1>7, <1>8

(***************************************************************************)
(* The order of the list                                                   *)
(***************************************************************************)

\* Lists that can be sorted: every key is a number.
Sortable(entries, strategy) ==
  /\ Len(entries) \in Nat /\ DOMAIN entries = 1..Len(entries)
  /\ \A k \in 1..Len(entries) : SortKey(entries[k], strategy) \in Int

\* The places whose entries come before the one at place n.
Ahead(entries, strategy, n) == {m \in DOMAIN entries : Before(entries, strategy, m, n)}

LEMMA BeforeIsOrder ==
  ASSUME NEW entries, NEW strategy, Sortable(entries, strategy),
         NEW l \in DOMAIN entries, NEW m \in DOMAIN entries, NEW n \in DOMAIN entries
  PROVE  /\ ~Before(entries, strategy, m, m)
         /\ Before(entries, strategy, l, m) /\ Before(entries, strategy, m, n)
              => Before(entries, strategy, l, n)
         /\ m # n => Before(entries, strategy, m, n) \/ Before(entries, strategy, n, m)
<1>1. l \in Int /\ m \in Int /\ n \in Int
  BY DEF Sortable
<1>2. /\ SortKey(entries[l], strategy) \in Int
      /\ SortKey(entries[m], strategy) \in Int
      /\ SortKey(entries[n], strategy) \in Int
  BY DEF Sortable
<1> QED
  BY <1>1, <1>2 DEF Before

\* What comes before m comes before n, too, and so does m.
LEMMA FewerAhead ==
  ASSUME NEW entries, NEW strategy, Sortable(entries, strategy),
         NEW m \in DOMAIN entries, NEW n \in DOMAIN entries, Before(entries, strategy, m, n)
  PROVE  Cardinality(Ahead(entries, strategy, m)) < Cardinality(Ahead(entries, strategy, n))
<1> DEFINE M == Ahead(entries, strategy, m)
           N == Ahead(entries, strategy, n)
<1>1. M \in SUBSET N /\ m \in N /\ m \notin M
  BY BeforeIsOrder DEF Ahead
<1>2. IsFiniteSet(DOMAIN entries) /\ N \in SUBSET DOMAIN entries
  BY FS_Interval DEF Sortable, Ahead
<1>3. IsFiniteSet(N) /\ Cardinality(N) \in Nat
  BY <1>2, FS_Subset, FS_CardinalityType
<1>4. Cardinality(M) <= Cardinality(N) /\ (Cardinality(N) = Cardinality(M) => N = M)
  BY <1>1, <1>3, FS_Subset
<1>5. Cardinality(M) \in Nat
  BY <1>1, <1>3, FS_Subset, FS_CardinalityType
<1> HIDE DEF M, N
<1>6. Cardinality(M) < Cardinality(N)
  BY <1>1, <1>3, <1>4, <1>5
<1> QED
  BY <1>6 DEF M, N

\* Each entry has a rank of its own.
LEMMA RanksAreOrders ==
  ASSUME NEW entries, NEW strategy, Sortable(entries, strategy)
  PROVE  LET rank == [n \in DOMAIN entries |-> Cardinality(Ahead(entries, strategy, n)) + 1] IN
         /\ rank \in [DOMAIN entries -> DOMAIN entries]
         /\ \A m, n \in DOMAIN entries : Before(entries, strategy, m, n) => rank[m] < rank[n]
         /\ \A m, n \in DOMAIN entries : rank[m] = rank[n] => m = n
         /\ \A k \in DOMAIN entries : \E n \in DOMAIN entries : rank[n] = k
<1> DEFINE D == DOMAIN entries
           rank == [n \in D |-> Cardinality(Ahead(entries, strategy, n)) + 1]
<1>1. D = 1..Len(entries) /\ Len(entries) \in Nat /\ IsFiniteSet(D) /\ Cardinality(D) = Len(entries)
  BY FS_Interval DEF Sortable
<1>2. ASSUME NEW n \in D
      PROVE  Cardinality(Ahead(entries, strategy, n)) + 1 \in D
  <2> DEFINE N == Ahead(entries, strategy, n)
  <2>1. N \in SUBSET (D \ {n})
    BY BeforeIsOrder DEF Ahead
  <2>2. IsFiniteSet(D \ {n}) /\ Cardinality(D \ {n}) = Len(entries) - 1
    BY <1>1, FS_RemoveElement
  <2>3. IsFiniteSet(N) /\ Cardinality(N) <= Len(entries) - 1 /\ Cardinality(N) \in Nat
    BY <2>1, <2>2, FS_Subset, FS_CardinalityType
  <2> HIDE DEF N
  <2>4. Cardinality(N) + 1 \in D
    BY <1>1, <2>3
  <2> QED
    BY <2>4 DEF N
<1>3. rank \in [D -> D]
  BY <1>2
<1>4. ASSUME NEW m \in D, NEW n \in D, Before(entries, strategy, m, n)
      PROVE  rank[m] < rank[n]
  <2>1. Cardinality(Ahead(entries, strategy, m)) < Cardinality(Ahead(entries, strategy, n))
    BY <1>4, FewerAhead
  <2>2. rank[m] = Cardinality(Ahead(entries, strategy, m)) + 1 /\ rank[n] = Cardinality(Ahead(entries, strategy, n)) + 1
    OBVIOUS
  <2>3. rank[m] \in Int /\ rank[n] \in Int
    BY <1>1, <1>3
  <2>4. IsFiniteSet(Ahead(entries, strategy, m)) /\ IsFiniteSet(Ahead(entries, strategy, n))
    <3>1. Ahead(entries, strategy, m) \in SUBSET D /\ Ahead(entries, strategy, n) \in SUBSET D
      BY DEF Ahead
    <3> QED
      BY <1>1, <3>1, FS_Subset
  <2>5. Cardinality(Ahead(entries, strategy, m)) \in Int /\ Cardinality(Ahead(entries, strategy, n)) \in Int
    BY <2>4, FS_CardinalityType
  <2> HIDE DEF rank
  <2> QED
    BY <2>1, <2>2, <2>5
<1> HIDE DEF rank
<1>5. ASSUME NEW m \in D, NEW n \in D, rank[m] = rank[n]
      PROVE  m = n
  <2>1. rank[m] \in Int /\ rank[n] \in Int
    BY <1>1, <1>3
  <2> QED
    BY <1>4, <1>5, <2>1, BeforeIsOrder
<1>6. rank \in Injection(D, D)
  BY <1>3, <1>5, Fun_IsInj
<1>7. rank \in Surjection(D, D)
  BY <1>1, <1>6, FS_Injection
<1>8. \A k \in D : \E n \in D : rank[n] = k
  BY <1>7 DEF Surjection
<1> QED
  BY <1>3, <1>4, <1>5, <1>8 DEF rank

\* In a sorted list the entry at place k has k - 1 entries before it.
LEMMA SortedRanks ==
  ASSUME NEW entries, NEW strategy, Sortable(entries, strategy),
         NEW order \in SortOrders(entries, strategy), NEW k \in DOMAIN entries
  PROVE  order[k] \in DOMAIN entries /\ Cardinality(Ahead(entries, strategy, order[k])) = k - 1
<1> DEFINE D == DOMAIN entries
           A == Ahead(entries, strategy, order[k])
           I == 1..(k - 1)
           f == [j \in I |-> order[j]]
<1>1. D = 1..Len(entries) /\ Len(entries) \in Nat /\ IsFiniteSet(D)
  BY FS_Interval DEF Sortable
<1>2. /\ order \in [D -> D]
      /\ \A i, j \in D : i < j => Before(entries, strategy, order[i], order[j])
  BY DEF SortOrders
<1>3. ASSUME NEW i \in D, NEW j \in D, order[i] = order[j]
      PROVE  i = j
  <2>1. order[i] \in D /\ ~Before(entries, strategy, order[i], order[i])
    BY <1>2, BeforeIsOrder
  <2>2. ~(i < j) /\ ~(j < i)
    BY <1>2, <1>3, <2>1
  <2> QED
    BY <1>1, <2>2
<1>4. order \in Injection(D, D)
  BY <1>2, <1>3, Fun_IsInj
<1>5. order \in Surjection(D, D)
  BY <1>1, <1>4, FS_Injection
<1>6. \A m \in D : \E j \in D : order[j] = m
  BY <1>5 DEF Surjection
<1>7. order[k] \in D /\ k \in Int /\ \A j \in I : j \in D /\ j < k
  BY <1>1, <1>2
<1>8. A \in SUBSET D
  BY DEF Ahead
<1>9. \A j \in I : order[j] \in A
  BY <1>2, <1>7 DEF Ahead
<1>10. ASSUME NEW m \in A PROVE \E j \in I : order[j] = m
  <2>1. m \in D /\ Before(entries, strategy, m, order[k])
    BY DEF Ahead
  <2>2. PICK j \in D : order[j] = m
    BY <1>6, <2>1
  <2>3. ~(j = k) /\ ~(k < j)
    BY <1>2, <1>7, <2>1, <2>2, BeforeIsOrder
  <2>4. j \in I
    BY <1>1, <1>7, <2>3
  <2> QED
    BY <2>2, <2>4
<1>11. \A i, j \in I : order[i] = order[j] => i = j
  BY <1>3, <1>7
<1>12. IsFiniteSet(I) /\ Cardinality(I) = k - 1
  <2>1. k \in Int /\ k >= 1
    BY <1>1
  <2>2. IsFiniteSet(I) /\ Cardinality(I) = IF 1 > k - 1 THEN 0 ELSE (k - 1) - 1 + 1
    BY <2>1, FS_Interval
  <2> QED
    BY <2>1, <2>2
<1> HIDE DEF A, I
<1>13. f \in Bijection(I, A)
  <2>1. f \in [I -> A] /\ \A j \in I : f[j] = order[j]
    BY <1>9
  <2> HIDE DEF f
  <2>2. f \in Injection(I, A)
    BY <1>11, <2>1, Fun_IsInj
  <2>3. f \in Surjection(I, A)
    BY <1>10, <2>1, Fun_IsSurj
  <2> QED
    BY <2>2, <2>3 DEF Bijection
<1>14. Cardinality(A) = k - 1
  BY <1>12, <1>13, FS_Bijection DEF ExistsBijection
<1> QED
  BY <1>7, <1>14 DEF A

\* Every list is sorted in exactly one way: the order _sort_invoices returns exists, and
\* with ties broken by place no other satisfies what is asked of it, whatever the keys.
THEOREM OneSortOrder ==
  ASSUME NEW entries, NEW strategy, Sortable(entries, strategy)
  PROVE  \E order : SortOrders(entries, strategy) = {order}
<1> DEFINE D == DOMAIN entries
           rank == [n \in D |-> Cardinality(Ahead(entries, strategy, n)) + 1]
           order == [k \in D |-> CHOOSE n \in D : rank[n] = k]
<1>1. /\ rank \in [D -> D]
      /\ \A m, n \in D : Before(entries, strategy, m, n) => rank[m] < rank[n]
      /\ \A m, n \in D : rank[m] = rank[n] => m = n
      /\ \A k \in D : \E n \in D : rank[n] = k
  BY RanksAreOrders
<1>2. \A n \in D : rank[n] = Cardinality(Ahead(entries, strategy, n)) + 1
  OBVIOUS
<1>3. \A k \in D : k \in Int
  BY DEF Sortable
<1> HIDE DEF rank
<1>4. \A k \in D : order[k] \in D /\ rank[order[k]] = k
  BY <1>1
<1>5. order \in [D -> D]
  BY <1>4
<1> HIDE DEF order
<1>6. ASSUME NEW j \in D, NEW k \in D, j < k
      PROVE  Before(entries, strategy, order[j], order[k])
  <2>1. rank[order[j]] = j /\ rank[order[k]] = k /\ order[j] \in D /\ order[k] \in D
    BY <1>4
  <2>2. order[j] # order[k]
    BY <1>3, <1>6, <2>1
  <2>3. ~Before(entries, strategy, order[k], order[j])
    <3> SUFFICES ASSUME Before(entries, strategy, order[k], order[j]) PROVE FALSE
      OBVIOUS
    <3>1. rank[order[k]] < rank[order[j]]
      BY <1>1, <2>1
    <3> QED
      BY <1>3, <1>6, <2>1, <3>1
  <2> QED
    BY <2>1, <2>2, <2>3, BeforeIsOrder
<1>7. order \in SortOrders(entries, strategy)
  BY <1>5, <1>6 DEF SortOrders
<1>8. ASSUME NEW other \in SortOrders(entries, strategy)
      PROVE  other = order
  <2>1. other \in [D -> D]
    BY DEF SortOrders
  <2>2. ASSUME NEW k \in D PROVE other[k] = order[k]
    <3>1. other[k] \in D /\ Cardinality(Ahead(entries, strategy, other[k])) = k - 1
      BY SortedRanks
    <3>2. rank[other[k]] = k
      BY <1>2, <1>3, <3>1
    <3> QED
      BY <1>1, <1>4, <3>1, <3>2
  <2> QED
    BY <1>5, <2>1, <2>2
<1> QED
  BY <1>7, <1>8

(***************************************************************************)
(* Sequences                                                               *)
(***************************************************************************)

LEMMA HeadTail ==
  ASSUME NEW S, NEW s \in Seq(S), s # <<>>
  PROVE  /\ Head(s) \in S /\ Tail(s) \in Seq(S)
         /\ Len(s) = 1 <=> Tail(s) = <<>>
<1>1. Head(s) \in S /\ Tail(s) \in Seq(S) /\ Len(s) \in Nat /\ Len(Tail(s)) = Len(s) - 1
  OBVIOUS
<1>2. Len(Tail(s)) = 0 <=> Tail(s) = <<>>
  BY <1>1, EmptySeq
<1> QED
  BY <1>1, <1>2

LEMMA TabulatedSeq ==
  ASSUME NEW S, NEW n \in Nat, NEW f \in [1..n -> S]
  PROVE  f \in Seq(S) /\ Len(f) = n
OBVIOUS

\* A member of Lists(S) is a non-empty sequence over S.
LEMMA ListsType ==
  ASSUME NEW S, NEW ids \in Lists(S)
  PROVE  \E n \in Nat \ {0} : ids \in [1..n -> S] /\ DOMAIN ids = 1..n
<1>1. PICK n \in 1..MaxList : ids \in [1..n -> S]
  BY DEF Lists
<1>2. n \in Nat \ {0} /\ DOMAIN ids = 1..n
  BY <1>1, BillingAssumption
<1> QED
  BY <1>1, <1>2

\* A reordered list of entries is a list of entries of the same length.
LEMMA SortedType ==
  ASSUME NEW entries \in Seq(ListEntry), NEW strategy \in Strategy,
         NEW order \in SortOrders(entries, strategy)
  PROVE  /\ Priced(Sorted(entries, order))
         /\ Len(Sorted(entries, order)) = Len(entries)
         /\ \A k \in 1..Len(Sorted(entries, order)) : Sorted(entries, order)[k].inv \in Invoice
<1>1. order \in [DOMAIN entries -> DOMAIN entries] /\ DOMAIN entries = 1..Len(entries)
  BY DEF SortOrders
<1>2. Sorted(entries, order) \in [1..Len(entries) -> ListEntry]
  BY <1>1 DEF Sorted
<1>3. Sorted(entries, order) \in Seq(ListEntry) /\ Len(Sorted(entries, order)) = Len(entries)
  BY <1>2, TabulatedSeq
<1> DEFINE sorted == Sorted(entries, order)
<1> HIDE DEF sorted
<1>4. sorted \in [1..Len(entries) -> ListEntry] /\ Len(sorted) = Len(entries) /\ Len(entries) \in Nat
  BY <1>2, <1>3 DEF sorted
<1>5. \A k \in 1..Len(sorted) : sorted[k] \in ListEntry
  BY <1>4
<1>6. \A k \in 1..Len(sorted) : sorted[k].total \in Int /\ sorted[k].inv \in Invoice
  BY <1>5 DEF ListEntry
<1> QED
  BY <1>4, <1>6 DEF Priced, sorted

(***************************************************************************)
(* The invoices that are written                                           *)
(***************************************************************************)

\* A credited invoice, field by field.
LEMMA CreditedType ==
  ASSUME NEW inv \in InvoiceRecord, NEW amount \in Int, NEW cur \in Currency
  PROVE  /\ WithCredit(inv, amount, cur) \in InvoiceRecord
         /\ WithCredit(inv, amount, cur).status = inv.status
         /\ WithCredit(inv, amount, cur).total = inv.total - amount
         /\ WithCredit(inv, amount, cur).cur # Mixed => inv.cur # Mixed
<1>1. inv.status \in InvoiceStatus /\ inv.total - amount \in Int /\ inv.cur \in AnyCurrency
  BY DEF InvoiceRecord
<1>2. WithCredit(inv, amount, cur) \in InvoiceRecord
  BY <1>1 DEF WithCredit, InvoiceRecord, AnyCurrency
<1> QED
  BY <1>2, BillingAssumption DEF WithCredit

(***************************************************************************)
(* Types, and what each value of pc says of the thread's other variables   *)
(***************************************************************************)

Phase(t) ==
  /\ pc[t] = "listed" => list[t] # <<>>
  /\ pc[t] = "apply" => todo[t] # <<>> /\ paying[t] # NoPayment
  /\ pc[t] = "cycle" => bills[t] # <<>>
  /\ pc[t] = "write" =>
       /\ pending[t] # NoInvoice
       /\ todo[t] # <<>> => paying[t] # NoPayment
       /\ pending[t].by = "payment" => paying[t] # NoPayment
  /\ pc[t] # "cycle" => bills[t] = <<>>
  /\ pc[t] \notin {"apply", "write"} => todo[t] = <<>>

TypeInv == TypeOK /\ \A t \in Thread : Phase(t)

LEMMA InitTypeInv == Init => TypeInv
<1> SUFFICES ASSUME Init PROVE TypeInv
  OBVIOUS
<1>1. invoices \in [Invoice -> InvoiceRecord \cup {NoInvoice}]
  <2>1. [status : SeedStatus, total : Charge, cur : Currency] \subseteq InvoiceRecord
    BY BillingAssumption DEF InvoiceRecord, InvoiceStatus, OutstandingStatus, AnyCurrency
  <2> QED
    BY <2>1 DEF Init
<1>2. charged \in [Invoice -> Int]
  <2> SUFFICES ASSUME NEW i \in Invoice, invoices[i] # NoInvoice PROVE invoices[i].total \in Int
    BY DEF Init
  <2> QED
    BY <1>1 DEF InvoiceRecord
<1>3. \A t \in Thread : Phase(t)
  BY DEF Init, Phase
<1> QED
  BY <1>1, <1>2, <1>3 DEF Init, TypeInv, TypeOK, PC

\* One step per action; what a thread does leaves the phase of the others alone.
LEMMA NextTypeInv == TypeInv /\ [Next]_vars => TypeInv'
<1> USE DEF TypeInv
<1> SUFFICES ASSUME TypeInv, [Next]_vars PROVE TypeInv'
  OBVIOUS
<1>1. ASSUME NEW t \in Thread, RunBillingCycle(t) PROVE TypeInv'
  <2>0. PICK ids \in Lists(FreshIds) : \E subs \in [DOMAIN ids -> Subscription] :
          bills' = [bills EXCEPT ![t] = [k \in DOMAIN ids |-> [inv |-> ids[k], sub |-> subs[k]]]]
    BY <1>1 DEF RunBillingCycle
  <2>1. PICK subs \in [DOMAIN ids -> Subscription] :
          bills' = [bills EXCEPT ![t] = [k \in DOMAIN ids |-> [inv |-> ids[k], sub |-> subs[k]]]]
    BY <2>0
  <2>2. PICK n \in Nat \ {0} : ids \in [1..n -> FreshIds] /\ DOMAIN ids = 1..n
    BY ListsType
  <2> DEFINE new == [k \in DOMAIN ids |-> [inv |-> ids[k], sub |-> subs[k]]]
  <2>3. new \in Seq(Bill) /\ Len(new) = n
    <3>1. new \in [1..n -> Bill]
      BY <2>2 DEF Bill, FreshIds
    <3> QED
      BY <3>1, TabulatedSeq
  <2> HIDE DEF new
  <2>4. bills' = [bills EXCEPT ![t] = new] /\ new # <<>>
    <3>1. Len(new) # 0
      BY <2>2, <2>3
    <3>2. new # <<>>
      BY <3>1
    <3> QED
      BY <2>1, <3>2 DEF new
  <2>5. TypeOK'
    <3>1. bills' \in [Thread -> Seq(Bill)]
      BY <2>3, <2>4 DEF TypeOK
    <3>2. pc' \in [Thread -> PC] /\ nextCall' \in Nat
      BY <1>1 DEF RunBillingCycle, CountCall, TypeOK, PC
    <3> QED
      BY <1>1, <3>1, <3>2 DEF RunBillingCycle, TypeOK, store, history
  <2>6. \A u \in Thread : Phase(u)'
    BY <1>1, <2>4 DEF RunBillingCycle, Phase, TypeOK, store, history
  <2> QED
    BY <2>5, <2>6
<1>2. ASSUME NEW t \in Thread, BillNext(t) PROVE TypeInv'
  <2> DEFINE bill == Head(bills[t])
  <2>1. bill \in Bill /\ Tail(bills[t]) \in Seq(Bill)
    BY <1>2, HeadTail DEF BillNext, Phase, TypeOK
  <2>2. bill.inv \in Invoice /\ bill.sub \in SubscriptionCopy
    BY <2>1, BillingAssumption DEF Bill
  <2>3. InvoiceTotal(bill.sub) \in Int /\ bill.sub.cur \in AnyCurrency
    BY <2>2 DEF InvoiceTotal, SubscriptionCopy, AnyCurrency
  <2>4. [status |-> "OPEN", total |-> InvoiceTotal(bill.sub), cur |-> bill.sub.cur]
          \in InvoiceRecord
    BY <2>3 DEF InvoiceRecord, InvoiceStatus, OutstandingStatus
  <2>5. /\ invoices' \in [Invoice -> InvoiceRecord \cup {NoInvoice}]
        /\ charged' \in [Invoice -> Int]
    BY <1>2, <2>2, <2>3, <2>4 DEF BillNext, TypeOK
  <2>6. bills' = [bills EXCEPT ![t] = Tail(bills[t])] /\ pc' \in [Thread -> PC]
    BY <1>2 DEF BillNext, TypeOK, PC
  <2>7. TypeOK'
    BY <1>2, <2>1, <2>5, <2>6 DEF BillNext, TypeOK
  <2>8. Len(bills[t]) = 1 <=> Tail(bills[t]) = <<>>
    <3>1. bills[t] \in Seq(Bill) /\ bills[t] # <<>>
      BY <1>2 DEF BillNext, Phase, TypeOK
    <3> QED
      BY <3>1, HeadTail
  <2>9. \A u \in Thread : Phase(u)'
    BY <1>2, <2>6, <2>8 DEF BillNext, Phase, TypeOK
  <2> QED
    BY <2>7, <2>9
<1>3. ASSUME NEW t \in Thread, FetchInvoices(t) PROVE TypeInv'
  <2> DEFINE Fetchable == {i \in Invoice : i \in Ghost \/ Outstanding(i)}
             fetched(ids, draft) == [k \in DOMAIN ids |-> Copy(ids[k], draft)]
  <2>1. PICK ids \in Lists(Fetchable), draft \in [total : Charge, cur : Currency] :
          list' = [list EXCEPT ![t] = fetched(ids, draft)]
    BY <1>3 DEF FetchInvoices
  <2>2. PICK n \in Nat \ {0} : ids \in [1..n -> Fetchable] /\ DOMAIN ids = 1..n
    BY ListsType
  <2>3. \A i \in Invoice : Copy(i, draft) \in ListEntry
    BY BillingAssumption DEF Copy, ListEntry, TypeOK, InvoiceRecord, AnyCurrency
  <2>4. fetched(ids, draft) \in Seq(ListEntry) /\ Len(fetched(ids, draft)) = n
    <3>1. fetched(ids, draft) \in [1..n -> ListEntry]
      BY <2>2, <2>3
    <3> QED
      BY <3>1, TabulatedSeq
  <2> HIDE DEF fetched
  <2>5. TypeOK'
    BY <1>3, <2>1, <2>4 DEF FetchInvoices, TypeOK, PC, store, history
  <2>6. \A u \in Thread : Phase(u)'
    <3>1. fetched(ids, draft) # <<>>
      BY <2>2, <2>4
    <3> QED
      BY <1>3, <2>1, <3>1 DEF FetchInvoices, Phase, TypeOK
  <2> QED
    BY <2>5, <2>6
<1>4. ASSUME NEW t \in Thread, RejectPayment(t) PROVE TypeInv'
  <2>1. TypeOK'
    BY <1>4 DEF RejectPayment, TypeOK, PC, store, history
  <2>2. \A u \in Thread : Phase(u)'
    BY <1>4 DEF RejectPayment, Phase, TypeOK
  <2> QED
    BY <2>1, <2>2
<1>5. ASSUME NEW t \in Thread, RecordPayment(t) PROVE TypeInv'
  <2>01. PICK amount \in PayAmount, cur \in Currency, strategy \in Strategy :
           \E order \in SortOrders(list[t], strategy) :
             LET payment == [id |-> nextCall, inv |-> list[t][1].inv, amount |-> amount, cur |-> cur]
             IN /\ payments' = AddPayment(PaymentKey(payment), payment)
                /\ paying' = [paying EXCEPT ![t] = [id |-> nextCall, key |-> PaymentKey(payment), cur |-> cur]]
                /\ todo' = [todo EXCEPT ![t] = Allocations(amount, Sorted(list[t], order))]
    BY <1>5, Zenon DEF RecordPayment
  <2>02. PICK order \in SortOrders(list[t], strategy) :
           LET payment == [id |-> nextCall, inv |-> list[t][1].inv, amount |-> amount, cur |-> cur]
           IN /\ payments' = AddPayment(PaymentKey(payment), payment)
              /\ paying' = [paying EXCEPT ![t] = [id |-> nextCall, key |-> PaymentKey(payment), cur |-> cur]]
              /\ todo' = [todo EXCEPT ![t] = Allocations(amount, Sorted(list[t], order))]
    BY <2>01, Zenon
  <2>03. PaymentKey([id |-> nextCall, inv |-> list[t][1].inv, amount |-> amount, cur |-> cur]) = list[t][1].inv
    BY DEF PaymentKey
  <2>1. /\ payments' = AddPayment(list[t][1].inv,
             [id |-> nextCall, inv |-> list[t][1].inv, amount |-> amount, cur |-> cur])
        /\ paying' = [paying EXCEPT ![t] =
             [id |-> nextCall, key |-> list[t][1].inv, cur |-> cur]]
        /\ todo' = [todo EXCEPT ![t] = Allocations(amount, Sorted(list[t], order))]
    BY <2>02, <2>03
  <2> DEFINE key == list[t][1].inv
             payment == [id |-> nextCall, inv |-> key, amount |-> amount, cur |-> cur]
             paid == [id |-> nextCall, key |-> key, cur |-> cur]
             allocs == Allocations(amount, Sorted(list[t], order))
  <2>2. amount \in Int /\ nextCall \in Nat
    BY BillingAssumption DEF TypeOK
  <2>3. list[t] \in Seq(ListEntry) /\ list[t] # <<>>
    BY <1>5 DEF RecordPayment, Phase, TypeOK
  <2>4. key \in Invoice
    <3>1. list[t][1] \in ListEntry
      BY <2>3
    <3> QED
      BY <3>1 DEF ListEntry, key
  <2>5. payment \in PaymentRecord /\ paid \in Paying /\ paid # NoPayment
    BY <2>2, <2>4, BillingAssumption DEF PaymentRecord, Paying
  <2>6. allocs \in Seq(Allocation) /\ allocs # <<>>
    <3>1. Len(Sorted(list[t], order)) = Len(list[t]) /\ Len(list[t]) \in Nat /\ Len(list[t]) # 0
      BY <2>3, SortedType
    <3>2. allocs \in Seq(Allocation) /\ Len(allocs) = Len(list[t])
      <4> DEFINE sorted == Sorted(list[t], order)
      <4>1. Priced(sorted) /\ \A k \in 1..Len(sorted) : sorted[k].inv \in Invoice
        BY <2>3, SortedType
      <4> HIDE DEF sorted
      <4>2. /\ Allocations(amount, sorted) \in Seq([inv : Invoice, amount : Int])
            /\ Len(Allocations(amount, sorted)) = Len(sorted)
        BY <2>2, <4>1, AllocationsType
      <4> QED
        BY <3>1, <4>2 DEF Allocation, sorted
    <3> QED
      BY <3>1, <3>2
  <2> HIDE DEF allocs, payment, paid, key
  <2>7. /\ payments' = [payments EXCEPT ![key] = payment]
        /\ paying' = [paying EXCEPT ![t] = paid]
        /\ todo' = [todo EXCEPT ![t] = allocs]
    BY <2>1 DEF AddPayment, allocs, payment, paid, key
  <2>8. TypeOK'
    <3>1. /\ list' = [list EXCEPT ![t] = <<>>]
          /\ pc' = [pc EXCEPT ![t] = "apply"]
          /\ nextCall' = nextCall + 1
          /\ UNCHANGED <<invoices, pending, bills, applied, charged, credited, clobbered>>
      BY <1>5 DEF RecordPayment, CountCall, history
    <3>2. payments' \in [Invoice -> PaymentRecord \cup {NoPayment}]
      BY <2>4, <2>5, <2>7 DEF TypeOK
    <3>3. /\ paying' \in [Thread -> Paying \cup {NoPayment}]
          /\ todo' \in [Thread -> Seq(Allocation)]
      BY <2>5, <2>6, <2>7 DEF TypeOK
    <3>4. /\ list' \in [Thread -> Seq(ListEntry)]
          /\ pc' \in [Thread -> PC]
          /\ nextCall' \in Nat
      BY <3>1 DEF TypeOK, PC
    <3> QED
      BY <3>1, <3>2, <3>3, <3>4 DEF TypeOK
  <2>9. \A u \in Thread : Phase(u)'
    BY <1>5, <2>5, <2>6, <2>7 DEF RecordPayment, Phase, TypeOK
  <2> QED
    BY <2>8, <2>9
<1>6. ASSUME NEW t \in Thread, SkipAllocation(t) PROVE TypeInv'
  <2> DEFINE rest == Tail(todo[t])
  <2>1. rest \in Seq(Allocation)
    BY <1>6, HeadTail DEF SkipAllocation, Phase, TypeOK
  <2>2. /\ todo' = [todo EXCEPT ![t] = rest]
        /\ pc' = [pc EXCEPT ![t] = IF rest = <<>> THEN "idle" ELSE "apply"]
        /\ paying' = [paying EXCEPT ![t] = IF rest = <<>> THEN NoPayment ELSE @]
        /\ UNCHANGED <<store, list, pending, bills, nextCall, history>>
    BY <1>6 DEF SkipAllocation, Continue
  <2> HIDE DEF rest
  <2>3. TypeOK'
    BY <2>1, <2>2 DEF TypeOK, PC, store, history
  <2>4. \A u \in Thread : Phase(u)'
    BY <1>6, <2>2 DEF SkipAllocation, Phase, TypeOK, store, history
  <2> QED
    BY <2>3, <2>4
<1>7. ASSUME NEW t \in Thread, ReadForPayment(t) PROVE TypeInv'
  <2> DEFINE alloc == Head(todo[t])
             inv == invoices[alloc.inv]
             new == [inv |-> alloc.inv, read |-> inv, by |-> "payment", amount |-> alloc.amount,
                     write |-> [inv EXCEPT !.status =
                       IF Settles(alloc.amount, inv) THEN "PAID" ELSE "PARTIALLY_PAID"]]
  <2>1. alloc \in Allocation /\ Tail(todo[t]) \in Seq(Allocation)
    BY <1>7, HeadTail DEF ReadForPayment, Phase, TypeOK
  <2>2. inv \in InvoiceRecord
    BY <1>7, <2>1 DEF ReadForPayment, TypeOK, Allocation
  <2>3. new \in Pending /\ new # NoInvoice
    <3>1. new.write \in InvoiceRecord
      BY <2>2 DEF InvoiceRecord, InvoiceStatus, OutstandingStatus
    <3>2. new \in Pending
      BY <2>1, <2>2, <3>1 DEF Pending, Allocation
    <3> QED
      BY <3>2, BillingAssumption
  <2>4. new.by = "payment"
    OBVIOUS
  <2> HIDE DEF new
  <2>5. /\ pending' = [pending EXCEPT ![t] = new]
        /\ todo' = [todo EXCEPT ![t] = Tail(todo[t])]
        /\ pc' = [pc EXCEPT ![t] = "write"]
        /\ UNCHANGED <<store, list, paying, bills, nextCall, history>>
    BY <1>7 DEF ReadForPayment, new
  <2>6. TypeOK'
    BY <2>1, <2>3, <2>5 DEF TypeOK, PC, store, history
  <2>7. /\ pc'[t] = "write" /\ pending'[t] = new /\ todo'[t] = Tail(todo[t])
        /\ paying'[t] = paying[t] /\ bills'[t] = bills[t]
    BY <2>5 DEF TypeOK
  <2>8. paying[t] # NoPayment /\ bills[t] = <<>>
    BY <1>7 DEF ReadForPayment, Phase
  <2>9. Phase(t)'
    BY <2>3, <2>4, <2>7, <2>8 DEF Phase
  <2>10. ASSUME NEW u \in Thread \ {t} PROVE Phase(u)'
    <3>1. /\ pc'[u] = pc[u] /\ pending'[u] = pending[u] /\ todo'[u] = todo[u]
          /\ UNCHANGED <<list, paying, bills>>
      BY <2>5, <2>10 DEF TypeOK
    <3> QED
      BY <3>1 DEF Phase
  <2>11. \A u \in Thread : Phase(u)'
    BY <2>9, <2>10
  <2> QED
    BY <2>6, <2>11
<1>8. ASSUME NEW t \in Thread, AbortPayment(t) PROVE TypeInv'
  <2>1. TypeOK'
    BY <1>8 DEF AbortPayment, Continue, TypeOK, PC, store, history
  <2>2. \A u \in Thread : Phase(u)'
    BY <1>8 DEF AbortPayment, Continue, Phase, TypeOK, store, history
  <2> QED
    BY <2>1, <2>2
<1>9. ASSUME NEW t \in Thread, NEW i \in Invoice, ReadForVoid(t, i) PROVE TypeInv'
  <2> DEFINE new == [inv |-> i, read |-> invoices[i], by |-> "void", amount |-> 0,
                     write |-> Voided(invoices[i])]
  <2>1. new \in Pending /\ new # NoInvoice
    <3>1. invoices[i] \in InvoiceRecord
      BY <1>9 DEF ReadForVoid, TypeOK
    <3>2. Voided(invoices[i]) \in InvoiceRecord
      BY <3>1 DEF Voided, InvoiceRecord, InvoiceStatus
    <3>3. new \in Pending
      BY <3>1, <3>2 DEF Pending
    <3> QED
      BY <3>3, BillingAssumption
  <2>2. new.by = "void"
    OBVIOUS
  <2> HIDE DEF new
  <2>3. /\ pending' = [pending EXCEPT ![t] = new]
        /\ pc' = [pc EXCEPT ![t] = "write"]
        /\ nextCall' = nextCall + 1
        /\ UNCHANGED <<store, list, paying, todo, bills, history>>
    BY <1>9 DEF ReadForVoid, CountCall, new
  <2>4. TypeOK'
    BY <2>1, <2>3 DEF TypeOK, PC, store, history
  <2>5. \A u \in Thread : Phase(u)'
    BY <1>9, <2>1, <2>2, <2>3 DEF ReadForVoid, Phase, TypeOK, store, history
  <2> QED
    BY <2>4, <2>5
<1>10. ASSUME NEW t \in Thread, NEW i \in Invoice, ReadForCredit(t, i) PROVE TypeInv'
  <2>1. PICK amount \in CreditAmount, cur \in Currency :
          pending' = [pending EXCEPT ![t] =
            [inv |-> i, read |-> invoices[i], by |-> "credit", amount |-> amount,
             write |-> WithCredit(invoices[i], amount, cur)]]
    BY <1>10 DEF ReadForCredit
  <2> DEFINE new == [inv |-> i, read |-> invoices[i], by |-> "credit", amount |-> amount,
                     write |-> WithCredit(invoices[i], amount, cur)]
  <2>2. new \in Pending /\ new # NoInvoice
    <3>1. invoices[i] \in InvoiceRecord /\ amount \in Int
      BY <1>10, BillingAssumption DEF ReadForCredit, TypeOK
    <3>2. WithCredit(invoices[i], amount, cur) \in InvoiceRecord
      BY <3>1, CreditedType
    <3>3. new \in Pending
      BY <3>1, <3>2 DEF Pending
    <3> QED
      BY <3>3, BillingAssumption
  <2>3. new.by = "credit"
    OBVIOUS
  <2> HIDE DEF new
  <2>4. /\ pending' = [pending EXCEPT ![t] = new]
        /\ pc' = [pc EXCEPT ![t] = "write"]
        /\ nextCall' = nextCall + 1
        /\ UNCHANGED <<store, list, paying, todo, bills, history>>
    BY <1>10, <2>1 DEF ReadForCredit, CountCall, new
  <2>5. TypeOK'
    BY <2>2, <2>4 DEF TypeOK, PC, store, history
  <2>6. \A u \in Thread : Phase(u)'
    BY <1>10, <2>2, <2>3, <2>4 DEF ReadForCredit, Phase, TypeOK, store, history
  <2> QED
    BY <2>5, <2>6
<1>11. ASSUME NEW t \in Thread, Update(t) PROVE TypeInv'
  <2> DEFINE p == pending[t]
  <2>1. p \in Pending
    BY <1>11 DEF Update, Phase, TypeOK
  <2>2. p.inv \in Invoice /\ p.write \in InvoiceRecord /\ p.amount \in Int
    BY <2>1 DEF Pending
  <2>3. invoices' \in [Invoice -> InvoiceRecord \cup {NoInvoice}]
    BY <1>11, <2>2 DEF Update, TypeOK
  <2>4. applied' \in [Invoice -> SUBSET Applied]
    <3>1. p.by = "payment" => [id |-> paying[t].id, key |-> paying[t].key, amount |-> p.amount] \in Applied
      <4>1. p.by = "payment" => paying[t] \in Paying
        BY <1>11 DEF Update, Phase, TypeOK
      <4> QED
        BY <2>2, <4>1 DEF Paying, Applied
    <3> QED
      BY <1>11, <2>2, <3>1 DEF Update, TypeOK
  <2>5. credited' \in [Invoice -> Int] /\ clobbered' \in SUBSET Invoice
    BY <1>11, <2>2 DEF Update, TypeOK
  <2>6. /\ pc' = [pc EXCEPT ![t] = IF todo[t] = <<>> THEN "idle" ELSE "apply"]
        /\ paying' = [paying EXCEPT ![t] = IF todo[t] = <<>> THEN NoPayment ELSE @]
        /\ pending' = [pending EXCEPT ![t] = NoInvoice]
        /\ UNCHANGED <<payments, list, todo, bills, nextCall, charged>>
    BY <1>11 DEF Update, Continue
  <2>7. pc' \in [Thread -> PC] /\ paying' \in [Thread -> Paying \cup {NoPayment}]
        /\ pending' \in [Thread -> Pending \cup {NoInvoice}]
    BY <2>6 DEF TypeOK, PC
  <2>8. TypeOK'
    BY <2>3, <2>4, <2>5, <2>6, <2>7 DEF TypeOK
  <2>9. \A u \in Thread : Phase(u)'
    BY <1>11, <2>6 DEF Update, Phase, TypeOK
  <2> QED
    BY <2>8, <2>9
<1>12. CASE UNCHANGED vars
  BY <1>12 DEF vars, TypeOK, Phase
<1> QED
  BY <1>1, <1>2, <1>3, <1>4, <1>5, <1>6, <1>7, <1>8, <1>9, <1>10, <1>11, <1>12
     DEF Next, InCall

\* Every variable keeps its type: in particular a status is always a member of
\* InvoiceStatus and every repository entry is whole.
THEOREM TypeCorrect == Spec => []TypeOK
<1>1. Init => TypeInv
  BY InitTypeInv
<1>2. TypeInv /\ [Next]_vars => TypeInv'
  BY NextTypeInv
<1>3. TypeInv => TypeOK
  BY DEF TypeInv
<1> QED
  BY <1>1, <1>2, <1>3, PTL DEF Spec

(***************************************************************************)
(* What a pending write may do to an invoice                               *)
(***************************************************************************)

\* The invoice about to be written differs from the one that was read only as the
\* call that writes it intends, and that call's guard held of the one that was read.
PendingWrite(t) ==
  pc[t] = "write" =>
    LET p == pending[t] IN
    /\ p.read.status \in {"PAID", "PARTIALLY_PAID"} => applied[p.inv] # {}
    /\ p.by = "payment" =>
         /\ p.write.total = p.read.total /\ p.write.cur = p.read.cur
         /\ p.write.status \in {"PAID", "PARTIALLY_PAID"}
         /\ p.write.status = "PAID" => p.amount >= p.write.total
    /\ p.by = "void" =>
         /\ p.read.status \notin {"PAID", "VOIDED"}
         /\ p.write.total = p.read.total /\ p.write.cur = p.read.cur
         /\ p.write.status = "VOIDED"
    /\ p.by = "credit" =>
         /\ p.read.status \in {"OPEN", "PARTIALLY_PAID"}
         /\ p.write.total = p.read.total - p.amount
         /\ p.write.cur # Mixed => p.read.cur # Mixed
         /\ p.write.status = p.read.status

\* A payment status is backed by an applied allocation, in the repository and in
\* what is about to be written to it.
WriteInv ==
  /\ \A t \in Thread : PendingWrite(t)
  /\ \A i \in Invoice :
       invoices[i] # NoInvoice /\ invoices[i].status \in {"PAID", "PARTIALLY_PAID"}
         => applied[i] # {}

\* Only the billing loop and invoices.update touch invoices and their history.
LEMMA InvoiceSteps ==
  ASSUME [Next]_vars
  PROVE  \/ \E t \in Thread : BillNext(t)
         \/ \E t \in Thread : Update(t)
         \/ UNCHANGED <<invoices, applied, charged, credited, clobbered>>
<1>1. CASE UNCHANGED vars
  BY <1>1 DEF vars
<1>2. ASSUME NEW t \in Thread,
             \/ RunBillingCycle(t) \/ FetchInvoices(t) \/ RejectPayment(t) \/ RecordPayment(t)
             \/ SkipAllocation(t) \/ ReadForPayment(t) \/ AbortPayment(t)
             \/ \E i \in Invoice : ReadForVoid(t, i) \/ ReadForCredit(t, i)
      PROVE  UNCHANGED <<invoices, applied, charged, credited, clobbered>>
  BY <1>2 DEF RunBillingCycle, FetchInvoices, RejectPayment, RecordPayment, SkipAllocation,
              ReadForPayment, AbortPayment, ReadForVoid, ReadForCredit, store, history
<1> QED
  BY <1>1, <1>2 DEF Next, InCall

\* What the two steps that touch invoices find and leave, in terms of types.
LEMMA UpdateType ==
  ASSUME TypeInv, NEW t \in Thread, Update(t)
  PROVE  LET p == pending[t] IN
         /\ pc[t] = "write" /\ p \in Pending /\ p.inv \in Invoice
         /\ p.read \in InvoiceRecord /\ p.write \in InvoiceRecord /\ p.amount \in Int
         /\ p.by \in {"payment", "void", "credit"}
         /\ invoices' = [invoices EXCEPT ![p.inv] = p.write]
         /\ invoices[p.inv] # NoInvoice /\ p.write # NoInvoice
<1>1. pc[t] = "write" /\ pending[t] \in Pending
  BY DEF Update, TypeInv, Phase, TypeOK
<1> QED
  BY <1>1, BillingAssumption DEF Update, Pending

LEMMA BillNextType ==
  ASSUME TypeInv, NEW t \in Thread, BillNext(t)
  PROVE  /\ pc[t] = "cycle" /\ bills[t] \in Seq(Bill) /\ bills[t] # <<>>
         /\ Head(bills[t]) \in Bill /\ Head(bills[t]).inv \in Invoice
         /\ InvoiceTotal(Head(bills[t]).sub) \in Int /\ Head(bills[t]).sub.cur \in Currency
<1>1. bills[t] \in Seq(Bill) /\ bills[t] # <<>> /\ pc[t] = "cycle"
  BY DEF BillNext, TypeInv, Phase, TypeOK
<1>2. Head(bills[t]) \in Bill
  BY <1>1, HeadTail
<1>3. Head(bills[t]).inv \in Invoice /\ Head(bills[t]).sub \in SubscriptionCopy
  BY <1>2, BillingAssumption DEF Bill
<1> QED
  BY <1>1, <1>2, <1>3 DEF InvoiceTotal, SubscriptionCopy

LEMMA InitWriteInv == Init => WriteInv
<1> SUFFICES ASSUME Init PROVE WriteInv
  OBVIOUS
<1>1. \A t \in Thread : PendingWrite(t)
  BY DEF Init, PendingWrite
<1>2. ASSUME NEW i \in Invoice, invoices[i] # NoInvoice
      PROVE  invoices[i].status \notin {"PAID", "PARTIALLY_PAID"}
  <2>1. invoices[i] \in [status : SeedStatus, total : Charge, cur : Currency]
    BY <1>2 DEF Init
  <2>2. invoices[i].status \in {"DRAFT", "OPEN", "OVERDUE"}
    BY <2>1, BillingAssumption
  <2> QED
    BY <2>2
<1> QED
  BY <1>1, <1>2 DEF WriteInv

LEMMA NextWriteInv == TypeInv /\ WriteInv /\ [Next]_vars => WriteInv'
<1> SUFFICES ASSUME TypeInv, WriteInv, [Next]_vars PROVE WriteInv'
  OBVIOUS
<1>1. ASSUME NEW t \in Thread, BillNext(t) PROVE WriteInv'
  <2>1. \A u \in Thread : PendingWrite(u)'
    <3>1. pc'[t] # "write" /\ \A u \in Thread : u # t => pc'[u] = pc[u]
      BY <1>1 DEF BillNext, TypeInv, TypeOK
    <3>2. UNCHANGED <<pending, applied>>
      BY <1>1 DEF BillNext
    <3> QED
      BY <3>1, <3>2 DEF WriteInv, PendingWrite
  <2>2. ASSUME NEW i \in Invoice, invoices'[i] # NoInvoice,
               invoices'[i].status \in {"PAID", "PARTIALLY_PAID"}
        PROVE  applied'[i] # {}
    <3>1. applied' = applied
      BY <1>1 DEF BillNext
    <3>2. invoices'[i] = invoices[i]
      BY <1>1, <2>2 DEF BillNext, TypeInv, TypeOK
    <3> QED
      BY <2>2, <3>1, <3>2 DEF WriteInv
  <2> QED
    BY <2>1, <2>2 DEF WriteInv
<1>2. ASSUME NEW t \in Thread, Update(t) PROVE WriteInv'
  <2> DEFINE p == pending[t]
  <2>1. /\ pc[t] = "write" /\ p.inv \in Invoice /\ p.by \in {"payment", "void", "credit"}
        /\ invoices' = [invoices EXCEPT ![p.inv] = p.write]
        /\ p.write # NoInvoice
    BY <1>2, UpdateType
  <2>2. PendingWrite(t)
    BY DEF WriteInv
  <2>3. \A i \in Invoice : applied[i] # {} => applied'[i] # {}
    BY <1>2, <2>1 DEF Update, TypeInv, TypeOK
  <2>4. p.by = "payment" => applied'[p.inv] # {}
    BY <1>2, <2>1 DEF Update, TypeInv, TypeOK
  <2>5. \A u \in Thread : PendingWrite(u)'
    <3> SUFFICES ASSUME NEW u \in Thread, pc'[u] = "write" PROVE PendingWrite(u)'
      BY DEF PendingWrite
    <3>1. u # t /\ pc[u] = "write" /\ pending'[u] = pending[u]
      BY <1>2 DEF Update, Continue, TypeInv, TypeOK
    <3>2. pending[u].inv \in Invoice
      BY <3>1 DEF TypeInv, Phase, TypeOK, Pending
    <3> QED
      BY <2>3, <3>1, <3>2 DEF WriteInv, PendingWrite
  <2>6. ASSUME NEW i \in Invoice, invoices'[i] # NoInvoice,
               invoices'[i].status \in {"PAID", "PARTIALLY_PAID"}
        PROVE  applied'[i] # {}
    <3>1. CASE i # p.inv
      <4>1. invoices'[i] = invoices[i]
        BY <2>1, <3>1 DEF TypeInv, TypeOK
      <4> QED
        BY <2>3, <2>6, <4>1 DEF WriteInv
    <3>2. CASE i = p.inv
      <4>1. invoices'[i] = p.write
        BY <2>1, <3>2 DEF TypeInv, TypeOK
      <4>2. CASE p.by = "payment"
        BY <2>4, <3>2, <4>2
      <4>3. CASE p.by = "void"
        BY <2>1, <2>2, <2>6, <4>1, <4>3 DEF PendingWrite
      <4>4. CASE p.by = "credit"
        <5>1. p.read.status \in {"PAID", "PARTIALLY_PAID"}
          BY <2>1, <2>2, <2>6, <4>1, <4>4 DEF PendingWrite
        <5> QED
          BY <2>1, <2>2, <2>3, <3>2, <5>1 DEF PendingWrite
      <4> QED
        BY <2>1, <4>2, <4>3, <4>4
    <3> QED
      BY <3>1, <3>2
  <2> QED
    BY <2>5, <2>6 DEF WriteInv
<1>3. ASSUME UNCHANGED <<invoices, applied>>,
             \A u \in Thread : pc'[u] = "write" => pc[u] = "write" /\ pending'[u] = pending[u]
      PROVE  WriteInv'
  BY <1>3 DEF WriteInv, PendingWrite
<1>4. ASSUME UNCHANGED <<invoices, applied>>, NEW t \in Thread, PendingWrite(t)',
             \A u \in Thread \ {t} : pc'[u] = pc[u] /\ pending'[u] = pending[u]
      PROVE  WriteInv'
  <2>1. ASSUME NEW u \in Thread, u # t PROVE PendingWrite(u)'
    <3>1. PendingWrite(u) /\ pc'[u] = pc[u] /\ pending'[u] = pending[u]
      BY <1>4, <2>1 DEF WriteInv
    <3> QED
      BY <1>4, <3>1 DEF PendingWrite
  <2> QED
    BY <1>4, <2>1 DEF WriteInv
<1>5. ASSUME NEW t \in Thread, ReadForPayment(t) PROVE WriteInv'
  <2> DEFINE alloc == Head(todo[t])
             inv == invoices[alloc.inv]
  <2>1. alloc.inv \in Invoice
    <3>1. alloc \in Allocation
      BY <1>5, HeadTail DEF ReadForPayment, TypeInv, Phase, TypeOK
    <3> QED
      BY <3>1 DEF Allocation
  <2>2. inv # NoInvoice /\ inv \in InvoiceRecord
    BY <1>5, <2>1 DEF ReadForPayment, TypeInv, TypeOK
  <2>3. inv.status \in {"PAID", "PARTIALLY_PAID"} => applied[alloc.inv] # {}
    BY <2>1, <2>2 DEF WriteInv
  <2>4. pending'[t] = [inv |-> alloc.inv, read |-> inv, by |-> "payment", amount |-> alloc.amount,
                      write |-> [inv EXCEPT !.status =
                        IF alloc.amount >= inv.total THEN "PAID" ELSE "PARTIALLY_PAID"]]
    BY <1>5 DEF ReadForPayment, Settles, TypeInv, TypeOK
  <2>5. UNCHANGED <<invoices, applied>>
        /\ \A u \in Thread \ {t} : pc'[u] = pc[u] /\ pending'[u] = pending[u]
    BY <1>5 DEF ReadForPayment, TypeInv, TypeOK, store, history
  <2>6. PendingWrite(t)'
    BY <2>2, <2>3, <2>4, <2>5 DEF PendingWrite, InvoiceRecord
  <2> QED
    BY <1>4, <2>5, <2>6
<1>6. ASSUME NEW t \in Thread, NEW i \in Invoice, ReadForVoid(t, i) PROVE WriteInv'
  <2>1. invoices[i] # NoInvoice /\ invoices[i] \in InvoiceRecord
    BY <1>6 DEF ReadForVoid, TypeInv, TypeOK
  <2>2. UNCHANGED <<invoices, applied>>
        /\ \A u \in Thread \ {t} : pc'[u] = pc[u] /\ pending'[u] = pending[u]
    BY <1>6 DEF ReadForVoid, TypeInv, TypeOK, store, history
  <2>3. pending'[t] = [inv |-> i, read |-> invoices[i], by |-> "void", amount |-> 0,
                      write |-> [invoices[i] EXCEPT !.status = "VOIDED"]]
    BY <1>6 DEF ReadForVoid, Voided, TypeInv, TypeOK
  <2>4. invoices[i].status \notin {"PAID", "VOIDED"}
    BY <1>6 DEF ReadForVoid, Voidable
  <2>5. PendingWrite(t)'
    BY <2>1, <2>2, <2>3, <2>4 DEF PendingWrite, WriteInv, InvoiceRecord
  <2> QED
    BY <1>4, <2>2, <2>5
<1>7. ASSUME NEW t \in Thread, NEW i \in Invoice, ReadForCredit(t, i) PROVE WriteInv'
  <2>1. invoices[i] # NoInvoice /\ invoices[i] \in InvoiceRecord
    BY <1>7 DEF ReadForCredit, TypeInv, TypeOK
  <2>2. UNCHANGED <<invoices, applied>>
        /\ \A u \in Thread \ {t} : pc'[u] = pc[u] /\ pending'[u] = pending[u]
    BY <1>7 DEF ReadForCredit, TypeInv, TypeOK, store, history
  <2>3. PICK amount \in CreditAmount, cur \in Currency :
          pending'[t] = [inv |-> i, read |-> invoices[i], by |-> "credit", amount |-> amount,
                        write |-> WithCredit(invoices[i], amount, cur)]
    BY <1>7 DEF ReadForCredit, TypeInv, TypeOK
  <2>4. invoices[i].status \in {"OPEN", "PARTIALLY_PAID"}
    BY <1>7 DEF ReadForCredit, Creditable
  <2> DEFINE new == WithCredit(invoices[i], amount, cur)
  <2>5. /\ new.status = invoices[i].status
        /\ new.total = invoices[i].total - amount
        /\ new.cur # Mixed => invoices[i].cur # Mixed
    BY <2>1, CreditedType, BillingAssumption
  <2> HIDE DEF new
  <2>6. pending'[t] = [inv |-> i, read |-> invoices[i], by |-> "credit", amount |-> amount,
                      write |-> new]
    BY <2>3 DEF new
  <2>7. PendingWrite(t)'
    BY <2>1, <2>2, <2>4, <2>5, <2>6 DEF PendingWrite, WriteInv
  <2> QED
    BY <1>4, <2>2, <2>7
<1>8. ASSUME NEW t \in Thread,
             \/ RunBillingCycle(t) \/ FetchInvoices(t) \/ RejectPayment(t) \/ RecordPayment(t)
             \/ SkipAllocation(t) \/ AbortPayment(t)
      PROVE  WriteInv'
  <2>1. UNCHANGED <<invoices, applied, pending>>
    BY <1>8 DEF RunBillingCycle, FetchInvoices, RejectPayment, RecordPayment, SkipAllocation,
                AbortPayment, store, history
  <2>2. \A u \in Thread : pc'[u] = "write" => pc[u] = "write"
    BY <1>8 DEF RunBillingCycle, FetchInvoices, RejectPayment, RecordPayment, SkipAllocation,
                AbortPayment, Continue, TypeInv, TypeOK
  <2> QED
    BY <1>3, <2>1, <2>2
<1>9. CASE UNCHANGED vars
  BY <1>3, <1>9 DEF vars
<1> QED
  BY <1>1, <1>2, <1>5, <1>6, <1>7, <1>8, <1>9 DEF Next, InCall

(***************************************************************************)
(* A PAID invoice is covered                                               *)
(***************************************************************************)

LEMMA NextPaidIsCovered ==
  ASSUME TypeInv, WriteInv, PaidIsCovered, [Next]_vars
  PROVE  PaidIsCovered'
<1> SUFFICES ASSUME NEW i \in Invoice, invoices'[i] # NoInvoice, invoices'[i].status = "PAID"
             PROVE  \E a \in applied'[i] : a.amount >= invoices'[i].total
  BY DEF PaidIsCovered
<1>1. ASSUME NEW t \in Thread, BillNext(t)
      PROVE  \E a \in applied'[i] : a.amount >= invoices'[i].total
  <2>1. applied' = applied /\ invoices'[i] = invoices[i]
    BY <1>1 DEF BillNext, TypeInv, TypeOK
  <2> QED
    BY <2>1 DEF PaidIsCovered
<1>2. ASSUME NEW t \in Thread, Update(t)
      PROVE  \E a \in applied'[i] : a.amount >= invoices'[i].total
  <2> DEFINE p == pending[t]
             mine == [id |-> paying[t].id, key |-> paying[t].key, amount |-> p.amount]
  <2>1. /\ pc[t] = "write" /\ p.inv \in Invoice /\ p.by \in {"payment", "void", "credit"}
        /\ invoices' = [invoices EXCEPT ![p.inv] = p.write]
    BY <1>2, UpdateType
  <2>2. PendingWrite(t)
    BY DEF WriteInv
  <2>3. applied[i] \subseteq applied'[i]
    BY <1>2, <2>1 DEF Update, TypeInv, TypeOK
  <2>4. CASE i # p.inv
    <3>1. invoices'[i] = invoices[i]
      BY <2>1, <2>4 DEF TypeInv, TypeOK
    <3> QED
      BY <2>3, <3>1 DEF PaidIsCovered
  <2>5. CASE i = p.inv
    <3>1. p.write.status = "PAID" /\ invoices'[i] = p.write
      BY <2>1, <2>5 DEF TypeInv, TypeOK
    <3>2. p.by = "payment" /\ p.amount >= p.write.total
      BY <2>1, <2>2, <3>1 DEF PendingWrite
    <3>3. mine \in applied'[i] /\ mine.amount = p.amount
      BY <1>2, <2>1, <2>5, <3>2 DEF Update, TypeInv, TypeOK
    <3> QED
      BY <3>1, <3>2, <3>3
  <2> QED
    BY <2>4, <2>5
<1> QED
  BY <1>1, <1>2, InvoiceSteps DEF PaidIsCovered

\* No interleaving of payments, voids and credit notes shows an invoice as PAID
\* that no single allocation covered.
THEOREM PaidCovered == Spec => []PaidIsCovered
<1> DEFINE Inv == TypeInv /\ WriteInv /\ PaidIsCovered
<1>1. Init => Inv
  <2>1. Init => PaidIsCovered
    BY InitWriteInv DEF WriteInv, PaidIsCovered, Init
  <2> QED
    BY <2>1, InitTypeInv, InitWriteInv
<1>2. Inv /\ [Next]_vars => Inv'
  BY NextTypeInv, NextWriteInv, NextPaidIsCovered
<1>3. Inv => PaidIsCovered
  OBVIOUS
<1> HIDE DEF Inv
<1> QED
  BY <1>1, <1>2, <1>3, PTL DEF Spec

(***************************************************************************)
(* PAID and VOIDED are final, up to lost updates                           *)
(***************************************************************************)

LEMMA StepFinalStatusKept ==
  ASSUME TypeInv, WriteInv, [Next]_vars, NEW i \in Invoice,
         invoices[i] # NoInvoice, invoices[i].status \in {"PAID", "VOIDED"},
         invoices'[i] # invoices[i],
         \A t \in Thread : BillNext(t) => Head(bills[t]).inv # i
  PROVE  Writing(i, "payment") \/ StaleWrite(i)
<1>1. ASSUME NEW t \in Thread, BillNext(t) PROVE FALSE
  BY <1>1 DEF BillNext, TypeInv, TypeOK
<1>2. ASSUME NEW t \in Thread, Update(t)
      PROVE  Writing(i, "payment") \/ StaleWrite(i)
  <2> DEFINE p == pending[t]
  <2>1. /\ pc[t] = "write" /\ p.inv \in Invoice /\ p.by \in {"payment", "void", "credit"}
        /\ invoices' = [invoices EXCEPT ![p.inv] = p.write]
    BY <1>2, UpdateType
  <2>2. i = p.inv
    BY <2>1 DEF TypeInv, TypeOK
  <2>3. PendingWrite(t)
    BY DEF WriteInv
  <2>4. CASE p.by = "payment"
    BY <2>1, <2>2, <2>4 DEF Writing
  <2>5. CASE p.by # "payment"
    <3>1. p.read.status \notin {"PAID", "VOIDED"}
      BY <2>1, <2>3, <2>5 DEF PendingWrite
    <3> QED
      BY <2>1, <2>2, <3>1 DEF StaleWrite, Stale
  <2> QED
    BY <2>4, <2>5
<1> QED
  BY <1>1, <1>2, InvoiceSteps

(***************************************************************************)
(* The invoices a billing cycle has still to issue                         *)
(***************************************************************************)

\* Their ids are unused and belong to one cycle and one place in it.
BillsInv ==
  \A t \in Thread : \A k \in DOMAIN bills[t] :
    /\ invoices[bills[t][k].inv] = NoInvoice
    /\ \A u \in Thread : \A j \in DOMAIN bills[u] :
         bills[u][j].inv = bills[t][k].inv => u = t /\ j = k

LEMMA NextBillsInv == TypeInv /\ BillsInv /\ [Next]_vars => BillsInv'
<1> SUFFICES ASSUME TypeInv, BillsInv, [Next]_vars PROVE BillsInv'
  OBVIOUS
<1>1. ASSUME NEW t \in Thread, RunBillingCycle(t) PROVE BillsInv'
  <2>1. PICK ids \in Lists(FreshIds) : \E subs \in [DOMAIN ids -> Subscription] :
          bills' = [bills EXCEPT ![t] = [k \in DOMAIN ids |-> [inv |-> ids[k], sub |-> subs[k]]]]
    BY <1>1 DEF RunBillingCycle
  <2>2. PICK subs \in [DOMAIN ids -> Subscription] :
          bills' = [bills EXCEPT ![t] = [k \in DOMAIN ids |-> [inv |-> ids[k], sub |-> subs[k]]]]
    BY <2>1
  <2>3. /\ DOMAIN bills'[t] = DOMAIN ids
        /\ \A k \in DOMAIN ids : bills'[t][k].inv = ids[k]
        /\ \A u \in Thread : u # t => bills'[u] = bills[u]
    BY <2>2 DEF TypeInv, TypeOK
  <2>4. \A k \in DOMAIN ids : ids[k] \in FreshIds
    BY ListsType
  <2>5. \A j, k \in DOMAIN ids : ids[j] = ids[k] => j = k
    BY DEF Lists
  <2>6. \A k \in DOMAIN ids : invoices[ids[k]] = NoInvoice
    BY <2>4 DEF FreshIds
  <2>7. \A k \in DOMAIN ids : \A u \in Thread : \A j \in DOMAIN bills[u] :
          bills[u][j].inv # ids[k]
    BY <2>4 DEF FreshIds
  <2>8. invoices' = invoices
    BY <1>1 DEF RunBillingCycle, store
  <2> SUFFICES ASSUME NEW v \in Thread, NEW k \in DOMAIN bills'[v]
               PROVE  /\ invoices'[bills'[v][k].inv] = NoInvoice
                      /\ \A u \in Thread : \A j \in DOMAIN bills'[u] :
                           bills'[u][j].inv = bills'[v][k].inv => u = v /\ j = k
    BY DEF BillsInv
  <2>9. CASE v = t
    BY <2>3, <2>5, <2>6, <2>7, <2>8, <2>9
  <2>10. CASE v # t
    <3>1. bills'[v] = bills[v] /\ invoices'[bills'[v][k].inv] = NoInvoice
      BY <2>3, <2>8, <2>10 DEF BillsInv
    <3>2. ASSUME NEW u \in Thread, NEW j \in DOMAIN bills'[u],
                 bills'[u][j].inv = bills'[v][k].inv
          PROVE  u = v /\ j = k
      <4>1. CASE u = t
        BY <2>3, <2>7, <2>10, <3>1, <3>2, <4>1
      <4>2. CASE u # t
        BY <2>3, <3>1, <3>2, <4>2 DEF BillsInv
      <4> QED
        BY <4>1, <4>2
    <3> QED
      BY <3>1, <3>2
  <2> QED
    BY <2>9, <2>10
<1>2. ASSUME NEW t \in Thread, BillNext(t) PROVE BillsInv'
  <2>1. /\ bills[t] \in Seq(Bill) /\ bills[t] # <<>>
        /\ \A u \in Thread : bills[u] \in Seq(Bill)
    BY <1>2, BillNextType DEF TypeInv, TypeOK
  <2>2. /\ 1 \in DOMAIN bills[t] /\ Head(bills[t]) = bills[t][1]
        /\ \A k \in DOMAIN Tail(bills[t]) :
             k + 1 \in DOMAIN bills[t] /\ Tail(bills[t])[k] = bills[t][k+1] /\ k \in Nat /\ k + 1 # 1
    BY <2>1
  <2>3. /\ bills'[t] = Tail(bills[t])
        /\ \A u \in Thread : u # t => bills'[u] = bills[u]
    BY <1>2 DEF BillNext, TypeInv, TypeOK
  <2>4. \A i \in Invoice : i # Head(bills[t]).inv => invoices'[i] = invoices[i]
    BY <1>2 DEF BillNext, TypeInv, TypeOK
  <2>5. \A u \in Thread : \A k \in DOMAIN bills[u] : bills[u][k].inv \in Invoice
    <3>1. \A u \in Thread : \A k \in DOMAIN bills[u] : bills[u][k] \in Bill
      BY <2>1
    <3> QED
      BY <3>1 DEF Bill
  <2> DEFINE at(u, k) == IF u = t THEN k + 1 ELSE k
  <2>6. ASSUME NEW u \in Thread, NEW k \in DOMAIN bills'[u]
        PROVE  /\ at(u, k) \in DOMAIN bills[u] /\ bills'[u][k] = bills[u][at(u, k)]
               /\ k \in Nat /\ (u = t => at(u, k) # 1)
    <3>1. CASE u = t
      BY <2>2, <2>3, <3>1
    <3>2. CASE u # t
      <4>1. bills'[u] = bills[u] /\ \A j \in DOMAIN bills[u] : j \in Nat
        BY <2>1, <2>3, <3>2
      <4> QED
        BY <3>2, <4>1
    <3> QED
      BY <3>1, <3>2
  <2> SUFFICES ASSUME NEW v \in Thread, NEW k \in DOMAIN bills'[v]
               PROVE  /\ invoices'[bills'[v][k].inv] = NoInvoice
                      /\ \A u \in Thread : \A j \in DOMAIN bills'[u] :
                           bills'[u][j].inv = bills'[v][k].inv => u = v /\ j = k
    BY DEF BillsInv
  <2>7. bills'[v][k].inv # Head(bills[t]).inv
    <3> SUFFICES ASSUME bills[v][at(v, k)].inv = bills[t][1].inv PROVE FALSE
      BY <2>2, <2>6
    <3> HIDE DEF at
    <3>1. at(v, k) \in DOMAIN bills[v] /\ (v = t => at(v, k) # 1)
      BY <2>6
    <3>2. v = t /\ at(v, k) = 1
      BY <2>2, <3>1 DEF BillsInv
    <3> QED
      BY <3>1, <3>2
  <2>8. invoices'[bills'[v][k].inv] = NoInvoice
    BY <2>4, <2>5, <2>6, <2>7 DEF BillsInv
  <2>9. ASSUME NEW u \in Thread, NEW j \in DOMAIN bills'[u],
               bills'[u][j].inv = bills'[v][k].inv
        PROVE  u = v /\ j = k
    <3>1. u = v /\ at(u, j) = at(v, k)
      BY <2>6, <2>9 DEF BillsInv
    <3>2. j \in DOMAIN bills'[u] /\ bills'[u] \in Seq(Bill)
          /\ k \in DOMAIN bills'[u]
      <4>1. bills'[u] \in Seq(Bill)
        BY <2>1, <2>3, HeadTail
      <4> QED
        BY <3>1, <4>1
    <3>3. j \in Nat /\ k \in Nat
      BY <3>2
    <3> QED
      BY <3>1, <3>3
  <2> QED
    BY <2>8, <2>9
<1>3. ASSUME bills' = bills,
             \A i \in Invoice : invoices[i] = NoInvoice => invoices'[i] = NoInvoice
      PROVE  BillsInv'
  <2>1. \A u \in Thread : \A k \in DOMAIN bills[u] : bills[u][k] \in Bill
    BY DEF TypeInv, TypeOK
  <2>2. \A u \in Thread : \A k \in DOMAIN bills[u] : bills[u][k].inv \in Invoice
    BY <2>1 DEF Bill
  <2> QED
    BY <1>3, <2>2 DEF BillsInv
<1>4. ASSUME NEW t \in Thread, Update(t) PROVE BillsInv'
  <2>1. bills' = bills
    BY <1>4 DEF Update
  <2>2. \A i \in Invoice : invoices[i] = NoInvoice => invoices'[i] = NoInvoice
    BY <1>4, UpdateType DEF TypeInv, TypeOK
  <2> QED
    BY <1>3, <2>1, <2>2
<1>5. ASSUME NEW t \in Thread,
             \/ FetchInvoices(t) \/ RejectPayment(t) \/ RecordPayment(t)
             \/ SkipAllocation(t) \/ ReadForPayment(t) \/ AbortPayment(t)
             \/ \E i \in Invoice : ReadForVoid(t, i) \/ ReadForCredit(t, i)
      PROVE  UNCHANGED <<bills, invoices>>
  BY <1>5 DEF FetchInvoices, RejectPayment, RecordPayment, SkipAllocation,
              ReadForPayment, AbortPayment, ReadForVoid, ReadForCredit, store
<1>6. CASE UNCHANGED <<bills, invoices>>
  BY <1>3, <1>6
<1> QED
  BY <1>1, <1>2, <1>4, <1>5, <1>6 DEF Next, InCall, vars

(***************************************************************************)
(* PAID and VOIDED are final, and credit notes add up                      *)
(***************************************************************************)

LEMMA InitBillsInv == Init => BillsInv
BY DEF Init, BillsInv

\* The invoice the billing loop adds is a new one.
LEMMA BillNextFresh ==
  ASSUME TypeInv, BillsInv, NEW t \in Thread, BillNext(t)
  PROVE  invoices[Head(bills[t]).inv] = NoInvoice
<1>1. bills[t] \in Seq(Bill) /\ bills[t] # <<>>
  BY BillNextType
<1>2. 1 \in DOMAIN bills[t] /\ Head(bills[t]) = bills[t][1]
  BY <1>1
<1> QED
  BY <1>2 DEF BillsInv

\* Nothing but a payment, or a write computed from a stale copy, changes an invoice
\* that is PAID or VOIDED.
THEOREM FinalStatus == Spec => FinalStatusKept
<1> DEFINE Inv == TypeInv /\ WriteInv /\ BillsInv
           Kept == \A i \in Invoice :
                     invoices[i] # NoInvoice /\ invoices[i].status \in {"PAID", "VOIDED"}
                       /\ invoices'[i] # invoices[i]
                     => Writing(i, "payment") \/ StaleWrite(i)
<1>1. Init => Inv
  BY InitTypeInv, InitWriteInv, InitBillsInv
<1>2. Inv /\ [Next]_vars => Inv'
  BY NextTypeInv, NextWriteInv, NextBillsInv
<1>3. Inv /\ [Next]_vars => [Kept]_vars
  <2> SUFFICES ASSUME Inv, [Next]_vars, NEW i \in Invoice,
                      invoices[i] # NoInvoice, invoices[i].status \in {"PAID", "VOIDED"},
                      invoices'[i] # invoices[i]
               PROVE  Writing(i, "payment") \/ StaleWrite(i)
    OBVIOUS
  <2>1. \A t \in Thread : BillNext(t) => Head(bills[t]).inv # i
    BY BillNextFresh
  <2> QED
    BY <2>1, StepFinalStatusKept
<1> HIDE DEF Inv
<1>4. Spec => [][Kept]_vars
  <2> HIDE DEF Kept
  <2> QED
    BY <1>1, <1>2, <1>3, PTL DEF Spec
<1> QED
  BY <1>4 DEF FinalStatusKept

\* CreditsAddUp, and no credit note for an invoice that is still to be issued.
CreditInv ==
  /\ CreditsAddUp
  /\ \A i \in Invoice : invoices[i] = NoInvoice => credited[i] = 0

LEMMA NextCreditInv ==
  ASSUME TypeInv, WriteInv, BillsInv, CreditInv, [Next]_vars
  PROVE  CreditInv'
<1>1. ASSUME NEW t \in Thread, BillNext(t) PROVE CreditInv'
  <2> DEFINE bill == Head(bills[t])
  <2>1. bill.inv \in Invoice /\ InvoiceTotal(bill.sub) \in Int
    BY <1>1, BillNextType
  <2>2. invoices[bill.inv] = NoInvoice /\ credited[bill.inv] = 0
    BY <1>1, <2>1, BillNextFresh DEF CreditInv
  <2>3. credited' = credited /\ clobbered' = clobbered
    BY <1>1 DEF BillNext
  <2>4. ASSUME NEW i \in Invoice
        PROVE  /\ invoices'[i] = NoInvoice => credited'[i] = 0
               /\ i \notin clobbered' /\ invoices'[i] # NoInvoice /\ invoices'[i].cur # Mixed
                    => invoices'[i].total = charged'[i] - credited'[i]
    <3>1. CASE invoices'[i] = invoices[i] /\ charged'[i] = charged[i]
      BY <2>3, <3>1 DEF CreditInv, CreditsAddUp
    <3>2. CASE i = bill.inv /\ Billable(bill.sub)
      <4>1. invoices'[i] = [status |-> "OPEN", total |-> InvoiceTotal(bill.sub), cur |-> bill.sub.cur]
            /\ charged'[i] = InvoiceTotal(bill.sub)
        BY <1>1, <3>2 DEF BillNext, TypeInv, TypeOK
      <4> QED
        BY <2>1, <2>2, <2>3, <3>2, <4>1
    <3> QED
      BY <1>1, <2>1, <3>1, <3>2 DEF BillNext, TypeInv, TypeOK
  <2> QED
    BY <2>4 DEF CreditInv, CreditsAddUp
<1>2. ASSUME NEW t \in Thread, Update(t) PROVE CreditInv'
  <2> DEFINE p == pending[t]
  <2>1. /\ pc[t] = "write" /\ p.inv \in Invoice /\ p.by \in {"payment", "void", "credit"}
        /\ p.read \in InvoiceRecord /\ p.write \in InvoiceRecord /\ p.amount \in Int
        /\ invoices' = [invoices EXCEPT ![p.inv] = p.write]
        /\ invoices[p.inv] # NoInvoice /\ p.write # NoInvoice
    BY <1>2, UpdateType
  <2>2. PendingWrite(t)
    BY DEF WriteInv
  <2>3. /\ charged' = charged
        /\ clobbered' = IF invoices[p.inv] # p.read THEN clobbered \cup {p.inv} ELSE clobbered
        /\ \A i \in Invoice : i # p.inv => credited'[i] = credited[i] /\ invoices'[i] = invoices[i]
        /\ credited'[p.inv] = IF p.by = "credit" THEN credited[p.inv] + p.amount
                              ELSE credited[p.inv]
        /\ invoices'[p.inv] = p.write
    BY <1>2, <2>1 DEF Update, Stale, TypeInv, TypeOK
  <2>4. ASSUME NEW i \in Invoice
        PROVE  /\ invoices'[i] = NoInvoice => credited'[i] = 0
               /\ i \notin clobbered' /\ invoices'[i] # NoInvoice /\ invoices'[i].cur # Mixed
                    => invoices'[i].total = charged'[i] - credited'[i]
    <3>1. CASE i # p.inv
      BY <2>3, <3>1 DEF CreditInv, CreditsAddUp
    <3>2. CASE i = p.inv
      <4> SUFFICES ASSUME i \notin clobbered', p.write.cur # Mixed
                   PROVE  p.write.total = charged[i] - credited'[i]
        BY <2>1, <2>3, <3>2
      <4>1. invoices[i] = p.read /\ i \notin clobbered
        BY <2>3, <3>2
      <4>2. p.read.cur # Mixed
            /\ p.write.total = IF p.by = "credit" THEN p.read.total - p.amount ELSE p.read.total
        BY <2>1, <2>2 DEF PendingWrite
      <4>3. p.read.total = charged[i] - credited[i]
        BY <2>1, <3>2, <4>1, <4>2 DEF CreditInv, CreditsAddUp
      <4>4. p.read.total \in Int /\ charged[i] \in Int /\ credited[i] \in Int
        BY <2>1 DEF InvoiceRecord, TypeInv, TypeOK
      <4> QED
        BY <2>1, <2>3, <3>2, <4>2, <4>3, <4>4
    <3> QED
      BY <3>1, <3>2
  <2> QED
    BY <2>4 DEF CreditInv, CreditsAddUp
<1> QED
  BY <1>1, <1>2, InvoiceSteps DEF CreditInv, CreditsAddUp

\* The balance of an invoice no stale write hit is what it was issued for less every
\* credit note accepted for it.
THEOREM CreditsCounted == Spec => []CreditsAddUp
<1> DEFINE Inv == TypeInv /\ WriteInv /\ BillsInv /\ CreditInv
<1>1. Init => Inv
  <2>1. ASSUME Init PROVE CreditInv
    <3>1. \A i \in Invoice : invoices[i] # NoInvoice => invoices[i].total \in Int
      BY <2>1, InitTypeInv DEF TypeInv, TypeOK, InvoiceRecord
    <3> QED
      BY <2>1, <3>1 DEF Init, CreditInv, CreditsAddUp
  <2> QED
    BY <2>1, InitTypeInv, InitWriteInv, InitBillsInv
<1>2. Inv /\ [Next]_vars => Inv'
  BY NextTypeInv, NextWriteInv, NextBillsInv, NextCreditInv
<1>3. Inv => CreditsAddUp
  BY DEF CreditInv
<1> HIDE DEF Inv
<1> QED
  BY <1>1, <1>2, <1>3, PTL DEF Spec

(***************************************************************************)
(* The payment is stored before the status                                 *)
(***************************************************************************)

Recorded(key, id) == payments[key] # NoPayment /\ payments[key].id >= id

\* Payments are numbered by nextCall, and the one being applied, and every one that
\* was, is in the repository, or a later one is under its key.
StoredInv ==
  /\ \A key \in Invoice : payments[key] # NoPayment => payments[key].id < nextCall
  /\ \A t \in Thread : paying[t] # NoPayment => Recorded(paying[t].key, paying[t].id)
  /\ \A i \in Invoice : \A a \in applied[i] : Recorded(a.key, a.id)

LEMMA NextStoredInv == TypeInv /\ StoredInv /\ [Next]_vars => StoredInv'
<1> SUFFICES ASSUME TypeInv, StoredInv, [Next]_vars PROVE StoredInv'
  OBVIOUS
<1>1. ASSUME NEW t \in Thread, RecordPayment(t) PROVE StoredInv'
  <2> DEFINE key == list[t][1].inv
  <2>1. PICK amount \in PayAmount, cur \in Currency :
          /\ payments' = [payments EXCEPT ![key] =
               [id |-> nextCall, inv |-> key, amount |-> amount, cur |-> cur]]
          /\ paying' = [paying EXCEPT ![t] = [id |-> nextCall, key |-> key, cur |-> cur]]
    BY <1>1 DEF RecordPayment, PaymentKey, AddPayment
  <2>2. key \in Invoice
    <3>1. list[t] \in Seq(ListEntry) /\ list[t] # <<>>
      BY <1>1 DEF RecordPayment, TypeInv, Phase, TypeOK
    <3>2. list[t][1] \in ListEntry
      BY <3>1
    <3> QED
      BY <3>2 DEF ListEntry
  <2>3. nextCall' = nextCall + 1 /\ applied' = applied /\ nextCall \in Nat
    BY <1>1 DEF RecordPayment, CountCall, history, TypeInv, TypeOK
  <2> HIDE DEF key
  <2>4. /\ payments'[key].id = nextCall /\ payments'[key] # NoPayment
        /\ \A k \in Invoice : k # key => payments'[k] = payments[k]
    <3>1. amount \in Int
      BY BillingAssumption
    <3>2. [id |-> nextCall, inv |-> key, amount |-> amount, cur |-> cur] \in PaymentRecord
      BY <2>2, <2>3, <3>1 DEF PaymentRecord
    <3> QED
      BY <2>1, <2>2, <3>2, BillingAssumption DEF TypeInv, TypeOK
  <2>5. \A k \in Invoice : payments[k] # NoPayment => payments[k].id \in Nat
    BY DEF TypeInv, TypeOK, PaymentRecord
  <2>6. ASSUME NEW k \in Invoice, NEW id \in Nat, Recorded(k, id) PROVE Recorded(k, id)'
    <3>1. CASE k = key
      <4>1. payments[k].id < nextCall /\ payments[k].id \in Nat /\ payments[k].id >= id
        BY <2>5, <2>6 DEF StoredInv, Recorded
      <4> QED
        BY <2>3, <2>4, <3>1, <4>1 DEF Recorded
    <3>2. CASE k # key
      BY <2>4, <2>6, <3>2 DEF Recorded
    <3> QED
      BY <3>1, <3>2
  <2>7. ASSUME NEW k \in Invoice, payments'[k] # NoPayment PROVE payments'[k].id < nextCall'
    BY <2>3, <2>4, <2>5, <2>7 DEF StoredInv
  <2>8. ASSUME NEW u \in Thread, paying'[u] # NoPayment
        PROVE  Recorded(paying[u].key, paying[u].id)'
    <3>1. CASE u = t
      <4>1. paying'[u].key = key /\ paying'[u].id = nextCall
        BY <2>1, <3>1 DEF TypeInv, TypeOK
      <4> QED
        BY <2>3, <2>4, <4>1 DEF Recorded
    <3>2. CASE u # t
      <4>1. paying'[u] = paying[u] /\ paying[u] \in Paying
        BY <2>1, <2>8, <3>2 DEF TypeInv, TypeOK
      <4>2. paying[u].key \in Invoice /\ paying[u].id \in Nat
        BY <4>1 DEF Paying
      <4>3. Recorded(paying[u].key, paying[u].id)
        BY <2>8, <4>1 DEF StoredInv
      <4>4. \A k \in Invoice, id \in Nat : Recorded(k, id) => Recorded(k, id)'
        BY <2>6
      <4> QED
        BY <4>1, <4>2, <4>3, <4>4 DEF Recorded
    <3> QED
      BY <3>1, <3>2
  <2>9. ASSUME NEW i \in Invoice, NEW a \in applied'[i] PROVE Recorded(a.key, a.id)'
    <3>1. a \in applied[i] /\ a \in Applied
      BY <2>3, <2>9 DEF TypeInv, TypeOK
    <3>2. a.key \in Invoice /\ a.id \in Nat
      BY <3>1 DEF Applied
    <3>3. Recorded(a.key, a.id)
      BY <3>1 DEF StoredInv
    <3> QED
      BY <2>6, <3>2, <3>3
  <2> QED
    BY <2>7, <2>8, <2>9 DEF StoredInv
<1>2. ASSUME NEW t \in Thread, Update(t) PROVE StoredInv'
  <2> DEFINE p == pending[t]
             mine == [id |-> paying[t].id, key |-> paying[t].key, amount |-> p.amount]
  <2>1. pc[t] = "write" /\ p.inv \in Invoice
    BY <1>2, UpdateType
  <2>2. payments' = payments /\ nextCall' = nextCall
    BY <1>2 DEF Update
  <2>3. \A u \in Thread : paying'[u] # NoPayment => paying'[u] = paying[u]
    BY <1>2 DEF Update, Continue, TypeInv, TypeOK
  <2>4. p.by = "payment" => Recorded(paying[t].key, paying[t].id)
    BY <2>1 DEF TypeInv, Phase, StoredInv
  <2>5. ASSUME NEW i \in Invoice, NEW a \in applied'[i] PROVE Recorded(a.key, a.id)
    <3>1. a \in applied[i] \/ (p.by = "payment" /\ a = mine)
      BY <1>2, <2>1 DEF Update, TypeInv, TypeOK
    <3> QED
      BY <2>4, <3>1 DEF StoredInv
  <2> QED
    BY <2>2, <2>3, <2>5 DEF StoredInv, Recorded
<1>3. ASSUME UNCHANGED <<payments, applied>>, nextCall' \in {nextCall, nextCall + 1},
             \A u \in Thread : paying'[u] # NoPayment => paying'[u] = paying[u]
      PROVE  StoredInv'
  <2>1. \A k \in Invoice : payments[k] # NoPayment => payments[k].id \in Nat
    BY DEF TypeInv, TypeOK, PaymentRecord
  <2>2. nextCall \in Nat
    BY DEF TypeInv, TypeOK
  <2> QED
    BY <1>3, <2>1, <2>2 DEF StoredInv, Recorded
<1>4. ASSUME NEW t \in Thread,
             \/ RunBillingCycle(t) \/ BillNext(t) \/ FetchInvoices(t) \/ RejectPayment(t)
             \/ SkipAllocation(t) \/ ReadForPayment(t) \/ AbortPayment(t)
             \/ \E i \in Invoice : ReadForVoid(t, i) \/ ReadForCredit(t, i)
      PROVE  StoredInv'
  <2>1. UNCHANGED <<payments, applied>>
    BY <1>4 DEF RunBillingCycle, BillNext, FetchInvoices, RejectPayment, SkipAllocation,
                ReadForPayment, AbortPayment, ReadForVoid, ReadForCredit, store, history
  <2>2. nextCall' \in {nextCall, nextCall + 1}
    BY <1>4 DEF RunBillingCycle, BillNext, FetchInvoices, RejectPayment, SkipAllocation,
                ReadForPayment, AbortPayment, ReadForVoid, ReadForCredit, CountCall
  <2>3. \A u \in Thread : paying'[u] # NoPayment => paying'[u] = paying[u]
    BY <1>4 DEF RunBillingCycle, BillNext, FetchInvoices, RejectPayment, SkipAllocation,
                ReadForPayment, AbortPayment, ReadForVoid, ReadForCredit, Continue, TypeInv, TypeOK
  <2> QED
    BY <1>3, <2>1, <2>2, <2>3
<1>5. CASE UNCHANGED vars
  BY <1>3, <1>5 DEF vars
<1> QED
  BY <1>1, <1>2, <1>4, <1>5 DEF Next, InCall

\* Whenever an invoice is shown as PAID or PARTIALLY_PAID an allocation was applied
\* to it, and the payment of every such allocation had been added before.
THEOREM PaymentFirst == Spec => []PaymentBeforeStatus
<1> DEFINE Inv == TypeInv /\ WriteInv /\ StoredInv
<1>1. Init => Inv
  <2>1. Init => StoredInv
    BY DEF Init, StoredInv
  <2> QED
    BY <2>1, InitTypeInv, InitWriteInv
<1>2. Inv /\ [Next]_vars => Inv'
  BY NextTypeInv, NextWriteInv, NextStoredInv
<1>3. Inv => PaymentBeforeStatus
  BY DEF WriteInv, StoredInv, Recorded, PaymentBeforeStatus
<1> HIDE DEF Inv
<1> QED
  BY <1>1, <1>2, <1>3, PTL DEF Spec

(***************************************************************************)
(* A payment gives no more than it has                                     *)
(***************************************************************************)

\* A list of allocations can be given out of r, one after the other.
Affords(rest, r) ==
  \E left \in [0..Len(rest) -> Nat] :
    left[0] = r /\ \A k \in 1..Len(rest) : left[k] = left[k-1] - rest[k].amount

\* Thread t is about to record an allocation of its payment.
Applying(t) == pc[t] = "write" /\ pending[t].by = "payment"

\* What thread t's payment has given, with the allocation about to be recorded.
PaidOut(t) == Given(paying[t].id) + IF Applying(t) THEN pending[t].amount ELSE 0

\* The stored payment with this id can still give what is left to apply.
Covered(t) ==
  \A key \in Invoice :
    payments[key] # NoPayment /\ payments[key].id = paying[t].id =>
      \E r \in Nat : Affords(todo[t], r) /\ PaidOut(t) + r <= payments[key].amount

\* Each invoice is on a list once; only stored invoices may have a negative total.
ListInv(t) ==
  /\ \A j, k \in DOMAIN list[t] : list[t][j].inv = list[t][k].inv => j = k
  /\ \A k \in DOMAIN list[t] : invoices[list[t][k].inv] = NoInvoice => list[t][k].total >= 0

\* A payment is still to give to invoices it has given nothing to.
Ungiven(i, id) == \A a \in applied[i] : a.id # id

TodoInv(t) ==
  /\ \A j, k \in DOMAIN todo[t] : todo[t][j].inv = todo[t][k].inv => j = k
  /\ \A k \in DOMAIN todo[t] :
       /\ Ungiven(todo[t][k].inv, paying[t].id)
       /\ invoices[todo[t][k].inv] = NoInvoice => todo[t][k].amount >= 0
  /\ Applying(t) =>
       /\ Ungiven(pending[t].inv, paying[t].id)
       /\ \A k \in DOMAIN todo[t] : todo[t][k].inv # pending[t].inv

\* Payments in progress are distinct, and older than the next call.
IdsInv ==
  /\ \A t \in Thread : paying[t] # NoPayment => paying[t].id < nextCall
  /\ \A i \in Invoice : \A a \in applied[i] : a.id < nextCall
  /\ \A t, u \in Thread :
       paying[t] # NoPayment /\ paying[u] # NoPayment /\ paying[t].id = paying[u].id => t = u

PaidInv ==
  /\ \A t \in Thread : paying[t] # NoPayment => TodoInv(t) /\ Covered(t)
  /\ \A id \in Nat : IsFiniteSet(Shares(id))
  /\ PaymentNotOverspent

SpendInv == IdsInv /\ (\A t \in Thread : ListInv(t)) /\ PaidInv

LEMMA TodoType ==
  ASSUME TypeInv, NEW t \in Thread
  PROVE  /\ todo[t] \in Seq(Allocation) /\ Len(todo[t]) \in Nat /\ DOMAIN todo[t] = 1..Len(todo[t])
         /\ \A k \in DOMAIN todo[t] : todo[t][k].inv \in Invoice /\ todo[t][k].amount \in Int
         /\ paying[t] # NoPayment => paying[t].id \in Nat
         /\ Applying(t) => pending[t].inv \in Invoice /\ pending[t].amount \in Int
<1>1. todo[t] \in Seq(Allocation)
  BY DEF TypeInv, TypeOK
<1>2. Len(todo[t]) \in Nat /\ DOMAIN todo[t] = 1..Len(todo[t])
      /\ \A k \in DOMAIN todo[t] : todo[t][k] \in Allocation
  BY <1>1
<1>3. paying[t] # NoPayment => paying[t] \in Paying
  BY DEF TypeInv, TypeOK
<1>4. Applying(t) => pending[t] \in Pending
  BY DEF Applying, TypeInv, Phase, TypeOK
<1> QED
  BY <1>1, <1>2, <1>3, <1>4 DEF Allocation, Paying, Pending

\* The first allocation taken, the others can be given out of what is left.
LEMMA AffordsTail ==
  ASSUME NEW rest \in Seq(Allocation), rest # <<>>, NEW r \in Nat, Affords(rest, r)
  PROVE  r - Head(rest).amount \in Nat /\ Affords(Tail(rest), r - Head(rest).amount)
<1> DEFINE n == Len(rest)
<1>1. /\ n \in Nat \ {0} /\ Len(Tail(rest)) = n - 1 /\ Head(rest) = rest[1]
      /\ \A k \in 1..(n-1) : Tail(rest)[k] = rest[k+1]
  <2>1. n \in Nat /\ n # 0
    BY EmptySeq
  <2>2. Len(Tail(rest)) = n - 1 /\ Head(rest) = rest[1]
    BY HeadTailProperties
  <2>3. \A k \in 1..(n-1) : Tail(rest)[k] = rest[k+1]
    BY <2>2, HeadTailProperties
  <2> QED
    BY <2>1, <2>2, <2>3
<1>2. PICK left \in [0..n -> Nat] :
        left[0] = r /\ \A k \in 1..n : left[k] = left[k-1] - rest[k].amount
  BY DEF Affords
<1> DEFINE shifted == [k \in 0..(n-1) |-> left[k+1]]
<1>3. left[1] = r - Head(rest).amount /\ left[1] \in Nat
  <2>1. 1 \in 1..n /\ 1 \in 0..n /\ 1 - 1 = 0
    BY <1>1
  <2>2. left[1] = left[1-1] - rest[1].amount
    BY <1>2, <2>1
  <2> QED
    BY <1>1, <1>2, <2>1, <2>2
<1>4. shifted \in [0..(n-1) -> Nat]
  <2>1. \A k \in 0..(n-1) : k + 1 \in 0..n
    BY <1>1
  <2> QED
    BY <1>2, <2>1
<1>5. shifted[0] = left[1]
  BY <1>1
<1>6. \A k \in 1..(n-1) : shifted[k] = shifted[k-1] - Tail(rest)[k].amount
  <2> TAKE k \in 1..(n-1)
  <2>1. shifted[k] = left[k+1] /\ shifted[k-1] = left[k] /\ (k + 1) \in 1..n /\ (k + 1) - 1 = k
    BY <1>1
  <2>2. left[k+1] = left[k] - rest[k+1].amount
    BY <1>2, <2>1
  <2> QED
    BY <1>1, <2>1, <2>2
<1> HIDE DEF shifted
<1> QED
  BY <1>1, <1>3, <1>4, <1>5, <1>6 DEF Affords

\* A payment's allocations can be given out of its amount.
LEMMA AllocationsAfforded ==
  ASSUME NEW amount \in Nat, NEW sorted, Priced(sorted),
         Len(Allocations(amount, sorted)) = Len(sorted)
  PROVE  Affords(Allocations(amount, sorted), amount)
<1> DEFINE left == Remaining(amount, sorted)
           allocs == Allocations(amount, sorted)
<1>1. /\ left \in [0..Len(sorted) -> Int]
      /\ left[0] = amount
      /\ \A k \in 1..Len(sorted) : left[k] = left[k-1] - Share(sorted[k].total, left[k-1])
  BY RemainingStep
<1>2. \A k \in 0..Len(sorted) : left[k] >= 0
  BY RemainingBounded
<1>3. \A k \in 1..Len(sorted) : allocs[k].amount = Share(sorted[k].total, left[k-1])
  BY DEF Allocations
<1> HIDE DEF left, allocs
<1>4. left \in [0..Len(sorted) -> Nat]
  BY <1>1, <1>2
<1>5. Len(allocs) = Len(sorted)
  BY DEF allocs
<1>6. Affords(allocs, amount)
  BY <1>1, <1>3, <1>4, <1>5 DEF Affords
<1> QED
  BY <1>6 DEF allocs

(***************************************************************************)
(* What has been given                                                     *)
(***************************************************************************)

LEMMA SharesMember ==
  ASSUME NEW id, NEW share
  PROVE  share \in Shares(id) <=>
           \E i \in Invoice : \E a \in applied[i] : a.id = id /\ share = <<i, a>>
BY DEF Shares

LEMMA GivenAdds ==
  ASSUME NEW S, IsFiniteSet(S), NEW x, x \notin S, \A y \in S \cup {x} : y[2].amount \in Int
  PROVE  /\ SumFunction([share \in S \cup {x} |-> share[2].amount])
              = SumFunction([share \in S |-> share[2].amount]) + x[2].amount
         /\ SumFunction([share \in S |-> share[2].amount]) \in Int
<1> DEFINE f == [share \in S |-> share[2].amount]
           g == [share \in S \cup {x} |-> share[2].amount]
<1>1. SumFunction(f) = SumFunctionOnSet(f, S)
      /\ SumFunction(g) = SumFunctionOnSet(g, S \cup {x})
  <2>1. DOMAIN f = S /\ DOMAIN g = S \cup {x}
    OBVIOUS
  <2> QED
    BY <2>1, Zenon DEF SumFunction
<1>2. \A y \in S : f[y] \in Int /\ f[y] = g[y]
  OBVIOUS
<1>3. \A y \in S \cup {x} : g[y] \in Int
  OBVIOUS
<1>4. g[x] = x[2].amount
  OBVIOUS
<1> HIDE DEF f, g
<1>5. SumFunctionOnSet(g, S \cup {x}) = SumFunctionOnSet(g, S) + g[x]
  BY <1>3, SumAdd
<1>6. SumFunctionOnSet(f, S) = SumFunctionOnSet(g, S)
  BY <1>2, SumEqual
<1>7. SumFunctionOnSet(f, S) \in Int
  BY <1>2, SumType
<1>8. SumFunction(g) = SumFunction(f) + x[2].amount /\ SumFunction(f) \in Int
  BY <1>1, <1>4, <1>5, <1>6, <1>7
<1> QED
  BY <1>8 DEF f, g

LEMMA GivenType ==
  ASSUME TypeInv, NEW id, IsFiniteSet(Shares(id))
  PROVE  Given(id) \in Int /\ (Shares(id) = {} => Given(id) = 0)
<1> DEFINE S == Shares(id)
           f == [share \in S |-> share[2].amount]
<1>1. \A share \in S : share[2].amount \in Int
  <2> TAKE share \in S
  <2>1. PICK i \in Invoice : \E a \in applied[i] : a.id = id /\ share = <<i, a>>
    BY SharesMember
  <2>2. PICK a \in applied[i] : share = <<i, a>>
    BY <2>1
  <2>3. a \in Applied
    BY DEF TypeInv, TypeOK
  <2> QED
    BY <2>2, <2>3 DEF Applied
<1>2. Given(id) = SumFunctionOnSet(f, S)
  <2>1. DOMAIN f = S
    OBVIOUS
  <2> QED
    BY <2>1, Zenon DEF SumFunction, Given
<1>3. \A share \in S : f[share] \in Int
  BY <1>1
<1> HIDE DEF f, S
<1>4. SumFunctionOnSet(f, S) \in Int
  <2>1. IsFiniteSet(S)
    BY DEF S
  <2> QED
    BY <1>3, <2>1, SumType
<1>5. S = {} => SumFunctionOnSet(f, S) = 0
  BY SumEmpty
<1> QED
  BY <1>2, <1>4, <1>5 DEF S

\* Nothing applied, nothing given.
LEMMA GivenSame ==
  ASSUME applied' = applied
  PROVE  \A id : Shares(id)' = Shares(id) /\ Given(id)' = Given(id)
BY DEF Shares, Given

\* An allocation written to an invoice is given by its payment and by no other.
LEMMA UpdateGiven ==
  ASSUME TypeInv, NEW t \in Thread, Update(t), pending[t].by = "payment",
         NEW own \in Nat, own = paying[t].id, Ungiven(pending[t].inv, own),
         \A id \in Nat : IsFiniteSet(Shares(id))
  PROVE  /\ \A id \in Nat : IsFiniteSet(Shares(id)')
         /\ \A id \in Nat : Given(id)' = Given(id) + IF id = own THEN pending[t].amount ELSE 0
         /\ \A i \in Invoice : \A a \in applied'[i] :
              a \in applied[i] \/ (i = pending[t].inv /\ a.id = own)
<1> DEFINE p == pending[t]
           mine == [id |-> own, key |-> paying[t].key, amount |-> p.amount]
           given == <<p.inv, mine>>
<1>1. p.inv \in Invoice /\ p.amount \in Int
  BY UpdateType
<1>2. /\ applied'[p.inv] = applied[p.inv] \cup {mine}
      /\ \A i \in Invoice : i # p.inv => applied'[i] = applied[i]
  BY <1>1 DEF Update, TypeInv, TypeOK
<1>3. mine.id = own /\ mine.amount = p.amount
  OBVIOUS
<1> HIDE DEF mine
<1>4. Shares(own)' = Shares(own) \cup {given}
  <2>1. ASSUME NEW share \in Shares(own)' PROVE share \in Shares(own) \cup {given}
    <3>1. PICK i \in Invoice : \E a \in applied'[i] : a.id = own /\ share = <<i, a>>
      BY <2>1 DEF Shares
    <3> QED
      BY <1>2, <3>1 DEF Shares
  <2>2. ASSUME NEW share \in Shares(own) \cup {given} PROVE share \in Shares(own)'
    <3>1. \E i \in Invoice : \E a \in applied'[i] : a.id = own /\ share = <<i, a>>
      BY <1>1, <1>2, <1>3, <2>2 DEF Shares
    <3> QED
      BY <3>1 DEF Shares
  <2> QED
    BY <2>1, <2>2
<1>5. ASSUME NEW id \in Nat, id # own PROVE Shares(id)' = Shares(id)
  <2>1. \A i \in Invoice : {b \in applied'[i] : b.id = id} = {b \in applied[i] : b.id = id}
    BY <1>2, <1>3, <1>5
  <2> QED
    BY <2>1 DEF Shares
<1>6. given \notin Shares(own)
  <2> SUFFICES ASSUME given \in Shares(own) PROVE FALSE
    OBVIOUS
  <2>1. mine \in applied[p.inv]
    BY SharesMember
  <2> QED
    BY <1>3, <2>1 DEF Ungiven
<1>7. \A share \in Shares(own) \cup {given} : share[2].amount \in Int
  <2> TAKE share \in Shares(own) \cup {given}
  <2>1. CASE share = given
    BY <1>1, <1>3, <2>1
  <2>2. CASE share \in Shares(own)
    <3>1. PICK i \in Invoice : \E a \in applied[i] : a.id = own /\ share = <<i, a>>
      BY <2>2, SharesMember
    <3>2. PICK a \in applied[i] : share = <<i, a>>
      BY <3>1
    <3>3. a \in Applied
      BY DEF TypeInv, TypeOK
    <3> QED
      BY <3>2, <3>3 DEF Applied
  <2> QED
    BY <2>1, <2>2
<1>8. Given(own)' = Given(own) + p.amount
  <2>1. given[2].amount = p.amount
    BY <1>3
  <2> HIDE DEF given
  <2> DEFINE S == Shares(own)
  <2>2. IsFiniteSet(S) /\ given \notin S /\ \A share \in S \cup {given} : share[2].amount \in Int
    BY <1>6, <1>7
  <2> HIDE DEF S
  <2>3. SumFunction([share \in S \cup {given} |-> share[2].amount])
          = SumFunction([share \in S |-> share[2].amount]) + given[2].amount
    BY <2>2, GivenAdds
  <2>4. Given(own)' = SumFunction([share \in S \cup {given} |-> share[2].amount])
    BY <1>4 DEF Given, S
  <2> QED
    BY <2>1, <2>3, <2>4 DEF Given, S
<1>9. \A id \in Nat : id # own => Given(id)' = Given(id) + 0
  <2> TAKE id \in Nat
  <2>1. Given(id) \in Int
    BY GivenType
  <2>2. id # own => Given(id)' = Given(id)
    BY <1>5 DEF Given
  <2> QED
    BY <2>1, <2>2
<1>10. IsFiniteSet(Shares(own) \cup {given})
  BY FS_AddElement
<1>11. \A i \in Invoice : \A a \in applied'[i] : a \in applied[i] \/ (i = p.inv /\ a.id = own)
  BY <1>2, <1>3
<1>12. \A id \in Nat : IsFiniteSet(Shares(id)')
  BY <1>4, <1>5, <1>10
<1> QED
  BY <1>8, <1>9, <1>11, <1>12

(***************************************************************************)
(* The payments in progress                                                *)
(***************************************************************************)

\* The step leaves what thread u has still to apply, and its payment's history.
Undisturbed(u) ==
  /\ paying'[u] = paying[u] /\ todo'[u] = todo[u]
  /\ Applying(u)' <=> Applying(u)
  /\ Applying(u) => pending'[u] = pending[u]
  /\ \A key \in Invoice : payments'[key] # NoPayment /\ payments'[key].id = paying[u].id
       => payments'[key] = payments[key]
  /\ \A i \in Invoice : Ungiven(i, paying[u].id) => \A a \in applied'[i] : a.id # paying[u].id
  /\ \A id \in Nat : id = paying[u].id => Given(id)' = Given(id)

\* Invoices are never removed.
Kept == \A i \in Invoice : invoices'[i] = NoInvoice => invoices[i] = NoInvoice

LEMMA UndisturbedStays ==
  ASSUME TypeInv, NEW u \in Thread, TodoInv(u), Covered(u), Undisturbed(u), Kept,
         paying[u] # NoPayment
  PROVE  TodoInv(u)' /\ Covered(u)'
<1>1. /\ paying'[u] = paying[u] /\ todo'[u] = todo[u]
      /\ Applying(u)' <=> Applying(u)
      /\ Applying(u) => pending'[u] = pending[u]
  BY DEF Undisturbed
<1>2. /\ \A k \in DOMAIN todo[u] : todo[u][k].inv \in Invoice
      /\ Applying(u) => pending[u].inv \in Invoice
      /\ paying[u].id \in Nat
  BY TodoType
<1>3. \A i \in Invoice : Ungiven(i, paying[u].id) => Ungiven(i, paying[u].id)'
  BY <1>1 DEF Undisturbed, Ungiven
<1>4. TodoInv(u)'
  <2>1. \A j, k \in DOMAIN todo'[u] : todo'[u][j].inv = todo'[u][k].inv => j = k
    BY <1>1 DEF TodoInv
  <2>2. \A k \in DOMAIN todo'[u] : Ungiven(todo[u][k].inv, paying[u].id)'
    <3> TAKE k \in DOMAIN todo'[u]
    <3>1. todo[u][k].inv \in Invoice /\ Ungiven(todo[u][k].inv, paying[u].id)
      BY <1>1, <1>2 DEF TodoInv
    <3> QED
      BY <1>1, <1>3, <3>1 DEF Ungiven
  <2>3. \A k \in DOMAIN todo'[u] : invoices'[todo'[u][k].inv] = NoInvoice => todo'[u][k].amount >= 0
    BY <1>1, <1>2 DEF TodoInv, Kept
  <2>4. Applying(u)' => /\ Ungiven(pending[u].inv, paying[u].id)'
                        /\ \A k \in DOMAIN todo'[u] : todo'[u][k].inv # pending'[u].inv
    <3> SUFFICES ASSUME Applying(u)
                 PROVE  /\ Ungiven(pending[u].inv, paying[u].id)'
                        /\ \A k \in DOMAIN todo'[u] : todo'[u][k].inv # pending'[u].inv
      BY <1>1
    <3>1. Ungiven(pending[u].inv, paying[u].id) /\ pending[u].inv \in Invoice
          /\ \A k \in DOMAIN todo[u] : todo[u][k].inv # pending[u].inv
      BY <1>2 DEF TodoInv
    <3> QED
      BY <1>1, <1>3, <3>1 DEF Ungiven
  <2> QED
    BY <2>1, <2>2, <2>3, <2>4 DEF TodoInv
<1>5. PaidOut(u)' = PaidOut(u)
  <2>1. Given(paying[u].id)' = Given(paying[u].id)
    <3>1. PICK id \in Nat : id = paying[u].id
      BY <1>2
    <3>2. Given(id)' = Given(id)
      BY <3>1 DEF Undisturbed
    <3> QED
      BY <1>1, <3>1, <3>2 DEF Given, Shares
  <2> QED
    BY <1>1, <2>1 DEF PaidOut
<1>6. Covered(u)'
  <2> SUFFICES ASSUME NEW key \in Invoice, payments'[key] # NoPayment,
                      payments'[key].id = paying'[u].id
               PROVE  \E r \in Nat : Affords(todo'[u], r)
                                       /\ PaidOut(u)' + r <= payments'[key].amount
    BY DEF Covered, Affords
  <2>1. payments'[key] = payments[key]
    BY <1>1 DEF Undisturbed
  <2>2. \E r \in Nat : Affords(todo[u], r) /\ PaidOut(u) + r <= payments[key].amount
    BY <1>1, <2>1 DEF Covered
  <2> QED
    BY <1>1, <1>5, <2>1, <2>2
<1> QED
  BY <1>4, <1>6

\* The repository of invoices only grows.
LEMMA NextKept == TypeInv /\ [Next]_vars => Kept
<1> SUFFICES ASSUME TypeInv, [Next]_vars PROVE Kept
  OBVIOUS
<1>1. ASSUME NEW t \in Thread, BillNext(t) PROVE Kept
  <2>1. \A i \in Invoice : invoices'[i] # invoices[i] => invoices'[i] # NoInvoice
    <3>1. PICK bill : bill = Head(bills[t])
      OBVIOUS
    <3>2. InvoiceTotal(bill.sub) \in Int /\ bill.sub.cur \in Currency
      BY <1>1, <3>1, BillNextType
    <3>3. [status |-> "OPEN", total |-> InvoiceTotal(bill.sub), cur |-> bill.sub.cur] \in InvoiceRecord
      BY <3>2 DEF InvoiceRecord, InvoiceStatus, OutstandingStatus, AnyCurrency
    <3>4. [status |-> "OPEN", total |-> InvoiceTotal(bill.sub), cur |-> bill.sub.cur] # NoInvoice
      BY <3>3, BillingAssumption
    <3> QED
      BY <1>1, <3>1, <3>4 DEF BillNext, TypeInv, TypeOK
  <2> QED
    BY <2>1 DEF Kept
<1>2. ASSUME NEW t \in Thread, Update(t) PROVE Kept
  BY <1>2, UpdateType DEF Kept, TypeInv, TypeOK
<1> QED
  BY <1>1, <1>2, InvoiceSteps DEF Kept

\* No payment is in two calls, and each has an earlier number than the next.
LEMMA NextIdsInv == TypeInv /\ IdsInv /\ [Next]_vars => IdsInv'
<1> SUFFICES ASSUME TypeInv, IdsInv, [Next]_vars PROVE IdsInv'
  OBVIOUS
<1>0. /\ nextCall \in Nat
      /\ \A u \in Thread : paying[u] # NoPayment => paying[u].id \in Nat
      /\ \A i \in Invoice : \A a \in applied[i] : a.id \in Nat
  BY TodoType DEF TypeInv, TypeOK, Applied
<1>1. ASSUME nextCall' \in {nextCall, nextCall + 1},
             \A u \in Thread : paying'[u] # NoPayment => paying'[u] = paying[u],
             \A i \in Invoice : \A a \in applied'[i] : a.id < nextCall /\ a.id \in Nat
      PROVE  IdsInv'
  BY <1>0, <1>1 DEF IdsInv
<1>2. ASSUME NEW t \in Thread, RecordPayment(t) PROVE IdsInv'
  <2>1. PICK cur \in Currency :
          paying' = [paying EXCEPT ![t] = [id |-> nextCall, key |-> list[t][1].inv, cur |-> cur]]
    BY <1>2 DEF RecordPayment, PaymentKey
  <2>2. nextCall' = nextCall + 1 /\ applied' = applied
    BY <1>2 DEF RecordPayment, CountCall, history
  <2>3. paying'[t].id = nextCall /\ \A u \in Thread : u # t => paying'[u] = paying[u]
    BY <2>1 DEF TypeInv, TypeOK
  <2> QED
    BY <1>0, <2>2, <2>3 DEF IdsInv
<1>3. ASSUME NEW t \in Thread, Update(t) PROVE IdsInv'
  <2> DEFINE p == pending[t]
             mine == [id |-> paying[t].id, key |-> paying[t].key, amount |-> p.amount]
  <2>1. pc[t] = "write" /\ p.inv \in Invoice
    BY <1>3, UpdateType
  <2>2. nextCall' = nextCall
    BY <1>3 DEF Update
  <2>3. \A u \in Thread : paying'[u] # NoPayment => paying'[u] = paying[u]
    BY <1>3 DEF Update, Continue, TypeInv, TypeOK
  <2>4. p.by = "payment" => paying[t] # NoPayment
    BY <2>1 DEF TypeInv, Phase
  <2>5. ASSUME NEW i \in Invoice, NEW a \in applied'[i] PROVE a.id < nextCall /\ a.id \in Nat
    <3>1. a \in applied[i] \/ (p.by = "payment" /\ a = mine)
      BY <1>3, <2>1 DEF Update, TypeInv, TypeOK
    <3> QED
      BY <1>0, <2>4, <3>1 DEF IdsInv
  <2> QED
    BY <1>1, <2>2, <2>3, <2>5
<1>4. ASSUME NEW t \in Thread,
             \/ RunBillingCycle(t) \/ BillNext(t) \/ FetchInvoices(t) \/ RejectPayment(t)
             \/ SkipAllocation(t) \/ ReadForPayment(t) \/ AbortPayment(t)
             \/ \E i \in Invoice : ReadForVoid(t, i) \/ ReadForCredit(t, i)
      PROVE  IdsInv'
  <2>1. applied' = applied
    BY <1>4 DEF RunBillingCycle, BillNext, FetchInvoices, RejectPayment, SkipAllocation,
                ReadForPayment, AbortPayment, ReadForVoid, ReadForCredit, history
  <2>2. nextCall' \in {nextCall, nextCall + 1}
    BY <1>4 DEF RunBillingCycle, BillNext, FetchInvoices, RejectPayment, SkipAllocation,
                ReadForPayment, AbortPayment, ReadForVoid, ReadForCredit, CountCall
  <2>3. \A u \in Thread : paying'[u] # NoPayment => paying'[u] = paying[u]
    BY <1>4 DEF RunBillingCycle, BillNext, FetchInvoices, RejectPayment, SkipAllocation,
                ReadForPayment, AbortPayment, ReadForVoid, ReadForCredit, Continue, TypeInv, TypeOK
  <2> QED
    BY <1>0, <1>1, <2>1, <2>2, <2>3 DEF IdsInv
<1>5. CASE UNCHANGED vars
  BY <1>5 DEF vars, IdsInv
<1> QED
  BY <1>2, <1>3, <1>4, <1>5 DEF Next, InCall

\* The lists of invoices to pay: only fetching makes one.
LEMMA NextListInv ==
  ASSUME Charge \subseteq Nat, TypeInv, \A t \in Thread : ListInv(t), [Next]_vars
  PROVE  \A t \in Thread : ListInv(t)'
<1> SUFFICES ASSUME NEW u \in Thread PROVE ListInv(u)'
  OBVIOUS
<1>1. ASSUME list'[u] \in {list[u], <<>>} PROVE ListInv(u)'
  <2>1. \A k \in DOMAIN list[u] : list[u][k].inv \in Invoice
    <3>1. list[u] \in Seq(ListEntry)
      BY DEF TypeInv, TypeOK
    <3>2. \A k \in DOMAIN list[u] : list[u][k] \in ListEntry
      BY <3>1
    <3> QED
      BY <3>2 DEF ListEntry
  <2>2. Kept
    BY NextKept
  <2>3. CASE list'[u] = list[u]
    BY <2>1, <2>2, <2>3 DEF ListInv, Kept
  <2>4. CASE list'[u] = <<>>
    <3>1. DOMAIN list'[u] = {}
      BY <2>4
    <3> QED
      BY <3>1 DEF ListInv
  <2> QED
    BY <1>1, <2>3, <2>4
<1>2. ASSUME NEW t \in Thread, FetchInvoices(t) PROVE ListInv(u)'
  <2> DEFINE Fetchable == {i \in Invoice : i \in Ghost \/ Outstanding(i)}
  <2>1. PICK ids \in Lists(Fetchable), draft \in [total : Charge, cur : Currency] :
          list' = [list EXCEPT ![t] = [k \in DOMAIN ids |-> Copy(ids[k], draft)]]
    BY <1>2 DEF FetchInvoices
  <2>2. CASE u # t
    BY <1>1, <2>1, <2>2 DEF TypeInv, TypeOK
  <2>3. CASE u = t
    <3>1. list'[u] = [k \in DOMAIN ids |-> Copy(ids[k], draft)]
      BY <2>1, <2>3 DEF TypeInv, TypeOK
    <3>2. \A k \in DOMAIN ids : ids[k] \in Fetchable
      BY ListsType
    <3>3. \A j, k \in DOMAIN ids : ids[j] = ids[k] => j = k
      BY DEF Lists
    <3>4. /\ DOMAIN list'[u] = DOMAIN ids
          /\ \A k \in DOMAIN ids :
               /\ list'[u][k].inv = ids[k]
               /\ invoices[ids[k]] = NoInvoice => list'[u][k].total = draft.total
      BY <3>1 DEF Copy
    <3>5. draft.total \in Nat
      OBVIOUS
    <3>6. invoices' = invoices
      BY <1>2 DEF FetchInvoices, store
    <3> QED
      BY <3>3, <3>4, <3>5, <3>6 DEF ListInv
  <2> QED
    BY <2>2, <2>3
<1>3. ASSUME NEW t \in Thread,
             \/ RunBillingCycle(t) \/ BillNext(t) \/ RejectPayment(t) \/ RecordPayment(t)
             \/ SkipAllocation(t) \/ ReadForPayment(t) \/ AbortPayment(t) \/ Update(t)
             \/ \E i \in Invoice : ReadForVoid(t, i) \/ ReadForCredit(t, i)
      PROVE  list'[u] \in {list[u], <<>>}
  BY <1>3 DEF RunBillingCycle, BillNext, RejectPayment, RecordPayment, SkipAllocation,
              ReadForPayment, AbortPayment, Update, ReadForVoid, ReadForCredit, TypeInv, TypeOK
<1>4. CASE UNCHANGED vars
  BY <1>1, <1>4 DEF vars
<1> QED
  BY <1>1, <1>2, <1>3, <1>4 DEF Next, InCall

\* A step that stores no payment and applies nothing.
LEMMA QuietStep ==
  ASSUME TypeInv, PaidInv, Kept, payments' = payments, applied' = applied,
         \A u \in Thread : paying'[u] # NoPayment =>
           \/ TodoInv(u)' /\ Covered(u)'
           \/ /\ paying'[u] = paying[u] /\ todo'[u] = todo[u]
              /\ Applying(u)' <=> Applying(u)
              /\ Applying(u) => pending'[u] = pending[u]
  PROVE  PaidInv'
<1>1. \A id : Shares(id)' = Shares(id) /\ Given(id)' = Given(id)
  BY GivenSame
<1>2. ASSUME NEW u \in Thread, paying'[u] # NoPayment PROVE TodoInv(u)' /\ Covered(u)'
  <2> SUFFICES ASSUME paying'[u] = paying[u], todo'[u] = todo[u],
                      Applying(u)' <=> Applying(u),
                      Applying(u) => pending'[u] = pending[u]
               PROVE  TodoInv(u)' /\ Covered(u)'
    BY <1>2
  <2>1. \A id \in Nat : id = paying[u].id => Given(id)' = Given(id)
    BY <1>1
  <2>2. \A i \in Invoice : Ungiven(i, paying[u].id) => \A a \in applied'[i] : a.id # paying[u].id
    BY DEF Ungiven
  <2>3. Undisturbed(u)
    BY <2>1, <2>2 DEF Undisturbed
  <2>4. paying[u] # NoPayment /\ TodoInv(u) /\ Covered(u)
    BY <1>2 DEF PaidInv
  <2> QED
    BY <2>3, <2>4, UndisturbedStays
<1>3. \A id \in Nat : IsFiniteSet(Shares(id)')
  BY <1>1 DEF PaidInv
<1>4. PaymentNotOverspent'
  <2> SUFFICES ASSUME NEW key \in Invoice, payments[key] # NoPayment
               PROVE  Given(payments[key].id)' <= payments[key].amount
    BY DEF PaymentNotOverspent, Given, Shares
  <2>1. Given(payments[key].id) <= payments[key].amount
    BY DEF PaidInv, PaymentNotOverspent
  <2> QED
    BY <2>1 DEF Given, Shares
<1> QED
  BY <1>2, <1>3, <1>4 DEF PaidInv

\* What the taken allocation leaves.
LEMMA TodoTail ==
  ASSUME TypeInv, NEW t \in Thread, TodoInv(t), todo[t] # <<>>
  PROVE  LET head == Head(todo[t])
             rest == Tail(todo[t])
         IN  /\ head.inv \in Invoice /\ head.amount \in Int
             /\ Ungiven(head.inv, paying[t].id)
             /\ invoices[head.inv] = NoInvoice => head.amount >= 0
             /\ \A k \in DOMAIN rest :
                  /\ rest[k].inv \in Invoice
                  /\ rest[k].inv # head.inv
                  /\ Ungiven(rest[k].inv, paying[t].id)
                  /\ invoices[rest[k].inv] = NoInvoice => rest[k].amount >= 0
             /\ \A j, k \in DOMAIN rest : rest[j].inv = rest[k].inv => j = k
<1>1. /\ 1 \in DOMAIN todo[t] /\ Head(todo[t]) = todo[t][1]
      /\ \A k \in DOMAIN Tail(todo[t]) :
           k \in Nat /\ k + 1 \in DOMAIN todo[t] /\ Tail(todo[t])[k] = todo[t][k+1] /\ k + 1 # 1
  <2>1. todo[t] \in Seq(Allocation) /\ Len(todo[t]) # 0
    BY TodoType, EmptySeq
  <2> QED
    BY <2>1
<1>2. \A k \in DOMAIN todo[t] : todo[t][k].inv \in Invoice /\ todo[t][k].amount \in Int
  BY TodoType
<1> DEFINE all == todo[t]
           rest == Tail(todo[t])
<1>3. /\ \A j, k \in DOMAIN all : all[j].inv = all[k].inv => j = k
      /\ \A k \in DOMAIN all :
           /\ Ungiven(all[k].inv, paying[t].id)
           /\ invoices[all[k].inv] = NoInvoice => all[k].amount >= 0
  BY DEF TodoInv
<1>4. /\ Head(all).inv \in Invoice /\ Head(all).amount \in Int
      /\ Ungiven(Head(all).inv, paying[t].id)
      /\ invoices[Head(all).inv] = NoInvoice => Head(all).amount >= 0
  BY <1>1, <1>2, <1>3
<1>5. ASSUME NEW k \in DOMAIN rest
      PROVE  /\ rest[k].inv \in Invoice
             /\ rest[k].inv # Head(all).inv
             /\ Ungiven(rest[k].inv, paying[t].id)
             /\ invoices[rest[k].inv] = NoInvoice => rest[k].amount >= 0
  <2>1. k + 1 \in DOMAIN all /\ rest[k] = all[k+1] /\ k + 1 # 1 /\ 1 \in DOMAIN all /\ Head(all) = all[1]
    BY <1>1
  <2> HIDE DEF all, rest
  <2> QED
    BY <1>2, <1>3, <2>1 DEF all
<1>6. \A j, k \in DOMAIN rest : rest[j].inv = rest[k].inv => j = k
  <2> SUFFICES ASSUME NEW j \in DOMAIN rest, NEW k \in DOMAIN rest, rest[j].inv = rest[k].inv
               PROVE  j = k
    OBVIOUS
  <2>1. /\ j + 1 \in DOMAIN all /\ rest[j] = all[j+1] /\ j \in Nat
        /\ k + 1 \in DOMAIN all /\ rest[k] = all[k+1] /\ k \in Nat
    BY <1>1
  <2> HIDE DEF all, rest
  <2>2. j + 1 = k + 1
    BY <1>3, <2>1
  <2> QED
    BY <2>1, <2>2
<1> QED
  BY <1>4, <1>5, <1>6

\* Taking the first allocation, to skip it when it is not negative, or to record it.
LEMMA TodoAdvances ==
  ASSUME TypeInv, PaidInv, NEW t \in Thread, pc[t] = "apply", todo[t] # <<>>, paying[t] # NoPayment,
         invoices' = invoices, payments' = payments, applied' = applied,
         paying'[t] = paying[t], todo'[t] = Tail(todo[t]),
         \/ ~Applying(t)' /\ Head(todo[t]).amount >= 0
         \/ /\ Applying(t)'
            /\ pending'[t].inv = Head(todo[t]).inv /\ pending'[t].amount = Head(todo[t]).amount
  PROVE  TodoInv(t)' /\ Covered(t)'
<1> DEFINE head == Head(todo[t])
           rest == Tail(todo[t])
<1>1. TodoInv(t) /\ Covered(t)
  BY DEF PaidInv
<1>2. /\ head.amount \in Int /\ head.inv \in Invoice
      /\ Ungiven(head.inv, paying[t].id)
      /\ \A k \in DOMAIN rest :
           /\ rest[k].inv \in Invoice
           /\ rest[k].inv # head.inv
           /\ Ungiven(rest[k].inv, paying[t].id)
           /\ invoices[rest[k].inv] = NoInvoice => rest[k].amount >= 0
      /\ \A j, k \in DOMAIN rest : rest[j].inv = rest[k].inv => j = k
  BY <1>1, TodoTail
<1>3. TodoInv(t)'
  <2>1. /\ \A k \in DOMAIN rest : \A a \in applied'[rest[k].inv] : a.id # paying'[t].id
        /\ \A a \in applied'[head.inv] : a.id # paying'[t].id
    BY <1>2 DEF Ungiven
  <2> HIDE DEF rest, head
  <2>2. todo'[t] = rest /\ (Applying(t)' => pending'[t].inv = head.inv)
    BY DEF rest, head
  <2> QED
    BY <1>2, <2>1, <2>2 DEF TodoInv, Ungiven
<1>4. ASSUME NEW key \in Invoice, payments[key] # NoPayment, payments[key].id = paying[t].id
      PROVE  \E r \in Nat : Affords(rest, r) /\ PaidOut(t)' + r <= payments[key].amount
  <2>1. PICK r \in Nat : Affords(todo[t], r) /\ PaidOut(t) + r <= payments[key].amount
    BY <1>1, <1>4 DEF Covered
  <2>2. r - head.amount \in Nat /\ Affords(rest, r - head.amount)
    BY <2>1, AffordsTail, TodoType
  <2>3. PICK own \in Nat : own = paying[t].id
    BY TodoType
  <2>4. Given(own)' = Given(own) /\ Given(own) \in Int
    BY GivenSame, GivenType DEF PaidInv
  <2> HIDE DEF head, rest
  <2>5. /\ PaidOut(t)' = Given(own)' + IF Applying(t)' THEN head.amount ELSE 0
        /\ PaidOut(t) = Given(own) + 0
    <3>1. ~Applying(t)
      BY DEF Applying
    <3>2. Given(paying[t].id)' = Given(own)'
      BY <2>3 DEF Given, Shares
    <3>3. PaidOut(t)' = Given(own)' + IF Applying(t)' THEN pending'[t].amount ELSE 0
      BY <3>2 DEF PaidOut
    <3> QED
      BY <2>3, <3>1, <3>3 DEF PaidOut, head
  <2>6. payments[key].amount \in Int
    BY <1>4, BillingAssumption DEF TypeInv, TypeOK, PaymentRecord
  <2>7. Applying(t)' \/ head.amount >= 0
    BY DEF head
  <2>8. PaidOut(t)' + (r - head.amount) <= payments[key].amount
    BY <1>2, <2>1, <2>4, <2>5, <2>6, <2>7
  <2> QED
    BY <2>2, <2>8
<1>5. Covered(t)'
  <2> HIDE DEF rest
  <2>1. \A r \in Nat : Affords(rest, r) => Affords(todo[t], r)'
    <3>1. todo'[t] = rest
      BY DEF rest
    <3> QED
      BY <3>1, Zenon DEF Affords
  <2> QED
    BY <1>4, <2>1 DEF Covered
<1> QED
  BY <1>3, <1>5

LEMMA SkipPaidInv ==
  ASSUME TypeInv, PaidInv, Kept, NEW t \in Thread, SkipAllocation(t)
  PROVE  PaidInv'
<1> DEFINE head == Head(todo[t])
           rest == Tail(todo[t])
<1>1. /\ pc[t] = "apply" /\ todo[t] # <<>> /\ paying[t] # NoPayment
      /\ todo' = [todo EXCEPT ![t] = rest]
      /\ pc' = [pc EXCEPT ![t] = IF rest = <<>> THEN "idle" ELSE "apply"]
      /\ paying' = [paying EXCEPT ![t] = IF rest = <<>> THEN NoPayment ELSE @]
      /\ pending' = pending /\ payments' = payments /\ applied' = applied /\ invoices' = invoices
  BY DEF SkipAllocation, Continue, TypeInv, Phase, TypeOK, store, history
<1>2. head.amount >= 0
  <2>1. head.amount = 0 \/ invoices[head.inv] = NoInvoice
    BY DEF SkipAllocation, Skipped
  <2>2. TodoInv(t)
    BY <1>1 DEF PaidInv
  <2>3. invoices[head.inv] = NoInvoice => head.amount >= 0
    BY <1>1, <2>2, TodoTail
  <2> QED
    BY <2>1, <2>3
<1>3. ASSUME NEW u \in Thread, u # t
      PROVE  /\ paying'[u] = paying[u] /\ todo'[u] = todo[u]
             /\ Applying(u)' <=> Applying(u)
             /\ Applying(u) => pending'[u] = pending[u]
  BY <1>1, <1>3 DEF Applying, TypeInv, TypeOK
<1>4. ASSUME paying'[t] # NoPayment PROVE TodoInv(t)' /\ Covered(t)'
  <2>1. paying'[t] = paying[t] /\ todo'[t] = rest /\ ~Applying(t)'
    BY <1>1, <1>4 DEF Applying, TypeInv, TypeOK
  <2> QED
    BY <1>1, <1>2, <2>1, TodoAdvances
<1> QED
  BY <1>1, <1>3, <1>4, QuietStep

LEMMA ReadPaidInv ==
  ASSUME TypeInv, PaidInv, Kept, NEW t \in Thread, ReadForPayment(t)
  PROVE  PaidInv'
<1> DEFINE head == Head(todo[t])
<1>1. /\ pc[t] = "apply" /\ todo[t] # <<>> /\ paying[t] # NoPayment
      /\ todo' = [todo EXCEPT ![t] = Tail(todo[t])]
      /\ pc' = [pc EXCEPT ![t] = "write"]
      /\ paying' = paying /\ payments' = payments /\ applied' = applied /\ invoices' = invoices
  BY DEF ReadForPayment, TypeInv, Phase, TypeOK, store, history
<1>2. PICK new : /\ pending' = [pending EXCEPT ![t] = new]
                 /\ new.inv = head.inv /\ new.amount = head.amount /\ new.by = "payment"
  <2> DEFINE inv == invoices[head.inv]
             new == [inv |-> head.inv, read |-> inv, by |-> "payment", amount |-> head.amount,
                     write |-> [inv EXCEPT !.status =
                       IF Settles(head.amount, inv) THEN "PAID" ELSE "PARTIALLY_PAID"]]
  <2>1. new.inv = head.inv /\ new.amount = head.amount /\ new.by = "payment"
    OBVIOUS
  <2>2. pending' = [pending EXCEPT ![t] = new]
    BY DEF ReadForPayment
  <2> HIDE DEF new, head
  <2> QED
    BY <2>1, <2>2
<1>3. ASSUME NEW u \in Thread, u # t
      PROVE  /\ paying'[u] = paying[u] /\ todo'[u] = todo[u]
             /\ Applying(u)' <=> Applying(u)
             /\ Applying(u) => pending'[u] = pending[u]
  BY <1>1, <1>2, <1>3 DEF Applying, TypeInv, TypeOK
<1>4. TodoInv(t)' /\ Covered(t)'
  <2>1. paying'[t] = paying[t] /\ todo'[t] = Tail(todo[t]) /\ pc'[t] = "write" /\ pending'[t] = new
    BY <1>1, <1>2 DEF TypeInv, TypeOK
  <2>2. Applying(t)' /\ pending'[t].inv = head.inv /\ pending'[t].amount = head.amount
    BY <1>2, <2>1 DEF Applying
  <2> QED
    BY <1>1, <2>1, <2>2, TodoAdvances
<1> QED
  BY <1>1, <1>3, <1>4, QuietStep

\* The steps that neither store a payment nor take or record an allocation.
LEMMA OtherPaidInv ==
  ASSUME TypeInv, PaidInv, Kept, NEW t \in Thread,
         \/ RunBillingCycle(t) \/ BillNext(t) \/ FetchInvoices(t) \/ RejectPayment(t)
         \/ AbortPayment(t)
         \/ \E i \in Invoice : ReadForVoid(t, i) \/ ReadForCredit(t, i)
  PROVE  PaidInv'
<1>1. payments' = payments /\ applied' = applied
  BY DEF RunBillingCycle, BillNext, FetchInvoices, RejectPayment, AbortPayment,
         ReadForVoid, ReadForCredit, store, history
<1>2. CASE AbortPayment(t)
  <2>1. paying'[t] = NoPayment
    BY <1>2 DEF AbortPayment, Continue, TypeInv, TypeOK
  <2>2. ASSUME NEW u \in Thread, u # t
        PROVE  /\ paying'[u] = paying[u] /\ todo'[u] = todo[u]
               /\ Applying(u)' <=> Applying(u)
               /\ Applying(u) => pending'[u] = pending[u]
    BY <1>2, <2>2 DEF AbortPayment, Continue, Applying, TypeInv, TypeOK
  <2> QED
    BY <1>1, <2>1, <2>2, QuietStep
<1>3. CASE RunBillingCycle(t) \/ BillNext(t) \/ FetchInvoices(t) \/ RejectPayment(t)
  <2>1. paying' = paying /\ todo' = todo /\ pending' = pending
    BY <1>3 DEF RunBillingCycle, BillNext, FetchInvoices, RejectPayment
  <2>2. \A u \in Thread : pc'[u] = "write" <=> pc[u] = "write"
    BY <1>3 DEF RunBillingCycle, BillNext, FetchInvoices, RejectPayment, TypeInv, TypeOK
  <2>3. \A u \in Thread : Applying(u)' <=> Applying(u)
    BY <2>1, <2>2 DEF Applying
  <2> QED
    BY <1>1, <2>1, <2>3, QuietStep
<1>4. CASE \E i \in Invoice : ReadForVoid(t, i) \/ ReadForCredit(t, i)
  <2>1. paying' = paying /\ todo' = todo /\ pc[t] = "idle"
    BY <1>4 DEF ReadForVoid, ReadForCredit
  <2>2. pending'[t].by \in {"void", "credit"}
    BY <1>4 DEF ReadForVoid, ReadForCredit, TypeInv, TypeOK
  <2>3. \A u \in Thread : u # t => pc'[u] = pc[u] /\ pending'[u] = pending[u]
    BY <1>4 DEF ReadForVoid, ReadForCredit, TypeInv, TypeOK
  <2>4. ~Applying(t) /\ ~Applying(t)'
    BY <2>1, <2>2 DEF Applying
  <2>5. \A u \in Thread : (Applying(u)' <=> Applying(u)) /\ (Applying(u) => pending'[u] = pending[u])
    BY <2>3, <2>4 DEF Applying
  <2> QED
    BY <1>1, <2>1, <2>5, QuietStep
<1> QED
  BY <1>2, <1>3, <1>4

LEMMA UpdatePaidInv ==
  ASSUME TypeInv, IdsInv, PaidInv, Kept, NEW t \in Thread, Update(t)
  PROVE  PaidInv'
<1> DEFINE p == pending[t]
<1>1. /\ pc[t] = "write" /\ p.inv \in Invoice /\ p.amount \in Int
      /\ pc' = [pc EXCEPT ![t] = IF todo[t] = <<>> THEN "idle" ELSE "apply"]
      /\ paying' = [paying EXCEPT ![t] = IF todo[t] = <<>> THEN NoPayment ELSE @]
      /\ pending' = [pending EXCEPT ![t] = NoInvoice]
      /\ todo' = todo /\ payments' = payments
      /\ p.by # "payment" => applied' = applied
  BY UpdateType DEF Update, Continue
<1>2. ASSUME NEW u \in Thread, u # t
      PROVE  /\ paying'[u] = paying[u] /\ todo'[u] = todo[u]
             /\ Applying(u)' <=> Applying(u)
             /\ Applying(u) => pending'[u] = pending[u]
  BY <1>1, <1>2 DEF Applying, TypeInv, TypeOK
<1>3. /\ pc'[t] # "write" /\ ~Applying(t)'
      /\ paying'[t] # NoPayment => paying'[t] = paying[t]
  BY <1>1 DEF Applying, TypeInv, TypeOK
<1>4. CASE p.by # "payment"
  <2>1. ~Applying(t)
    BY <1>4 DEF Applying
  <2>2. \A u \in Thread : paying'[u] # NoPayment =>
          /\ paying'[u] = paying[u] /\ todo'[u] = todo[u]
          /\ Applying(u)' <=> Applying(u)
          /\ Applying(u) => pending'[u] = pending[u]
    BY <1>1, <1>2, <1>3, <2>1
  <2> QED
    BY <1>1, <1>4, <2>2, QuietStep
<1>5. CASE p.by = "payment"
  <2>1. paying[t] # NoPayment /\ Applying(t)
    BY <1>1, <1>5 DEF Applying, TypeInv, Phase
  <2>2. TodoInv(t) /\ Covered(t)
    BY <2>1 DEF PaidInv
  <2>3. PICK own \in Nat : own = paying[t].id
    BY <2>1, TodoType
  <2>4. Ungiven(p.inv, own) /\ \A k \in DOMAIN todo[t] : todo[t][k].inv # p.inv
    BY <2>1, <2>2, <2>3 DEF TodoInv
  <2>5. /\ \A id \in Nat : IsFiniteSet(Shares(id)')
        /\ \A id \in Nat : Given(id)' = Given(id) + IF id = own THEN p.amount ELSE 0
        /\ \A i \in Invoice : \A a \in applied'[i] :
             a \in applied[i] \/ (i = p.inv /\ a.id = own)
    BY <1>5, <2>3, <2>4, UpdateGiven DEF PaidInv
  <2>6. \A id \in Nat : Given(id) \in Int
    BY GivenType DEF PaidInv
  <2>7. ASSUME NEW u \in Thread, u # t, paying'[u] # NoPayment PROVE TodoInv(u)' /\ Covered(u)'
    <3>1. paying'[u] = paying[u] /\ paying[u] # NoPayment /\ paying[u].id \in Nat
      BY <1>2, <2>7, TodoType
    <3>2. paying[u].id # own
      BY <2>1, <2>3, <2>7, <3>1 DEF IdsInv
    <3>3. \A i \in Invoice : Ungiven(i, paying[u].id) => \A a \in applied'[i] : a.id # paying[u].id
      BY <2>5, <3>2 DEF Ungiven
    <3>4. \A id \in Nat : id = paying[u].id => Given(id)' = Given(id)
      BY <2>5, <2>6, <3>2
    <3>5. Undisturbed(u)
      BY <1>1, <1>2, <2>7, <3>3, <3>4 DEF Undisturbed
    <3> QED
      BY <3>1, <3>5, UndisturbedStays DEF PaidInv
  <2>8. ASSUME paying'[t] # NoPayment PROVE TodoInv(t)' /\ Covered(t)'
    <3>1. paying'[t] = paying[t] /\ todo'[t] = todo[t]
      BY <1>1, <1>3, <2>8
    <3>2. \A k \in DOMAIN todo[t] : todo[t][k].inv \in Invoice
      BY TodoType
    <3>3. TodoInv(t)'
      <4>1. \A k \in DOMAIN todo'[t] : \A a \in applied'[todo'[t][k].inv] : a.id # paying'[t].id
        BY <2>2, <2>4, <2>5, <3>1, <3>2 DEF TodoInv, Ungiven
      <4>2. \A k \in DOMAIN todo'[t] : invoices'[todo'[t][k].inv] = NoInvoice => todo'[t][k].amount >= 0
        BY <2>2, <3>1, <3>2 DEF TodoInv, Kept
      <4>3. \A j, k \in DOMAIN todo'[t] : todo'[t][j].inv = todo'[t][k].inv => j = k
        BY <2>2, <3>1 DEF TodoInv
      <4> QED
        BY <1>3, <4>1, <4>2, <4>3 DEF TodoInv, Ungiven
    <3>4. PaidOut(t)' = PaidOut(t)
      <4>1. PaidOut(t) = Given(own) + p.amount
        BY <2>1, <2>3 DEF PaidOut
      <4>2. PaidOut(t)' = Given(own)' + 0
        BY <1>3, <2>3, <3>1 DEF PaidOut, Given, Shares
      <4>3. Given(own)' = Given(own) + p.amount /\ Given(own) \in Int
        BY <2>5, <2>6
      <4> QED
        BY <1>1, <4>1, <4>2, <4>3
    <3>5. Covered(t)'
      <4>1. \A r \in Nat : Affords(todo[t], r) => Affords(todo[t], r)'
        BY <3>1 DEF Affords
      <4>2. paying'[t].id = paying[t].id
        BY <3>1
      <4> QED
        BY <1>1, <2>2, <3>4, <4>1, <4>2 DEF Covered
    <3> QED
      BY <3>3, <3>5
  <2>9. PaymentNotOverspent'
    <3> SUFFICES ASSUME NEW key \in Invoice, payments[key] # NoPayment
                 PROVE  Given(payments[key].id)' <= payments[key].amount
      BY <1>1 DEF PaymentNotOverspent, Given, Shares
    <3>1. payments[key].id \in Nat /\ payments[key].amount \in Int
      BY BillingAssumption DEF TypeInv, TypeOK, PaymentRecord
    <3>2. PICK id \in Nat : id = payments[key].id
      BY <3>1
    <3>3. Given(payments[key].id)' = Given(id)'
      BY <1>1, <3>2 DEF Given, Shares
    <3>4. Given(id) <= payments[key].amount
      BY <3>2 DEF PaidInv, PaymentNotOverspent
    <3>5. CASE id # own
      BY <2>5, <2>6, <3>3, <3>4, <3>5
    <3>6. CASE id = own
      <4>1. PICK r \in Nat : PaidOut(t) + r <= payments[key].amount
        BY <2>2, <2>3, <3>2, <3>6 DEF Covered
      <4>2. PaidOut(t) = Given(own) + p.amount /\ Given(own) \in Int
        BY <2>1, <2>3, <2>6 DEF PaidOut
      <4>3. Given(own)' = Given(own) + p.amount
        BY <2>5
      <4>4. Given(own) + p.amount <= payments[key].amount
        BY <1>1, <3>1, <4>1, <4>2
      <4> QED
        BY <3>3, <3>6, <4>3, <4>4
    <3> QED
      BY <3>5, <3>6
  <2>10. \A u \in Thread : paying'[u] # NoPayment => TodoInv(u)' /\ Covered(u)'
    BY <2>7, <2>8
  <2> QED
    BY <2>5, <2>9, <2>10 DEF PaidInv
<1> QED
  BY <1>4, <1>5

\* Sorting reorders the entries: each is in one place of the sorted list.
LEMMA OrderInjective ==
  ASSUME NEW entries \in Seq(ListEntry), NEW strategy \in Strategy,
         NEW order \in SortOrders(entries, strategy)
  PROVE  /\ \A k \in DOMAIN entries : order[k] \in DOMAIN entries
         /\ \A j, k \in DOMAIN entries : order[j] = order[k] => j = k
<1>1. order \in [DOMAIN entries -> DOMAIN entries] /\ DOMAIN entries = 1..Len(entries)
      /\ \A j, k \in DOMAIN entries : j < k => Before(entries, strategy, order[j], order[k])
  BY DEF SortOrders
<1>2. \A m \in DOMAIN entries : ~Before(entries, strategy, m, m)
  <2> TAKE m \in DOMAIN entries
  <2>1. entries[m] \in ListEntry /\ m \in Int
    BY <1>1
  <2>2. SortKey(entries[m], strategy) \in Int
    BY <2>1 DEF SortKey, ListEntry
  <2> QED
    BY <2>1, <2>2 DEF Before
<1>3. ASSUME NEW j \in DOMAIN entries, NEW k \in DOMAIN entries, j # k PROVE order[j] # order[k]
  <2>1. j \in Int /\ k \in Int /\ order[j] \in DOMAIN entries
    BY <1>1
  <2>2. j < k \/ k < j
    BY <1>3, <2>1
  <2> QED
    BY <1>1, <1>2, <2>1, <2>2
<1> QED
  BY <1>1, <1>3

LEMMA RecordPaidInv ==
  ASSUME TypeInv, IdsInv, StoredInv, PaidInv, \A u \in Thread : ListInv(u), Kept,
         NEW t \in Thread, RecordPayment(t)
  PROVE  PaidInv'
<1>1. PICK amount \in PayAmount, cur \in Currency, strategy \in Strategy :
        \E order \in SortOrders(list[t], strategy) :
          LET payment == [id |-> nextCall, inv |-> list[t][1].inv, amount |-> amount, cur |-> cur]
          IN /\ payments' = AddPayment(PaymentKey(payment), payment)
             /\ paying' = [paying EXCEPT ![t] = [id |-> nextCall, key |-> PaymentKey(payment), cur |-> cur]]
             /\ todo' = [todo EXCEPT ![t] = Allocations(amount, Sorted(list[t], order))]
  BY Zenon DEF RecordPayment
<1>2. PICK order \in SortOrders(list[t], strategy) :
        LET payment == [id |-> nextCall, inv |-> list[t][1].inv, amount |-> amount, cur |-> cur]
        IN /\ payments' = AddPayment(PaymentKey(payment), payment)
           /\ paying' = [paying EXCEPT ![t] = [id |-> nextCall, key |-> PaymentKey(payment), cur |-> cur]]
           /\ todo' = [todo EXCEPT ![t] = Allocations(amount, Sorted(list[t], order))]
  BY <1>1, Zenon
<1> DEFINE key0 == list[t][1].inv
           sorted == Sorted(list[t], order)
           allocs == Allocations(amount, sorted)
<1>3. /\ payments' = [payments EXCEPT ![key0] =
             [id |-> nextCall, inv |-> key0, amount |-> amount, cur |-> cur]]
      /\ paying' = [paying EXCEPT ![t] = [id |-> nextCall, key |-> key0, cur |-> cur]]
      /\ todo' = [todo EXCEPT ![t] = allocs]
  <2>1. PaymentKey([id |-> nextCall, inv |-> list[t][1].inv, amount |-> amount, cur |-> cur]) = list[t][1].inv
    BY DEF PaymentKey
  <2> QED
    BY <1>2, <2>1 DEF AddPayment
<1>4. /\ pc[t] = "listed" /\ pc' = [pc EXCEPT ![t] = "apply"]
      /\ applied' = applied /\ pending' = pending /\ invoices' = invoices
  BY DEF RecordPayment, history
<1>5. PICK id0 \in Nat : id0 = nextCall
  BY DEF TypeInv, TypeOK
<1>6. /\ list[t] \in Seq(ListEntry) /\ list[t] # <<>> /\ key0 \in Invoice
      /\ \A k \in DOMAIN list[t] : list[t][k].total \in Int /\ list[t][k].inv \in Invoice
  <2>1. list[t] \in Seq(ListEntry) /\ list[t] # <<>>
    BY <1>4 DEF TypeInv, Phase, TypeOK
  <2>2. \A k \in DOMAIN list[t] : list[t][k] \in ListEntry
    BY <2>1
  <2>3. 1 \in DOMAIN list[t]
    BY <2>1
  <2> QED
    BY <2>1, <2>2, <2>3 DEF ListEntry
<1>7. amount \in Nat
  BY BillingAssumption
<1>8. /\ Priced(sorted) /\ Len(sorted) = Len(list[t])
      /\ \A k \in 1..Len(sorted) : sorted[k].inv \in Invoice
  BY <1>6, SortedType
<1>9. /\ Len(allocs) = Len(sorted) /\ DOMAIN allocs = 1..Len(sorted) /\ DOMAIN list[t] = 1..Len(sorted)
      /\ Affords(allocs, amount)
  <2> HIDE DEF sorted
  <2>1. allocs \in Seq([inv : Invoice, amount : Int]) /\ Len(allocs) = Len(sorted)
    <3>1. amount \in Int
      BY <1>7
    <3> QED
      BY <1>8, <3>1, AllocationsType
  <2>2. DOMAIN allocs = 1..Len(sorted)
    BY <2>1
  <2>3. DOMAIN list[t] = 1..Len(sorted)
    BY <1>6, <1>8
  <2>4. Affords(allocs, amount)
    BY <1>7, <1>8, <2>1, AllocationsAfforded
  <2> QED
    BY <2>1, <2>2, <2>3, <2>4
<1>10. \A k \in DOMAIN allocs :
         /\ order[k] \in DOMAIN list[t]
         /\ allocs[k].inv = list[t][order[k]].inv
         /\ invoices[allocs[k].inv] = NoInvoice => allocs[k].amount >= 0
  <2> TAKE k \in DOMAIN allocs
  <2>1. order[k] \in DOMAIN list[t] /\ k \in DOMAIN list[t] /\ sorted[k] = list[t][order[k]]
    BY <1>6, <1>9, OrderInjective DEF Sorted
  <2> DEFINE left == Remaining(amount, sorted)
  <2>2. allocs[k].inv = sorted[k].inv /\ allocs[k].amount = Share(sorted[k].total, left[k-1])
    BY <1>9 DEF Allocations
  <2>3. left[k-1] \in Int /\ sorted[k].total \in Int
    <3>1. left \in [0..Len(sorted) -> Int]
      BY <1>7, <1>8, RemainingStep
    <3>2. k \in 1..Len(sorted) /\ Len(sorted) \in Nat
      BY <1>8, <1>9 DEF Priced
    <3>3. k - 1 \in 0..Len(sorted)
      BY <3>2
    <3> QED
      BY <1>8, <3>1, <3>2, <3>3 DEF Priced
  <2>4. invoices[list[t][order[k]].inv] = NoInvoice => sorted[k].total >= 0
    BY <2>1 DEF ListInv
  <2> HIDE DEF left
  <2>5. sorted[k].total >= 0 => Share(sorted[k].total, left[k-1]) >= 0
    <3>1. sorted[k].total >= 0 => Share(sorted[k].total, left[k-1]) \in 0..sorted[k].total
      BY <2>3, ShareBound
    <3> QED
      BY <2>3, <3>1
  <2> QED
    BY <2>1, <2>2, <2>4, <2>5
<1>11. \A j, k \in DOMAIN allocs : allocs[j].inv = allocs[k].inv => j = k
  <2> TAKE j, k \in DOMAIN allocs
  <2>1. allocs[j].inv = allocs[k].inv => order[j] = order[k]
    BY <1>10 DEF ListInv
  <2> QED
    BY <1>6, <1>9, <2>1, OrderInjective
<1> HIDE DEF allocs, sorted, key0
<1>12. /\ payments'[key0].id = id0 /\ payments'[key0].amount = amount
       /\ \A k \in Invoice : k # key0 => payments'[k] = payments[k]
  BY <1>3, <1>5, <1>6 DEF TypeInv, TypeOK
<1>13. \A k \in Invoice : payments[k] # NoPayment => payments[k].id \in Nat /\ payments[k].id < id0
  BY <1>5 DEF StoredInv, TypeInv, TypeOK, PaymentRecord
<1>14. Shares(id0) = {} /\ Given(id0) = 0
  <2>1. ASSUME NEW share \in Shares(id0) PROVE FALSE
    <3>1. PICK i \in Invoice : \E a \in applied[i] : a.id = id0
      BY <2>1 DEF Shares
    <3>2. PICK a \in applied[i] : a.id = id0
      BY <3>1
    <3> QED
      BY <1>5, <3>2 DEF IdsInv
  <2>2. Shares(id0) = {}
    BY <2>1
  <2> QED
    BY <2>2, GivenType DEF PaidInv
<1>15. \A id : Shares(id)' = Shares(id) /\ Given(id)' = Given(id)
  BY <1>4, GivenSame
<1>16. ASSUME NEW u \in Thread, u # t, paying'[u] # NoPayment PROVE TodoInv(u)' /\ Covered(u)'
  <2>1. /\ paying'[u] = paying[u] /\ todo'[u] = todo[u]
        /\ Applying(u)' <=> Applying(u)
        /\ Applying(u) => pending'[u] = pending[u]
    BY <1>3, <1>4, <1>16 DEF Applying, TypeInv, TypeOK
  <2>2. paying[u].id \in Nat /\ paying[u].id # id0 /\ paying[u] # NoPayment
    BY <1>5, <1>16, <2>1, TodoType DEF IdsInv
  <2>3. \A k \in Invoice : payments'[k] # NoPayment /\ payments'[k].id = paying[u].id
          => payments'[k] = payments[k]
    BY <1>12, <2>2
  <2>4. \A id \in Nat : id = paying[u].id => Given(id)' = Given(id)
    BY <1>15
  <2>5. \A i \in Invoice : Ungiven(i, paying[u].id) => \A a \in applied'[i] : a.id # paying[u].id
    BY <1>4 DEF Ungiven
  <2>6. Undisturbed(u)
    BY <2>1, <2>3, <2>4, <2>5 DEF Undisturbed
  <2> QED
    BY <2>2, <2>6, UndisturbedStays DEF PaidInv
<1>17. /\ paying'[t].id = id0 /\ todo'[t] = allocs /\ ~Applying(t)'
  BY <1>3, <1>4, <1>5 DEF Applying, TypeInv, TypeOK
<1>18. TodoInv(t)'
  <2>1. \A k \in DOMAIN allocs : \A a \in applied'[allocs[k].inv] : a.id # paying'[t].id
    <3> SUFFICES ASSUME NEW k \in DOMAIN allocs, NEW a \in applied[allocs[k].inv] PROVE a.id # id0
      BY <1>4, <1>17
    <3>1. allocs[k].inv \in Invoice
      BY <1>6, <1>10
    <3> QED
      BY <1>5, <3>1 DEF IdsInv
  <2>2. \A k \in DOMAIN allocs : invoices'[allocs[k].inv] = NoInvoice => allocs[k].amount >= 0
    BY <1>4, <1>10
  <2> QED
    BY <1>11, <1>17, <2>1, <2>2 DEF TodoInv, Ungiven
<1>19. Covered(t)'
  <2>1. ASSUME NEW k \in Invoice, payments'[k] # NoPayment, payments'[k].id = paying'[t].id
        PROVE  payments'[k].amount = amount
    BY <1>12, <1>13, <1>17, <2>1
  <2>2. Affords(todo[t], amount)'
    BY <1>9, <1>17 DEF Affords
  <2>3. PaidOut(t)' = 0
    <3>1. Given(paying[t].id)' = Given(id0)'
      BY <1>17 DEF Given, Shares
    <3> QED
      BY <1>14, <1>15, <1>17, <3>1 DEF PaidOut
  <2>4. PaidOut(t)' + amount <= amount
    BY <1>7, <2>3
  <2> QED
    BY <1>7, <2>1, <2>2, <2>4 DEF Covered
<1>20. PaymentNotOverspent'
  <2> SUFFICES ASSUME NEW k \in Invoice, payments'[k] # NoPayment
               PROVE  Given(payments[k].id)' <= payments'[k].amount
    BY DEF PaymentNotOverspent
  <2>1. CASE k = key0
    <3>1. Given(payments[k].id)' = Given(id0)'
      BY <1>12, <2>1 DEF Given, Shares
    <3> QED
      BY <1>7, <1>12, <1>14, <1>15, <2>1, <3>1
  <2>2. CASE k # key0
    <3>1. payments'[k] = payments[k]
      BY <1>12, <2>2
    <3>2. Given(payments[k].id)' = Given(payments[k].id)
      BY <1>4, <3>1 DEF Given, Shares
    <3> QED
      BY <3>1, <3>2 DEF PaidInv, PaymentNotOverspent
  <2> QED
    BY <2>1, <2>2
<1>21. \A u \in Thread : paying'[u] # NoPayment => TodoInv(u)' /\ Covered(u)'
  BY <1>16, <1>18, <1>19
<1>22. \A id \in Nat : IsFiniteSet(Shares(id)')
  BY <1>15 DEF PaidInv
<1> QED
  BY <1>20, <1>21, <1>22 DEF PaidInv

LEMMA NextSpendInv ==
  ASSUME Charge \subseteq Nat, TypeInv, StoredInv, SpendInv, [Next]_vars
  PROVE  SpendInv'
<1>1. Kept
  BY NextKept
<1>2. IdsInv' /\ \A t \in Thread : ListInv(t)'
  BY NextIdsInv, NextListInv DEF SpendInv
<1>3. PaidInv'
  <2>1. CASE UNCHANGED vars
    <3>1. \A u \in Thread : Applying(u)' <=> Applying(u)
      BY <2>1 DEF vars, Applying
    <3> QED
      BY <1>1, <2>1, <3>1, QuietStep DEF SpendInv, vars
  <2> QED
    BY <1>1, <2>1, SkipPaidInv, ReadPaidInv, OtherPaidInv, UpdatePaidInv, RecordPaidInv
       DEF SpendInv, Next, InCall
<1> QED
  BY <1>2, <1>3 DEF SpendInv

\* However the calls interleave, end half-way or overwrite each other's invoices, no
\* stored payment has given its invoices more than its amount.  The hypothesis is
\* about drafts: one with a negative total takes a negative share, which is never
\* applied, since the invoice is not stored, and other invoices would then share more
\* than the amount.
THEOREM NeverOverspent ==
  ASSUME Charge \subseteq Nat
  PROVE  Spec => []PaymentNotOverspent
<1> DEFINE Inv == TypeInv /\ StoredInv /\ SpendInv
<1>1. Init => Inv
  <2> SUFFICES ASSUME Init PROVE SpendInv /\ StoredInv
    BY InitTypeInv
  <2>1. StoredInv /\ IdsInv /\ \A t \in Thread : ListInv(t)
    BY DEF Init, StoredInv, IdsInv, ListInv
  <2>2. \A id \in Nat : Shares(id) = {}
    BY DEF Init, Shares
  <2>3. PaidInv
    BY <2>2, FS_EmptySet DEF Init, PaidInv, PaymentNotOverspent
  <2> QED
    BY <2>1, <2>3 DEF SpendInv
<1>2. Inv /\ [Next]_vars => Inv'
  BY NextTypeInv, NextStoredInv, NextSpendInv
<1>3. Inv => PaymentNotOverspent
  BY DEF SpendInv, PaidInv
<1> HIDE DEF Inv
<1> QED
  BY <1>1, <1>2, <1>3, PTL DEF Spec

=============================================================================
