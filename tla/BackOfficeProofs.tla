-------------------------- MODULE BackOfficeProofs --------------------------
(***************************************************************************)
(* Theorems about the seven desks of the back office: receivables of any   *)
(* number of invoices, charges and days; bank statements and               *)
(* payments of any length; chains of billing periods from any day; any     *)
(* quotes; any queries; contracts of any obligations; invoices of any      *)
(* number of lines.                                                        *)
(*                                                                         *)
(* Each desk has an invariant of its own, which the other desks' steps     *)
(* leave alone.                                                            *)
(***************************************************************************)
EXTENDS BackOffice, SumLemmas, SequenceTheorems

(***************************************************************************)
(* Receivables                                                             *)
(***************************************************************************)

ReceivablesInv ==
  /\ invoices \in [InvoiceId -> InvoiceRecord \cup {Absent}]
  /\ list \in [InvoiceId -> InvoiceRecord \cup {Absent}]
  /\ today \in Nat /\ aged \in Int /\ aged <= today
  /\ \A i \in WithStatus(invoices, {"OVERDUE"}) : PastDue(invoices[i])
  /\ \A i \in WithStatus(list, {"OVERDUE"}) : PastDue(list[i])
  /\ aged = today => \A i \in WithStatus(list, {"OPEN"}) : ~PastDue(list[i])
  /\ WithStatus(list, {"OPEN"}) \subseteq fresh

LEMMA ReceivablesBegin ==
  ASSUME ReceivablesInit
  PROVE  ReceivablesInv
BY DEF ReceivablesInit, ReceivablesInv, NoInvoices, WithStatus, Held

\* What becomes overdue is past its due date, and the rest stays as it is.
LEMMA OverdueIs ==
  ASSUME NEW inv \in [InvoiceId -> InvoiceRecord \cup {Absent}],
         \A i \in WithStatus(inv, {"OVERDUE"}) : PastDue(inv[i])
  PROVE  LET next == Overdue(inv, Transitions(inv)) IN
         /\ next \in [InvoiceId -> InvoiceRecord \cup {Absent}]
         /\ \A i \in WithStatus(next, {"OVERDUE"}) : PastDue(next[i])
         /\ \A i \in WithStatus(next, {"OPEN"}) : ~PastDue(next[i])
         /\ WithStatus(next, {"OPEN"}) = WithStatus(inv, {"OPEN"}) \ Transitions(inv)
<1> DEFINE next == Overdue(inv, Transitions(inv))
<1>1. ASSUME NEW i \in Transitions(inv)
      PROVE  /\ i \in InvoiceId /\ next[i] \in InvoiceRecord /\ next[i].status = "OVERDUE"
             /\ next[i].due = inv[i].due /\ PastDue(inv[i])
  <2>1. i \in InvoiceId /\ inv[i] \in InvoiceRecord /\ PastDue(inv[i])
    BY <1>1 DEF Transitions, WithStatus, Held
  <2>2. next[i] = [inv[i] EXCEPT !.status = "OVERDUE"]
    BY <1>1, <2>1 DEF Overdue
  <2> QED
    BY <2>1, <2>2 DEF InvoiceRecord
<1>2. ASSUME NEW i \in InvoiceId, i \notin Transitions(inv)
      PROVE  next[i] = inv[i]
  BY <1>2 DEF Overdue
<1>3. next \in [InvoiceId -> InvoiceRecord \cup {Absent}]
  <2>1. \A i \in InvoiceId : next[i] \in InvoiceRecord \cup {Absent}
    BY <1>1, <1>2
  <2> QED
    BY <2>1 DEF Overdue
<1> HIDE DEF next
<1>4. \A i \in WithStatus(next, {"OVERDUE"}) : PastDue(next[i])
  BY <1>1, <1>2 DEF WithStatus, Held, PastDue
<1>5. \A i \in InvoiceId : next[i] # Absent /\ next[i].status = "OPEN" =>
        inv[i] # Absent /\ inv[i].status = "OPEN" /\ i \notin Transitions(inv) /\ next[i] = inv[i]
  BY <1>1, <1>2
<1>6. \A i \in WithStatus(next, {"OPEN"}) : ~PastDue(next[i])
  BY <1>5 DEF WithStatus, Held, Transitions
<1>7. WithStatus(next, {"OPEN"}) = WithStatus(inv, {"OPEN"}) \ Transitions(inv)
  BY <1>2, <1>5 DEF WithStatus, Held
<1> QED
  BY <1>3, <1>4, <1>6, <1>7 DEF next

LEMMA ReceivablesStep ==
  ASSUME ReceivablesInv, ReceivablesNext
  PROVE  ReceivablesInv'
<1>1. ASSUME NEW i \in InvoiceId, NEW amount \in Charge, NEW term \in Term, Issue(i, amount, term)
      PROVE  ReceivablesInv'
  <2> DEFINE new == [status |-> "OPEN", total |-> amount, issued |-> today, due |-> today + term]
  <2>1. new \in InvoiceRecord /\ new.status = "OPEN"
    BY ReceivablesAssumption DEF ReceivablesInv, InvoiceRecord
  <2>2. invoices' = [invoices EXCEPT ![i] = new]
    BY <1>1 DEF Issue
  <2> HIDE DEF new
  <2>3. invoices' \in [InvoiceId -> InvoiceRecord \cup {Absent}]
    BY <2>1, <2>2 DEF ReceivablesInv
  <2>4. \A j \in WithStatus(invoices', {"OVERDUE"}) : j \in WithStatus(invoices, {"OVERDUE"}) /\ invoices'[j] = invoices[j]
    BY <2>1, <2>2 DEF ReceivablesInv, WithStatus, Held
  <2>5. UNCHANGED <<today, list, aged, fresh>>
    BY <1>1 DEF Issue
  <2> QED
    BY <2>3, <2>4, <2>5 DEF ReceivablesInv, PastDue, WithStatus, Held
<1>2. ASSUME NEW i \in InvoiceId, NEW status \in {"PARTIALLY_PAID", "PAID"}, Move(i, status)
      PROVE  ReceivablesInv'
  <2>1. invoices[i] \in InvoiceRecord
    BY <1>2 DEF Move, WithStatus, Held, ReceivablesInv
  <2>2. invoices' = [invoices EXCEPT ![i] = [invoices[i] EXCEPT !.status = status]]
    BY <1>2 DEF Move
  <2> DEFINE new == [invoices[i] EXCEPT !.status = status]
  <2>3. new \in InvoiceRecord /\ new.status # "OVERDUE"
    BY <2>1 DEF InvoiceRecord
  <2> HIDE DEF new
  <2>4. invoices' \in [InvoiceId -> InvoiceRecord \cup {Absent}]
    BY <2>2, <2>3 DEF ReceivablesInv, new
  <2>5. \A j \in WithStatus(invoices', {"OVERDUE"}) : j \in WithStatus(invoices, {"OVERDUE"}) /\ invoices'[j] = invoices[j]
    BY <2>2, <2>3 DEF ReceivablesInv, WithStatus, Held, new
  <2>6. UNCHANGED <<today, list, aged, fresh>>
    BY <1>2 DEF Move
  <2> QED
    BY <2>4, <2>5, <2>6 DEF ReceivablesInv, PastDue, WithStatus, Held
<1>3. ASSUME NEW days \in Pass, DaysPass(days)
      PROVE  ReceivablesInv'
  <2>1. days \in Nat
    BY ReceivablesAssumption
  <2>2. today' = today + days /\ UNCHANGED <<invoices, list, aged, fresh>>
    BY <1>3 DEF DaysPass
  <2>3. \A inv \in {invoices, list} : \A i \in WithStatus(inv, {"OVERDUE"}) : inv[i].due \in Nat
    BY DEF ReceivablesInv, WithStatus, Held, InvoiceRecord
  <2>4. \A inv \in {invoices, list} : \A i \in WithStatus(inv, {"OVERDUE"}) : inv[i].due < today'
    BY <2>1, <2>2, <2>3 DEF ReceivablesInv, PastDue
  <2>5. aged' = today' => aged = today /\ today' = today
    BY <2>1, <2>2 DEF ReceivablesInv
  <2>6. aged' <= today' /\ today' \in Nat
    BY <2>1, <2>2 DEF ReceivablesInv
  <2> QED
    BY <2>2, <2>4, <2>5, <2>6 DEF ReceivablesInv, PastDue, WithStatus, Held
<1>4. ASSUME Configure
      PROVE  ReceivablesInv'
  BY <1>4 DEF Configure, ReceivablesInv, WithStatus, Held, PastDue
<1>5. ASSUME RunScheduled
      PROVE  ReceivablesInv'
  <2>1. /\ list' \in [InvoiceId -> InvoiceRecord \cup {Absent}]
        /\ \A i \in WithStatus(list', {"OVERDUE"}) : PastDue(list'[i])
        /\ \A i \in WithStatus(list', {"OPEN"}) : ~PastDue(list'[i])
        /\ WithStatus(list', {"OPEN"}) = WithStatus(list, {"OPEN"}) \ Transitions(list)
    BY <1>5, OverdueIs DEF RunScheduled, ReceivablesInv
  <2>2. UNCHANGED <<invoices, today>> /\ aged' = today /\ fresh' = fresh \ Transitions(list)
    BY <1>5 DEF RunScheduled
  <2> QED
    BY <2>1, <2>2 DEF ReceivablesInv, PastDue, WithStatus, Held
<1>6. ASSUME RunAndStore
      PROVE  ReceivablesInv'
  <2>1. /\ invoices' \in [InvoiceId -> InvoiceRecord \cup {Absent}]
        /\ \A i \in WithStatus(invoices', {"OVERDUE"}) : PastDue(invoices'[i])
    BY <1>6, OverdueIs DEF RunAndStore, ReceivablesInv
  <2>2. UNCHANGED <<today, list, aged, fresh>>
    BY <1>6 DEF RunAndStore
  <2> QED
    BY <2>1, <2>2 DEF ReceivablesInv, PastDue, WithStatus, Held
<1> QED
  BY <1>1, <1>2, <1>3, <1>4, <1>5, <1>6 DEF ReceivablesNext

LEMMA ReceivablesKept ==
  ASSUME ReceivablesInv, UNCHANGED receivablesVars
  PROVE  ReceivablesInv'
BY DEF ReceivablesInv, receivablesVars, WithStatus, Held, PastDue

\* On a day the AgingJob has run, its list and the aging report have the same idea of
\* late, and it never counts an invoice as newly overdue again, for any invoices, days
\* and terms.
THEOREM LatenessAlwaysAgrees == Spec => []LatenessAgrees
<1>1. Init => ReceivablesInv
  BY ReceivablesBegin DEF Init
<1>2. ReceivablesInv /\ [Next]_vars => ReceivablesInv'
  BY ReceivablesStep, ReceivablesKept DEF Next, vars
<1>3. ReceivablesInv => LatenessAgrees
  <2> SUFFICES ASSUME ReceivablesInv
               PROVE  AgingAgrees /\ OverdueCountedOnce
    BY DEF LatenessAgrees
  <2>1. OverdueCountedOnce
    BY DEF OverdueCountedOnce, ReceivablesInv, Transitions
  <2>2. AgingAgrees
    <3> SUFFICES ASSUME aged = today, NEW i \in Reportable(list)
                 PROVE  (list[i].status = "OVERDUE") = (ReportBucket(list, i) > 0)
      BY DEF AgingAgrees
    <3>1. i \in InvoiceId /\ list[i] \in InvoiceRecord /\ list[i] # Absent
          /\ list[i].status \in {"OPEN", "DRAFT", "OVERDUE"}
      BY DEF Reportable, WithStatus, Held, ReceivablesInv
    <3>2. list[i].due \in Nat /\ list[i].status \in {"OPEN", "OVERDUE"}
      BY <3>1 DEF InvoiceRecord
    <3>3. (list[i].status = "OVERDUE") <=> list[i].due < today
      BY <3>1, <3>2 DEF ReceivablesInv, WithStatus, Held, PastDue
    <3>4. \A d \in Int : (Bucket(d) > 0) <=> d > 0
      BY DEF Bucket
    <3>5. today - list[i].due \in Int /\ (today - list[i].due > 0 <=> list[i].due < today)
      BY <3>2 DEF ReceivablesInv
    <3> QED
      BY <3>3, <3>4, <3>5 DEF ReportBucket
  <2> QED
    BY <2>1, <2>2
<1> QED
  BY <1>1, <1>2, <1>3, PTL DEF Spec

(***************************************************************************)
(* The two agings of a customer                                            *)
(***************************************************************************)

\* What the sums add up for each id.
Worth(inv) == [i \in InvoiceId |-> IF inv[i] = Absent THEN 0 ELSE inv[i].total]

LEMMA TotalsIs ==
  ASSUME NEW inv \in [InvoiceId -> InvoiceRecord \cup {Absent}], NEW ids \in SUBSET Held(inv)
  PROVE  /\ Totals(inv, ids) = SumFunctionOnSet(Worth(inv), ids)
         /\ IsFiniteSet(ids)
         /\ \A i \in InvoiceId : Worth(inv)[i] \in Int
         /\ Totals(inv, ids) \in Int
<1>1. ids \in SUBSET InvoiceId
  BY DEF Held
<1>2. IsFiniteSet(InvoiceId)
  BY ReceivablesAssumption, FS_Interval DEF InvoiceId
<1>3. IsFiniteSet(ids)
  BY <1>1, <1>2, FS_Subset
<1>4. \A i \in InvoiceId : Worth(inv)[i] \in Int
  <2>1. \A i \in InvoiceId : inv[i] # Absent => inv[i].total \in Charge
    BY DEF InvoiceRecord
  <2>2. \A i \in InvoiceId : inv[i] # Absent => inv[i].total \in Int
    BY <2>1, ReceivablesAssumption
  <2> QED
    BY <2>2 DEF Worth
<1> DEFINE f == [i \in ids |-> inv[i].total]
<1>5. Totals(inv, ids) = SumFunctionOnSet(f, ids)
  <2>1. DOMAIN f = ids
    OBVIOUS
  <2> QED
    BY <2>1, Zenon DEF SumFunction, Totals
<1>6. \A i \in ids : f[i] \in Int /\ f[i] = Worth(inv)[i]
  <2>1. \A i \in ids : inv[i] # Absent /\ i \in InvoiceId
    BY DEF Held
  <2> QED
    BY <1>4, <2>1 DEF Worth
<1> HIDE DEF f
<1>7. SumFunctionOnSet(f, ids) = SumFunctionOnSet(Worth(inv), ids)
  BY <1>3, <1>6, SumEqual
<1>8. SumFunctionOnSet(Worth(inv), ids) \in Int
  BY <1>1, <1>3, <1>4, SumType
<1> QED
  BY <1>3, <1>4, <1>5, <1>7, <1>8

\* Invoices are issued on the day they are due, or before.
DueLater == \A i \in Held(invoices) : invoices[i].issued <= invoices[i].due

LEMMA DueLaterStep ==
  ASSUME ReceivablesInv, DueLater, ReceivablesNext
  PROVE  DueLater'
<1>1. invoices \in [InvoiceId -> InvoiceRecord \cup {Absent}]
  BY DEF ReceivablesInv
<1>2. ASSUME NEW i \in InvoiceId, NEW amount \in Charge, NEW term \in Term, Issue(i, amount, term)
      PROVE  DueLater'
  <2> DEFINE new == [status |-> "OPEN", total |-> amount, issued |-> today, due |-> today + term]
  <2>1. new.issued <= new.due
    BY ReceivablesAssumption DEF ReceivablesInv
  <2>2. invoices' = [invoices EXCEPT ![i] = new]
    BY <1>2 DEF Issue
  <2> HIDE DEF new
  <2> QED
    BY <1>1, <2>1, <2>2 DEF DueLater, Held
<1>3. ASSUME NEW i \in InvoiceId, NEW status \in {"PARTIALLY_PAID", "PAID"}, Move(i, status)
      PROVE  DueLater'
  <2>1. /\ invoices[i] \in InvoiceRecord /\ invoices[i] # Absent
        /\ invoices' = [invoices EXCEPT ![i] = [invoices[i] EXCEPT !.status = status]]
    BY <1>1, <1>3 DEF Move, WithStatus, Held
  <2> DEFINE new == [invoices[i] EXCEPT !.status = status]
  <2>2. new.issued = invoices[i].issued /\ new.due = invoices[i].due
    BY <2>1 DEF InvoiceRecord
  <2>3. invoices'[i] = new /\ \A j \in InvoiceId : j # i => invoices'[j] = invoices[j]
    BY <1>1, <2>1
  <2> HIDE DEF new
  <2> QED
    BY <2>1, <2>2, <2>3 DEF DueLater, Held
<1>4. ASSUME RunAndStore
      PROVE  DueLater'
  <2>1. invoices' = Overdue(invoices, Transitions(invoices))
    BY <1>4 DEF RunAndStore
  <2>2. ASSUME NEW j \in InvoiceId, invoices'[j] # Absent
        PROVE  /\ invoices[j] # Absent
               /\ invoices'[j].issued = invoices[j].issued /\ invoices'[j].due = invoices[j].due
    <3>1. CASE j \in Transitions(invoices)
      <4>1. invoices[j] \in InvoiceRecord /\ invoices[j] # Absent
        BY <1>1, <3>1 DEF Transitions, WithStatus, Held
      <4>2. invoices'[j] = [invoices[j] EXCEPT !.status = "OVERDUE"]
        BY <2>1, <3>1 DEF Overdue
      <4> QED
        BY <4>1, <4>2 DEF InvoiceRecord
    <3>2. CASE j \notin Transitions(invoices)
      BY <2>1, <2>2, <3>2 DEF Overdue
    <3> QED
      BY <3>1, <3>2
  <2> QED
    BY <2>2 DEF DueLater, Held
<1>5. ASSUME UNCHANGED invoices
      PROVE  DueLater'
  BY <1>5 DEF DueLater, Held
<1>6. ASSUME NEW days \in Pass, DaysPass(days) PROVE DueLater'
  BY <1>5, <1>6 DEF DaysPass
<1>7. ASSUME Configure \/ RunScheduled PROVE DueLater'
  BY <1>5, <1>7 DEF Configure, RunScheduled
<1> QED
  BY <1>2, <1>3, <1>4, <1>6, <1>7 DEF ReceivablesNext

\* The buckets from one on, the ids in a bucket, and those in it or in a later one.
FromBucket(k) == k..4

In(ids, bucket, k) == {i \in ids : bucket[i] = k}

From(ids, bucket, k) == {i \in ids : bucket[i] >= k}

\* What is in the buckets from k on is the total of what is in those buckets.
LEMMA BucketsAddUp ==
  ASSUME NEW inv \in [InvoiceId -> InvoiceRecord \cup {Absent}], NEW ids, ids \subseteq Held(inv),
         NEW bucket \in [ids -> 0..4],
         NEW g, \A k \in 0..4 : g[k] = Totals(inv, In(ids, bucket, k))
  PROVE  \A k \in 0..4 : SumFunctionOnSet(g, FromBucket(k)) = SumFunctionOnSet(Worth(inv), From(ids, bucket, k))
<1> DEFINE in(k) == In(ids, bucket, k)
           from(k) == From(ids, bucket, k)
           w == Worth(inv)
           P(k) == SumFunctionOnSet(g, k..4) = SumFunctionOnSet(w, from(k))
<1>1. IsFiniteSet(ids) /\ (\A i \in InvoiceId : w[i] \in Int) /\ ids \subseteq InvoiceId
  BY TotalsIs DEF Held
<1>2. \A k \in 0..4 : g[k] = SumFunctionOnSet(w, in(k)) /\ g[k] \in Int
  <2> TAKE k \in 0..4
  <2>1. in(k) \in SUBSET Held(inv)
    BY DEF In
  <2>2. Totals(inv, in(k)) = SumFunctionOnSet(w, in(k)) /\ Totals(inv, in(k)) \in Int
    BY <2>1, TotalsIs
  <2>3. g[k] = Totals(inv, in(k))
    OBVIOUS
  <2> QED
    BY <2>2, <2>3
<1>3. \A k \in Int : IsFiniteSet(in(k)) /\ IsFiniteSet(from(k)) /\ \A i \in in(k) \cup from(k) : w[i] \in Int
  <2> TAKE k \in Int
  <2>1. in(k) \in SUBSET ids /\ from(k) \in SUBSET ids
    BY DEF In, From
  <2> QED
    BY <1>1, <2>1, FS_Subset
<1>4. P(5)
  <2>1. 5..4 = {} /\ from(5) = {}
    BY DEF From
  <2>2. SumFunctionOnSet(g, {}) = 0 /\ SumFunctionOnSet(w, {}) = 0
    BY SumEmpty
  <2> QED
    BY <2>1, <2>2
<1>5. \A k \in 0..4 : from(k) = from(k + 1) \cup in(k) /\ from(k + 1) \cap in(k) = {}
  BY DEF In, From
<1> HIDE DEF w, in, from
<1>6. ASSUME NEW k \in 0..4, P(k + 1)
      PROVE  P(k)
  <2>1. k..4 = (k + 1..4) \cup {k} /\ k \notin k + 1..4 /\ \A y \in (k + 1..4) \cup {k} : y \in 0..4
    OBVIOUS
  <2>2. IsFiniteSet(k + 1..4)
    BY FS_Interval
  <2>3. SumFunctionOnSet(g, (k + 1..4) \cup {k}) = SumFunctionOnSet(g, k + 1..4) + g[k]
    BY <1>2, <2>1, <2>2, SumAdd
  <2>4. /\ IsFiniteSet(from(k + 1)) /\ IsFiniteSet(in(k))
        /\ \A i \in from(k + 1) \cup in(k) : w[i] \in Int
    <3>1. k \in Int /\ k + 1 \in Int
      OBVIOUS
    <3> QED
      BY <1>3, <3>1
  <2>5. SumFunctionOnSet(w, from(k + 1) \cup in(k)) = SumFunctionOnSet(w, from(k + 1)) + SumFunctionOnSet(w, in(k))
    BY <1>5, <2>4, SumDisjoint
  <2> QED
    BY <1>2, <1>5, <1>6, <2>1, <2>3, <2>5
<1>7. P(4)
  BY <1>4, <1>6
<1>8. P(3)
  BY <1>6, <1>7
<1>9. P(2)
  BY <1>6, <1>8
<1>10. P(1)
  BY <1>6, <1>9
<1>11. P(0)
  BY <1>6, <1>10
<1>12. \A k \in 0..4 : P(k)
  <2> HIDE DEF P
  <2>1. 0..4 = {0, 1, 2, 3, 4}
    OBVIOUS
  <2> QED
    BY <1>7, <1>8, <1>9, <1>10, <1>11, <2>1
<1> QED
  BY <1>12, Zenon DEF w, from, FromBucket

\* An invoice in one of the report's buckets is in the same one of the ledger or in a
\* later one.
LEMMA LedgerIsLater ==
  ASSUME ReceivablesInv, DueLater, NEW i \in Reportable(invoices)
  PROVE  /\ i \in Held(invoices)
         /\ ReportBucket(invoices, i) \in 0..4 /\ LedgerBucket(invoices, i) \in 0..4
         /\ ReportBucket(invoices, i) <= LedgerBucket(invoices, i)
<1>1. \A d \in Int : Bucket(d) \in 0..4
  BY DEF Bucket
<1>2. \A d, e \in Int : d <= e => Bucket(d) <= Bucket(e)
  BY DEF Bucket
<1>3. i \in Held(invoices) /\ invoices[i] \in InvoiceRecord
  BY DEF Reportable, WithStatus, Held, ReceivablesInv
<1>4. /\ today - invoices[i].due \in Int /\ today - invoices[i].issued \in Int
      /\ today - invoices[i].due <= today - invoices[i].issued
  BY <1>3 DEF InvoiceRecord, ReceivablesInv, DueLater
<1> QED
  BY <1>1, <1>2, <1>3, <1>4 DEF ReportBucket, LedgerBucket

\* From each bucket on the ledger is what the report is and what only the ledger has, two
\* sets of invoices that have none in common.
LEMMA LedgerAddsUp ==
  ASSUME ReceivablesInv, DueLater
  PROVE  ReportInLedger
<1> DEFINE reported == [i \in Reportable(invoices) |-> ReportBucket(invoices, i)]
           booked == [i \in Held(invoices) |-> LedgerBucket(invoices, i)]
           w == Worth(invoices)
<1>1. invoices \in [InvoiceId -> InvoiceRecord \cup {Absent}]
  BY DEF ReceivablesInv
<1>2. Reportable(invoices) \subseteq Held(invoices) /\ Held(invoices) \subseteq Held(invoices)
  BY DEF Reportable, WithStatus
<1>3. reported \in [Reportable(invoices) -> 0..4]
  BY LedgerIsLater
<1>4. booked \in [Held(invoices) -> 0..4]
  <2>1. \A i \in Held(invoices) : invoices[i] \in InvoiceRecord
    BY <1>1 DEF Held
  <2>2. \A i \in Held(invoices) : today - invoices[i].issued \in Int
    BY <2>1 DEF InvoiceRecord, ReceivablesInv
  <2>3. \A d \in Int : Bucket(d) \in 0..4
    BY DEF Bucket
  <2> QED
    BY <2>2, <2>3 DEF LedgerBucket
<1>5. \A i \in Held(invoices) : w[i] \in Int
  BY <1>1, <1>2, TotalsIs DEF Held
<1>6. \A k \in 0..4 : ReportBuckets(invoices)[k] = Totals(invoices, In(Reportable(invoices), reported, k))
  <2> TAKE k \in 0..4
  <2>1. In(Reportable(invoices), reported, k) = {i \in Reportable(invoices) : ReportBucket(invoices, i) = k}
    BY DEF In
  <2> QED
    BY <2>1 DEF ReportBuckets
<1>7. \A k \in 0..4 : LedgerBuckets(invoices)[k] = Totals(invoices, In(Held(invoices), booked, k))
  <2> TAKE k \in 0..4
  <2>1. In(Held(invoices), booked, k) = {i \in Held(invoices) : LedgerBucket(invoices, i) = k}
    BY DEF In
  <2> QED
    BY <2>1 DEF LedgerBuckets
<1>8. \A i \in Reportable(invoices) : i \in Held(invoices) /\ reported[i] <= booked[i]
  BY LedgerIsLater
<1> HIDE DEF reported, booked
<1>9. \A k \in 0..4 : SumFunctionOnSet(ReportBuckets(invoices), FromBucket(k))
                       = SumFunctionOnSet(w, From(Reportable(invoices), reported, k))
  BY <1>1, <1>2, <1>3, <1>6, BucketsAddUp
<1>10. \A k \in 0..4 : SumFunctionOnSet(LedgerBuckets(invoices), FromBucket(k))
                        = SumFunctionOnSet(w, From(Held(invoices), booked, k))
  BY <1>1, <1>2, <1>4, <1>7, BucketsAddUp
<1> HIDE DEF w
<1>11. ASSUME NEW k \in 0..4
       PROVE  SumFunctionOnSet(LedgerBuckets(invoices), FromBucket(k))
                = SumFunctionOnSet(ReportBuckets(invoices), FromBucket(k)) + Totals(invoices, OnlyInLedger(k))
  <2> DEFINE R == From(Reportable(invoices), reported, k)
             L == From(Held(invoices), booked, k)
             O == OnlyInLedger(k)
  <2>1. O = {i \in Held(invoices) : booked[i] >= k /\ ~(i \in Reportable(invoices) /\ reported[i] >= k)}
    BY DEF OnlyInLedger, booked, reported
  <2>2. L = R \cup O /\ R \cap O = {}
    BY <1>2, <1>3, <1>4, <1>8, <2>1 DEF From
  <2>3. O \in SUBSET Held(invoices) /\ R \in SUBSET Held(invoices)
    BY <1>2, <2>1 DEF From
  <2> HIDE DEF R, L, O
  <2>4. IsFiniteSet(R) /\ IsFiniteSet(O) /\ Totals(invoices, O) = SumFunctionOnSet(w, O)
    BY <1>1, <2>3, TotalsIs DEF w
  <2>5. \A i \in R \cup O : w[i] \in Int
    BY <1>5, <2>3
  <2>6. SumFunctionOnSet(w, R \cup O) = SumFunctionOnSet(w, R) + SumFunctionOnSet(w, O)
    BY <2>2, <2>4, <2>5, SumDisjoint
  <2> QED
    BY <1>9, <1>10, <2>2, <2>4, <2>6 DEF R, L, O
<1> QED
  BY <1>11, Zenon DEF ReportInLedger, FromBucket

\* The buckets of the report add up to the total of the invoices in it, and those are the
\* ones that the credit check counts: no stored invoice is a draft.
LEMMA ReportAddsUp ==
  ASSUME ReceivablesInv, DueLater
  PROVE  ReportIsOutstanding
<1> DEFINE ids == Reportable(invoices)
           reported == [i \in ids |-> ReportBucket(invoices, i)]
           w == Worth(invoices)
<1>1. invoices \in [InvoiceId -> InvoiceRecord \cup {Absent}]
  BY DEF ReceivablesInv
<1>2. ids \subseteq Held(invoices)
  BY DEF Reportable, WithStatus
<1>3. reported \in [ids -> 0..4]
  BY LedgerIsLater
<1>4. \A k \in 0..4 : ReportBuckets(invoices)[k] = Totals(invoices, In(ids, reported, k))
  <2> TAKE k \in 0..4
  <2>1. In(ids, reported, k) = {i \in Reportable(invoices) : ReportBucket(invoices, i) = k}
    BY DEF In
  <2> QED
    BY <2>1 DEF ReportBuckets
<1>5. From(ids, reported, 0) = ids
  BY <1>3 DEF From
<1>6. ids = WithStatus(invoices, {"OPEN", "OVERDUE"})
  <2>1. \A i \in Held(invoices) : invoices[i].status # "DRAFT"
    BY <1>1 DEF Held, InvoiceRecord
  <2> QED
    BY <2>1 DEF Reportable, WithStatus
<1> HIDE DEF ids, reported
<1>7. SumFunctionOnSet(ReportBuckets(invoices), FromBucket(0)) = SumFunctionOnSet(w, ids)
  <2>1. \A k \in 0..4 : SumFunctionOnSet(ReportBuckets(invoices), FromBucket(k))
                          = SumFunctionOnSet(w, From(ids, reported, k))
    BY <1>1, <1>2, <1>3, <1>4, BucketsAddUp
  <2> QED
    BY <1>5, <2>1
<1>8. Totals(invoices, ids) = SumFunctionOnSet(w, ids)
  BY <1>1, <1>2, TotalsIs
<1> QED
  BY <1>6, <1>7, <1>8 DEF ReportIsOutstanding, Outstanding, FromBucket

\* The aging report and the aging of the ledger differ by the invoices that only the
\* ledger counts, or counts as older, and by nothing else, for any charges, credit notes
\* among them, any terms and any days; and the report adds up to what the credit check
\* counts.
THEOREM ReportsAlwaysAgree == Spec => []ReportsAgree
<1> DEFINE Inv == ReceivablesInv /\ DueLater
<1>1. Init => Inv
  BY ReceivablesBegin DEF Init, ReceivablesInit, NoInvoices, DueLater, Held
<1>2. Inv /\ [Next]_vars => Inv'
  <2> SUFFICES ASSUME Inv, [Next]_vars PROVE Inv'
    OBVIOUS
  <2>1. CASE ReceivablesNext
    BY <2>1, ReceivablesStep, DueLaterStep
  <2>2. CASE UNCHANGED receivablesVars
    BY <2>2, ReceivablesKept DEF receivablesVars, DueLater, Held
  <2> QED
    BY <2>1, <2>2 DEF Next, vars
<1>3. Inv => ReportsAgree
  BY LedgerAddsUp, ReportAddsUp DEF ReportsAgree
<1> QED
  BY <1>1, <1>2, <1>3, PTL DEF Spec

(***************************************************************************)
(* Reconciliation                                                          *)
(***************************************************************************)

\* A function into the naturals has a least value on every set that is not empty.
LEMMA LeastValue ==
  ASSUME NEW S, S # {}, NEW f \in [S -> Nat]
  PROVE  \E x \in S : \A y \in S : f[x] <= f[y]
<1> DEFINE T == {f[x] : x \in S}
<1>1. T \in SUBSET Nat /\ T # {}
  OBVIOUS
<1>2. PICK m \in T : \A n \in T : m <= n
  BY <1>1, LeastNat
<1> QED
  BY <1>2

ReconciliationInv ==
  /\ payments \in Payments /\ entries \in Entries
  /\ turn \in 1..Len(payments) + 1
  /\ matched \subseteq Pairs /\ Matching(matched)
  /\ \A pair \in matched : Near(pair[1], pair[2]) /\ pair[1] < turn
  /\ \A p \in 1..turn - 1, e \in DOMAIN entries :
       Near(p, e) => \E pair \in matched : pair[1] = p \/ pair[2] = e

\* The payments and the entries are sequences, and their dates are dates.
LEMMA ListsAre ==
  ASSUME payments \in Payments, entries \in Entries
  PROVE  /\ Len(payments) \in Nat /\ DOMAIN payments = 1..Len(payments)
         /\ Len(entries) \in Nat /\ DOMAIN entries = 1..Len(entries)
         /\ \A p \in DOMAIN payments : payments[p].date \in [month : Int, day : Int] \cup {NoDate}
         /\ \A e \in DOMAIN entries : entries[e].date \in [month : Int, day : Int]
<1> DEFINE day == [month : Int, day : Int]
           paying == [amount : Int, date : day \cup {NoDate}]
           entering == [amount : Int, date : day]
<1>1. payments \in Seq(paying) /\ entries \in Seq(entering)
  BY ReconciliationAssumption
<1>2. /\ \A r \in paying : r.date \in day \cup {NoDate}
      /\ \A r \in entering : r.date \in day
  OBVIOUS
<1> HIDE DEF paying, entering, day
<1>3. /\ Len(payments) \in Nat /\ DOMAIN payments = 1..Len(payments)
      /\ Len(entries) \in Nat /\ DOMAIN entries = 1..Len(entries)
  BY <1>1
<1>4. /\ \A p \in DOMAIN payments : payments[p] \in paying
      /\ \A e \in DOMAIN entries : entries[e] \in entering
  BY <1>1, <1>3
<1> QED
  BY <1>2, <1>3, <1>4 DEF day

\* The ordinal of a date is an integer, so a distance is a natural number.
LEMMA OrdinalIsInt ==
  ASSUME NEW date \in [month : Int, day : Int]
  PROVE  Ordinal(date) \in Int
<1>1. date.month \div 12 \in Int /\ date.month % 12 \in 0..11
  OBVIOUS
<1>2. \A k \in 1..12 : <<0, 31, 59, 90, 120, 151, 181, 212, 243, 273, 304, 334>>[k] \in Int
  OBVIOUS
<1>3. <<0, 31, 59, 90, 120, 151, 181, 212, 243, 273, 304, 334>>[InYear(date.month) + 1] \in Int
  BY <1>1, <1>2 DEF InYear
<1>4. DaysBefore(date.month) \in Int
  BY <1>1, <1>3 DEF DaysBefore, Year
<1> QED
  BY <1>4 DEF Ordinal

LEMMA DistanceIsNat ==
  ASSUME payments \in Payments, entries \in Entries,
         NEW p \in DOMAIN payments, NEW e \in DOMAIN entries, payments[p].date # NoDate
  PROVE  Distance(p, e) \in Nat
<1> DEFINE a == payments[p].date
           b == entries[e].date
           low == Ordinal(Earlier(a, b))
           high == Ordinal(Later(a, b))
<1>1. a \in [month : Int, day : Int] /\ b \in [month : Int, day : Int]
  BY ListsAre
<1>2. low \in Int /\ high \in Int
  BY <1>1, OrdinalIsInt DEF Earlier, Later
<1>3. IsFiniteSet(low..high)
  BY <1>2, FS_Interval
<1>4. IsFiniteSet({n \in low..high : IsBusinessDay(n)})
  BY <1>3, FS_Subset
<1> QED
  BY <1>4, FS_CardinalityType DEF Distance, BusinessDays

\* Of free entries a payment claims one.
LEMMA BestIsFree ==
  ASSUME payments \in Payments, entries \in Entries,
         NEW p \in DOMAIN payments, FreeEntries(p) # {}
  PROVE  Best(p, FreeEntries(p)) \in FreeEntries(p)
<1> DEFINE free == FreeEntries(p)
           f == [e \in free |-> Distance(p, e)]
           nearest == {e \in free : \A other \in free : Distance(p, e) <= Distance(p, other)}
<1>1. \A e \in free : e \in DOMAIN entries /\ payments[p].date # NoDate
  BY DEF FreeEntries, Near
<1>2. f \in [free -> Nat]
  BY <1>1, DistanceIsNat
<1>3. PICK x \in free : \A y \in free : f[x] <= f[y]
  <2> HIDE DEF f, free
  <2> QED
    BY <1>2, LeastValue DEF free
<1>4. nearest # {} /\ nearest \subseteq DOMAIN entries
  BY <1>1, <1>3
<1>5. DOMAIN entries \subseteq Nat
  BY ListsAre
<1>6. PICK least \in nearest : \A y \in nearest : least <= y
  <2> DEFINE g == [n \in nearest |-> n]
  <2>1. g \in [nearest -> Nat]
    BY <1>4, <1>5
  <2>2. \E x1 \in nearest : \A y \in nearest : g[x1] <= g[y]
    <3> HIDE DEF g, nearest
    <3> QED
      BY <1>4, <2>1, LeastValue
  <2> QED
    BY <2>2
<1>7. Min(nearest) \in nearest
  BY <1>6 DEF Min
<1> QED
  BY <1>7 DEF Best

LEMMA ReconciliationBegin ==
  ASSUME payments \in Payments, entries \in Entries, ReconciliationInit
  PROVE  ReconciliationInv
<1>1. Len(payments) \in Nat
  BY ListsAre
<1> QED
  BY <1>1 DEF ReconciliationInit, ReconciliationInv, Matching

LEMMA ClaimStep ==
  ASSUME ReconciliationInv, Claim
  PROVE  ReconciliationInv'
<1>1. /\ turn \in DOMAIN payments /\ turn' = turn + 1 /\ UNCHANGED <<payments, entries>>
      /\ matched' = matched \cup
           (IF FreeEntries(turn) = {} THEN {} ELSE {<<turn, Best(turn, FreeEntries(turn))>>})
  BY DEF Claim
<1>2. turn \in Nat /\ turn \in 1..Len(payments) /\ DOMAIN payments = 1..Len(payments) /\ Len(payments) \in Nat
  BY <1>1, ListsAre DEF ReconciliationInv
<1>3. UNCHANGED Pairs /\ \A p, e : Near(p, e)' = Near(p, e)
  BY <1>1 DEF Pairs, Near, Distance
<1>4. \A p \in 1..turn' - 1 : p \in 1..turn - 1 \/ p = turn
  BY <1>1, <1>2
<1>5. turn' \in 1..Len(payments') + 1
  BY <1>1, <1>2
<1>6. CASE FreeEntries(turn) = {}
  <2>1. matched' = matched
    BY <1>1, <1>6
  <2>2. \A e \in DOMAIN entries : Near(turn, e) => \E pair \in matched : pair[2] = e
    BY <1>6 DEF FreeEntries
  <2>3. \A pair \in matched : pair[1] < turn + 1
    <3>1. \A pair \in matched : pair[1] \in DOMAIN payments
      BY DEF ReconciliationInv, Pairs
    <3> QED
      BY <1>2, <3>1 DEF ReconciliationInv
  <2>4. \A p \in 1..turn' - 1, e \in DOMAIN entries :
          Near(p, e) => \E pair \in matched : pair[1] = p \/ pair[2] = e
    BY <1>4, <2>2 DEF ReconciliationInv
  <2> QED
    BY <1>1, <1>3, <1>5, <2>1, <2>3, <2>4 DEF ReconciliationInv, Matching
<1>7. CASE FreeEntries(turn) # {}
  <2> DEFINE e1 == Best(turn, FreeEntries(turn))
  <2>1. e1 \in FreeEntries(turn)
    BY <1>1, <1>7, BestIsFree DEF ReconciliationInv
  <2> HIDE DEF e1
  <2>2. matched' = matched \cup {<<turn, e1>>}
    BY <1>1, <1>7 DEF e1
  <2>3. e1 \in DOMAIN entries /\ Near(turn, e1) /\ \A pair \in matched : pair[2] # e1
    BY <2>1 DEF FreeEntries
  <2>4. \A pair \in matched : pair[1] < turn /\ pair[1] # turn /\ pair[1] < turn + 1
    <3>1. \A pair \in matched : pair[1] \in 1..Len(payments)
      BY <1>2 DEF ReconciliationInv, Pairs
    <3> QED
      BY <1>2, <3>1 DEF ReconciliationInv
  <2>5. matched' \subseteq Pairs
    BY <1>1, <2>2, <2>3 DEF ReconciliationInv, Pairs
  <2>6. Matching(matched')
    BY <2>2, <2>3, <2>4 DEF Matching, ReconciliationInv
  <2>7. \A pair \in matched' : Near(pair[1], pair[2]) /\ pair[1] < turn + 1
    BY <1>2, <2>2, <2>3, <2>4 DEF ReconciliationInv
  <2>8. \A p \in 1..turn' - 1, e \in DOMAIN entries :
          Near(p, e) => \E pair \in matched' : pair[1] = p \/ pair[2] = e
    <3>1. <<turn, e1>> \in matched' /\ <<turn, e1>>[1] = turn
      BY <2>2
    <3> QED
      BY <1>4, <2>2, <3>1 DEF ReconciliationInv
  <2> QED
    BY <1>1, <1>3, <1>5, <2>5, <2>6, <2>7, <2>8 DEF ReconciliationInv, Matching
<1> QED
  BY <1>6, <1>7

\* Each pair of any matching shares its payment or its entry with a pair that was
\* claimed, and no claimed pair is shared by more than two.
LEMMA AtLeastHalf ==
  ASSUME ReconciliationInv, turn > Len(payments), NEW pairs \in Matchings
  PROVE  Cardinality(pairs) <= 2 * Cardinality(matched)
<1> DEFINE Of(x) == CHOOSE pair \in matched : pair[1] = x[1] \/ pair[2] = x[2]
           f == [x \in pairs |-> <<Of(x), IF Of(x)[1] = x[1] THEN 1 ELSE 2>>]
<1>1. pairs \subseteq Pairs /\ Matching(pairs) /\ \A x \in pairs : Near(x[1], x[2])
  BY DEF Matchings
<1>2. \A x \in pairs : Of(x) \in matched /\ (Of(x)[1] = x[1] \/ Of(x)[2] = x[2])
  <2>1. Len(payments) \in Nat /\ DOMAIN payments = 1..Len(payments) /\ turn = Len(payments) + 1
    BY ListsAre DEF ReconciliationInv
  <2>2. ASSUME NEW x \in pairs
        PROVE  \E pair \in matched : pair[1] = x[1] \/ pair[2] = x[2]
    <3>1. x[1] \in 1..turn - 1 /\ x[2] \in DOMAIN entries
      BY <1>1, <2>1 DEF Pairs
    <3> QED
      BY <1>1, <3>1 DEF ReconciliationInv
  <2> QED
    BY <2>2
<1> HIDE DEF Of
<1>3. f \in Injection(pairs, matched \X {1, 2})
  <2>1. f \in [pairs -> matched \X {1, 2}]
    BY <1>2
  <2>2. ASSUME NEW x \in pairs, NEW y \in pairs, f[x] = f[y]
        PROVE  x = y
    <3>1. Of(x) = Of(y) /\ (Of(x)[1] = x[1] <=> Of(y)[1] = y[1])
      BY <2>2
    <3>2. x[1] = y[1] \/ x[2] = y[2]
      BY <1>2, <3>1
    <3>3. x[1] = y[1] /\ x[2] = y[2]
      BY <1>1, <3>2 DEF Matching
    <3> QED
      BY <1>1, <3>3 DEF Pairs
  <2> QED
    BY <2>1, <2>2 DEF Injection, IsInjective
<1> HIDE DEF f
<1>4. IsFiniteSet(matched)
  <2>1. IsFiniteSet(DOMAIN payments) /\ IsFiniteSet(DOMAIN entries)
    <3>1. /\ Len(payments) \in Nat /\ DOMAIN payments = 1..Len(payments)
          /\ Len(entries) \in Nat /\ DOMAIN entries = 1..Len(entries)
      BY ListsAre DEF ReconciliationInv
    <3> QED
      BY <3>1, FS_Interval
  <2>2. IsFiniteSet(Pairs)
    BY <2>1, FS_Product DEF Pairs
  <2> QED
    BY <2>2, FS_Subset DEF ReconciliationInv
<1>5. IsFiniteSet({1, 2}) /\ Cardinality({1, 2}) = 2
  <2>1. IsFiniteSet({1}) /\ Cardinality({1}) = 1
    BY FS_Singleton
  <2>2. IsFiniteSet({1} \cup {2}) /\ Cardinality({1} \cup {2}) = Cardinality({1}) + 1
    <3>1. 2 \notin {1}
      OBVIOUS
    <3> QED
      BY <2>1, <3>1, FS_AddElement
  <2>3. {1} \cup {2} = {1, 2} /\ 1 + 1 = 2
    OBVIOUS
  <2>4. Cardinality({1} \cup {2}) = 1 + 1
    BY <2>1, <2>2, Zenon
  <2> QED
    BY <2>2, <2>3, <2>4, Zenon
<1>6. IsFiniteSet(matched \X {1, 2}) /\ Cardinality(matched \X {1, 2}) = Cardinality(matched) * 2
  BY <1>4, <1>5, FS_Product
<1>7. Cardinality(pairs) <= Cardinality(matched \X {1, 2})
  BY <1>3, <1>6, FS_Injection
<1>8. Cardinality(matched) \in Nat
  BY <1>4, FS_CardinalityType
<1> QED
  BY <1>6, <1>7, <1>8

\* For any payments, bank entries, tolerance and distance: what reconcile matches is a
\* matching of near pairs, and at least half as large as the largest there is.
THEOREM AlwaysHalfOfBest == Spec => []HalfOfBest
<1>1. Init => ReconciliationInv
  BY ReconciliationBegin, ReconciliationAssumption DEF Init, Choice
<1>2. ReconciliationInv /\ [Next]_vars => ReconciliationInv'
  <2>1. ReconciliationInv /\ UNCHANGED reconciliationVars => ReconciliationInv'
    BY DEF reconciliationVars, ReconciliationInv, Pairs, Near, Distance
  <2> QED
    BY <2>1, ClaimStep DEF Next, vars
<1>3. ReconciliationInv => HalfOfBest
  <2>1. ReconciliationInv => matched \in Matchings
    BY DEF ReconciliationInv, Matchings
  <2> QED
    BY <2>1, AtLeastHalf DEF HalfOfBest
<1> QED
  BY <1>1, <1>2, <1>3, PTL DEF Spec

(***************************************************************************)
(* Billing periods                                                         *)
(***************************************************************************)

\* A day is lost only to a month that does not have it, and every month has 28; what it is
\* now is what was promised for the shortest month so far.
PeriodsInv ==
  /\ anchor \in [month : Int, day : Int] /\ anchor.day \in 1..31
  /\ start \in [month : Int, day : Int]
  /\ cycle \in DOMAIN CycleMonths /\ number \in Nat
  /\ start.month = anchor.month + number * CycleMonths[cycle]
  /\ start.day <= anchor.day /\ start.day <= Length(start.month)
  /\ start.day = anchor.day \/ start.day >= 28
  /\ \A n \in 0..number : start.day <= Promised(n).day
  /\ \E n \in 0..number : start.day = Promised(n).day

LEMMA LengthIs ==
  ASSUME NEW month \in Int
  PROVE  Length(month) \in 28..31
BY DEF Length

LEMMA LeastOfTwo ==
  ASSUME NEW a \in Int, NEW b \in Int
  PROVE  Min({a, b}) = IF a <= b THEN a ELSE b
<1> DEFINE least == IF a <= b THEN a ELSE b
<1>1. least \in {a, b} /\ least <= a /\ least <= b
  OBVIOUS
<1>2. \A x \in {a, b} : x <= a /\ x <= b => x = least
  OBVIOUS
<1>3. \A x \in {a, b} : (\A y \in {a, b} : x <= y) <=> x <= a /\ x <= b
  OBVIOUS
<1> HIDE DEF least
<1>4. Min({a, b}) = least
  BY <1>1, <1>2, <1>3 DEF Min
<1> QED
  BY <1>4 DEF least

LEMMA AdvanceIs ==
  ASSUME NEW date \in [month : Int, day : Int], NEW months \in Int
  PROVE  LET next == AdvanceMonths(date, months) IN
         /\ next \in [month : Int, day : Int]
         /\ next.month = date.month + months
         /\ next.day = IF date.day <= Length(next.month) THEN date.day ELSE Length(next.month)
<1>1. date.day \in Int /\ date.month + months \in Int
  OBVIOUS
<1>2. Length(date.month + months) \in Int
  BY <1>1, LengthIs
<1>3. Min({date.day, Length(date.month + months)}) =
        IF date.day <= Length(date.month + months) THEN date.day ELSE Length(date.month + months)
  BY <1>1, <1>2, LeastOfTwo
<1> QED
  BY <1>1, <1>2, <1>3 DEF AdvanceMonths, Date

LEMMA Cycles ==
  ASSUME NEW c \in DOMAIN CycleMonths
  PROVE  CycleMonths[c] = 1 \/ CycleMonths[c] = 3 \/ CycleMonths[c] = 12
BY DEF CycleMonths

\* The day promised for a period is the first day's, if the month has it.
LEMMA PromisedIs ==
  ASSUME PeriodsInv, NEW n \in Nat
  PROVE  /\ Promised(n) \in [month : Int, day : Int]
         /\ Promised(n).month = anchor.month + n * CycleMonths[cycle]
         /\ Promised(n).day = IF anchor.day <= Length(Promised(n).month) THEN anchor.day
                             ELSE Length(Promised(n).month)
<1> DEFINE months == n * CycleMonths[cycle]
<1>1. months \in Int
  BY Cycles DEF PeriodsInv
<1>2. Promised(n) = AdvanceMonths(anchor, months)
  BY DEF Promised
<1> HIDE DEF months
<1> DEFINE promised == Promised(n)
<1>3. promised = AdvanceMonths(anchor, months) /\ anchor \in [month : Int, day : Int]
  BY <1>2 DEF PeriodsInv
<1> HIDE DEF promised
<1>4. /\ promised \in [month : Int, day : Int]
      /\ promised.month = anchor.month + months
      /\ promised.day = IF anchor.day <= Length(promised.month) THEN anchor.day ELSE Length(promised.month)
  BY <1>1, <1>3, AdvanceIs
<1> QED
  BY <1>4 DEF promised, months

LEMMA PeriodsBegin ==
  ASSUME Init
  PROVE  PeriodsInv
<1>1. anchor \in FirstDay
  BY PeriodsAssumption DEF Init, Choice
<1>2. anchor \in [month : Int, day : Int] /\ anchor.day \in 1..Length(anchor.month)
  BY <1>1, PeriodsAssumption
<1>3. Length(anchor.month) \in 28..31
  BY <1>2, LengthIs
<1>4. anchor.day \in 1..31
  BY <1>2, <1>3
<1>5. cycle \in DOMAIN CycleMonths /\ number = 0 /\ start = anchor
  BY DEF Init, PeriodsInit
<1>6. anchor.month = anchor.month + 0 * CycleMonths[cycle]
  BY <1>2, <1>5, Cycles
<1>7. Promised(0) = AdvanceMonths(anchor, 0)
  BY <1>5, Cycles DEF Promised
<1>8. Promised(0).day = anchor.day
  <2>1. AdvanceMonths(anchor, 0).month = anchor.month
    BY <1>2, AdvanceIs
  <2> QED
    BY <1>2, <1>7, <2>1, AdvanceIs
<1>9. 0..number = {0}
  BY <1>5
<1>10. (\A n \in 0..number : start.day <= Promised(n).day) /\ \E n \in 0..number : start.day = Promised(n).day
  BY <1>4, <1>5, <1>8, <1>9
<1> QED
  BY <1>2, <1>3, <1>4, <1>5, <1>6, <1>10 DEF PeriodsInv

LEMMA PeriodsStep ==
  ASSUME PeriodsInv, PeriodsNext
  PROVE  PeriodsInv'
<1> DEFINE C == CycleMonths[cycle]
<1>1. C = 1 \/ C = 3 \/ C = 12
  BY Cycles DEF PeriodsInv
<1> HIDE DEF C
<1>2. /\ start' \in [month : Int, day : Int]
      /\ start'.month = start.month + C
      /\ start'.day = IF start.day <= Length(start'.month) THEN start.day ELSE Length(start'.month)
  <2>1. start' = AdvanceMonths(start, C)
    BY DEF PeriodsNext, NextStart, C
  <2>2. start \in [month : Int, day : Int] /\ C \in Int
    BY <1>1 DEF PeriodsInv
  <2> QED
    BY <2>1, <2>2, AdvanceIs
<1>3. Length(start'.month) \in 28..31
  BY <1>2, LengthIs
<1>4. number \in Nat /\ number' = number + 1 /\ UNCHANGED <<anchor, cycle>>
  BY DEF PeriodsInv, PeriodsNext
<1>5. start'.month = anchor.month + (number + 1) * C
  <2>1. start.month = anchor.month + number * C /\ anchor.month \in Int
    BY DEF PeriodsInv, C
  <2>2. CASE C = 1
    BY <1>2, <1>4, <2>1, <2>2
  <2>3. CASE C = 3
    BY <1>2, <1>4, <2>1, <2>3
  <2>4. CASE C = 12
    BY <1>2, <1>4, <2>1, <2>4
  <2> QED
    BY <1>1, <2>2, <2>3, <2>4
<1>6. start.day \in Int /\ anchor.day \in Int
  BY DEF PeriodsInv
<1>7. start'.day <= anchor.day /\ start'.day <= Length(start'.month)
  BY <1>2, <1>3, <1>6 DEF PeriodsInv
<1>8. start'.day = anchor.day \/ start'.day >= 28
  BY <1>2, <1>3, <1>6 DEF PeriodsInv
<1>9. \A n \in Nat : Promised(n)' = Promised(n)
  BY <1>4 DEF Promised
<1>10. Promised(number + 1).day = IF anchor.day <= Length(start'.month) THEN anchor.day ELSE Length(start'.month)
  <2>1. number + 1 \in Nat
    BY <1>4
  <2>2. Promised(number + 1).month = start'.month
    BY <1>5, <2>1, PromisedIs DEF C
  <2> QED
    BY <2>1, <2>2, PromisedIs
<1>11. /\ \A n \in 0..number : start.day <= Promised(n).day
       /\ \E n \in 0..number : start.day = Promised(n).day
       /\ start.day <= anchor.day
  BY DEF PeriodsInv
<1>12. number' \in Nat /\ 0..number' = 0..number \cup {number + 1} /\ 0..number' \subseteq Nat
  BY <1>4
<1>13. \A n \in 0..number : Promised(n).day \in Int
  <2> TAKE n \in 0..number
  <2>1. n \in Nat
    BY <1>4
  <2> QED
    BY <2>1, PromisedIs
<1>14. start'.day <= start.day
  BY <1>2, <1>3, <1>6
<1>15. \A n \in 0..number' : start'.day <= Promised(n).day
  <2>1. start'.day <= Promised(number + 1).day
    BY <1>3, <1>6, <1>7, <1>10
  <2>2. \A n \in 0..number : start'.day <= Promised(n).day
    BY <1>2, <1>3, <1>6, <1>11, <1>13, <1>14
  <2> QED
    BY <1>12, <2>1, <2>2
<1>16. \E n \in 0..number' : start'.day = Promised(n).day
  <2>1. CASE start.day <= Length(start'.month)
    BY <1>2, <1>11, <1>12, <2>1
  <2>2. CASE ~(start.day <= Length(start'.month))
    <3>1. start'.day = Promised(number + 1).day
      BY <1>2, <1>3, <1>6, <1>10, <1>11, <2>2
    <3> QED
      BY <1>12, <3>1
  <2> QED
    BY <2>1, <2>2
<1>17. /\ \A n \in 0..number' : start'.day <= Promised(n)'.day
       /\ \E n \in 0..number' : start'.day = Promised(n)'.day
  BY <1>9, <1>12, <1>15, <1>16
<1> QED
  BY <1>2, <1>4, <1>5, <1>7, <1>8, <1>17 DEF PeriodsInv, C

LEMMA ChainAlwaysKeepsMonths ==
  ASSUME PeriodsInv
  PROVE  ChainKeepsMonths
<1>1. number \in Nat
  BY DEF PeriodsInv
<1>2. start.month = anchor.month + number * CycleMonths[cycle]
  BY DEF PeriodsInv
<1> DEFINE Direct == Promised(number)
<1>4. /\ Direct \in [month : Int, day : Int]
      /\ Direct.month = anchor.month + number * CycleMonths[cycle]
      /\ Direct.day = IF anchor.day <= Length(Direct.month) THEN anchor.day ELSE Length(Direct.month)
  BY <1>1, PromisedIs
<1> HIDE DEF Direct
<1>5. start.month = Direct.month /\ Length(Direct.month) \in 28..31
  BY <1>2, <1>4, LengthIs
<1>6. start.day \in Int /\ anchor.day \in 1..31
  BY DEF PeriodsInv
<1>7. start.day <= anchor.day /\ start.day <= Length(Direct.month) /\ (start.day = anchor.day \/ start.day >= 28)
  BY <1>5 DEF PeriodsInv
<1>8. start.day <= Direct.day /\ (anchor.day <= 28 => start.day = Direct.day)
  BY <1>4, <1>5, <1>6, <1>7
<1>9. start \in [month : Int, day : Int]
  BY DEF PeriodsInv
<1> QED
  BY <1>4, <1>5, <1>8, <1>9 DEF ChainKeepsMonths, PeriodsInv, Direct

(***************************************************************************)
(* Rounding                                                                *)
(***************************************************************************)

\* A product keeps the order of its factors.
LEMMA Times ==
  ASSUME NEW a \in Int, NEW b \in Int, a <= b, NEW k \in Nat
  PROVE  a * k <= b * k /\ a * k \in Int /\ b * k \in Int
OBVIOUS

\* Division by a positive number.
LEMMA QuotientIs ==
  ASSUME NEW n \in Int, NEW d \in Nat \ {0}
  PROVE  /\ n \div d \in Int
         /\ d * (n \div d) <= n
         /\ n < d * (n \div d) + d
         /\ n >= 0 => n \div d >= 0
<1>1. n \div d \in Int
  OBVIOUS
<1>2. d * (n \div d) <= n
  OBVIOUS
<1>3. n < d * (n \div d) + d
  OBVIOUS
<1>4. n >= 0 => n \div d >= 0
  OBVIOUS
<1> QED
  BY <1>1, <1>2, <1>3, <1>4

\* A quotient that is not negative is rounded by half of its denominator at most.
LEMMA RoundedIs ==
  ASSUME NEW n \in Nat, NEW d \in Nat \ {0}
  PROVE  LET q == HalfUp(n, d) IN
         /\ q \in Nat
         /\ 2 * (d * q) <= 2 * n + d
         /\ 2 * n <= 2 * (d * q) + d
<1> DEFINE m == 2 * n + d
           e == 2 * d
           q == m \div e
<1>1. m \in Nat /\ e \in Nat \ {0}
  OBVIOUS
<1> HIDE DEF m, e
<1>2. q \in Int /\ e * q <= m /\ m < e * q + e /\ q >= 0
  BY <1>1, QuotientIs
<1>3. HalfUp(n, d) = q
  BY DEF HalfUp, m, e
<1> HIDE DEF q
<1>4. e * q = 2 * (d * q) /\ d * q \in Int
  BY <1>2 DEF e
<1>5. 2 * (d * q) <= 2 * n + d /\ 2 * n <= 2 * (d * q) + d
  <2> DEFINE p == d * q
  <2>1. 2 * p <= m /\ m < 2 * p + e /\ p \in Int
    BY <1>2, <1>4
  <2> HIDE DEF p
  <2>2. 2 * p <= 2 * n + d /\ 2 * n <= 2 * p + d
    BY <2>1 DEF m, e
  <2> QED
    BY <2>2 DEF p
<1> QED
  BY <1>2, <1>3, <1>5

\* A factor that is positive can be left out.
LEMMA Cancel ==
  ASSUME NEW k \in Nat \ {0}, NEW a \in Int, NEW b \in Int, k * a < k * b
  PROVE  a < b
OBVIOUS

(***************************************************************************)
(* Conversions                                                             *)
(***************************************************************************)

\* A doubled value that was rounded, and the exact one: they differ by one half of the unit
\* the value is a number of.
Nearly(twice, exact, half) == twice <= exact + half /\ exact <= twice + half

LEMMA ThereAndBack ==
  ASSUME NEW one \in Nat \ {0}, NEW r \in Nat \ {0}, NEW a \in Nat,
         NEW there \in Nat, NEW inv \in Nat, NEW back \in Nat,
         Nearly(2 * (one * there), 2 * (a * r), one),
         Nearly(2 * (r * inv), 2 * (one * one), r),
         Nearly(2 * (one * back), 2 * (there * inv), one)
  PROVE  2 * Magnitude(back - a) <= one \div r + there \div one + 3
<1> DEFINE o == one \div r
           t == there \div one
           K == r * one
           oo == one * one
           rt == r * there
           Q == r * (there * inv)
           oot == one * (one * there)
<1>1. o \in Nat /\ t \in Nat /\ one < r * o + r /\ there < one * t + one
  <2>1. o \in Nat /\ one < r * o + r
    <3>1. o \in Int /\ o >= 0 /\ one < r * o + r
      BY QuotientIs
    <3> QED
      BY <3>1
  <2>2. t \in Nat /\ there < one * t + one
    <3>1. t \in Int /\ t >= 0 /\ there < one * t + one
      BY QuotientIs
    <3> QED
      BY <3>1
  <2> QED
    BY <2>1, <2>2
<1> HIDE DEF o, t
<1>2. K \in Nat \ {0} /\ oo \in Nat /\ rt \in Nat /\ Q \in Nat /\ oot \in Nat
  OBVIOUS
<1>3. Nearly(2 * (K * back), 2 * Q, K)
  <2>1. /\ 2 * (one * back) \in Int /\ 2 * (there * inv) \in Int
        /\ 2 * (one * back) <= 2 * (there * inv) + one /\ 2 * (there * inv) <= 2 * (one * back) + one
    BY DEF Nearly
  <2>2. /\ (2 * (one * back)) * r <= (2 * (there * inv) + one) * r
        /\ (2 * (there * inv)) * r <= (2 * (one * back) + one) * r
    BY <2>1, Times
  <2>3. /\ (2 * (one * back)) * r = 2 * (K * back) /\ (2 * (there * inv)) * r = 2 * Q
        /\ (2 * (there * inv) + one) * r = 2 * Q + K /\ (2 * (one * back) + one) * r = 2 * (K * back) + K
    OBVIOUS
  <2> QED
    BY <2>2, <2>3 DEF Nearly
<1>4. Nearly(2 * Q, 2 * oot, rt)
  <2>1. /\ 2 * (r * inv) \in Int /\ 2 * (one * one) \in Int
        /\ 2 * (r * inv) <= 2 * (one * one) + r /\ 2 * (one * one) <= 2 * (r * inv) + r
    BY DEF Nearly
  <2>2. /\ (2 * (r * inv)) * there <= (2 * (one * one) + r) * there
        /\ (2 * (one * one)) * there <= (2 * (r * inv) + r) * there
    BY <2>1, Times
  <2>3. /\ (2 * (r * inv)) * there = 2 * Q /\ (2 * (one * one)) * there = 2 * oot
        /\ (2 * (one * one) + r) * there = 2 * oot + rt /\ (2 * (r * inv) + r) * there = 2 * Q + rt
    OBVIOUS
  <2> QED
    BY <2>2, <2>3 DEF Nearly
<1>5. Nearly(2 * oot, 2 * (K * a), oo)
  <2>1. /\ 2 * (one * there) \in Int /\ 2 * (a * r) \in Int
        /\ 2 * (one * there) <= 2 * (a * r) + one /\ 2 * (a * r) <= 2 * (one * there) + one
    BY DEF Nearly
  <2>2. /\ (2 * (one * there)) * one <= (2 * (a * r) + one) * one
        /\ (2 * (a * r)) * one <= (2 * (one * there) + one) * one
    BY <2>1, Times
  <2>3. /\ (2 * (one * there)) * one = 2 * oot /\ (2 * (a * r)) * one = 2 * (K * a)
        /\ (2 * (a * r) + one) * one = 2 * (K * a) + oo /\ (2 * (one * there) + one) * one = 2 * oot + oo
    OBVIOUS
  <2> QED
    BY <2>2, <2>3 DEF Nearly
<1>6. oo <= K * o + K /\ rt < K * t + K
  <2>1. one * one <= (r * o + r) * one /\ there * r <= (one * t + one - 1) * r
    BY <1>1, Times
  <2>2. (r * o + r) * one = K * o + K /\ (one * t + one - 1) * r = K * t + K - r
    BY <1>1
  <2>3. there * r = rt
    OBVIOUS
  <2> QED
    BY <1>1, <1>2, <2>1, <2>2, <2>3
<1>7. K * a \in Int /\ K * back \in Int /\ K * o \in Int /\ K * t \in Int
  BY <1>1, <1>2
<1> HIDE DEF oo, rt, Q, oot
<1>8. /\ 2 * (K * back) < 2 * (K * a) + K * o + K * t + 3 * K
      /\ 2 * (K * a) < 2 * (K * back) + K * o + K * t + 3 * K
  <2> HIDE DEF K
  <2> DEFINE Kb == K * back
             Ka == K * a
             Ko == K * o
             Kt == K * t
  <2>1. Kb \in Int /\ Ka \in Int /\ Ko \in Int /\ Kt \in Int
    BY <1>7
  <2>2. Nearly(2 * Kb, 2 * Q, K) /\ Nearly(2 * oot, 2 * Ka, oo) /\ oo <= Ko + K /\ rt < Kt + K
    BY <1>3, <1>5, <1>6
  <2> HIDE DEF Kb, Ka, Ko, Kt
  <2>3. 2 * Kb < 2 * Ka + Ko + Kt + 3 * K /\ 2 * Ka < 2 * Kb + Ko + Kt + 3 * K
    BY <1>2, <1>4, <2>1, <2>2 DEF Nearly
  <2> QED
    BY <2>3 DEF Kb, Ka, Ko, Kt
<1> HIDE DEF K
<1>9. /\ K * (2 * (back - a)) < K * (o + t + 3)
      /\ K * (2 * (a - back)) < K * (o + t + 3)
  <2>1. /\ K * (2 * (back - a)) = 2 * (K * back) - 2 * (K * a)
        /\ K * (2 * (a - back)) = 2 * (K * a) - 2 * (K * back)
        /\ K * (o + t + 3) = K * o + K * t + 3 * K
    BY <1>1, <1>2
  <2> QED
    BY <1>2, <1>7, <1>8, <2>1
<1>10. 2 * (back - a) < o + t + 3 /\ 2 * (a - back) < o + t + 3
  BY <1>1, <1>2, <1>9, Cancel
<1> QED
  BY <1>1, <1>10 DEF Magnitude, o, t

LEMMA OverThePivot ==
  ASSUME NEW one \in Nat \ {0}, NEW in \in Nat, NEW out \in Nat, NEW a \in Nat,
         NEW cross \in Nat, NEW direct \in Nat, NEW middle \in Nat, NEW steps \in Nat,
         Nearly(2 * (one * cross), 2 * (in * out), one),
         Nearly(2 * (one * direct), 2 * (a * cross), one),
         Nearly(2 * (one * middle), 2 * (a * in), one),
         Nearly(2 * (one * steps), 2 * (middle * out), one)
  PROVE  2 * Magnitude(direct - steps) <= a \div one + out \div one + 4
<1> DEFINE p == a \div one
           q == out \div one
           K == one * one
           C == one * (a * cross)
           M == one * (middle * out)
           E == a * (in * out)
<1>1. p \in Nat /\ q \in Nat /\ a < one * p + one /\ out < one * q + one
  <2>1. p \in Int /\ p >= 0 /\ a < one * p + one
    BY QuotientIs
  <2>2. q \in Int /\ q >= 0 /\ out < one * q + one
    BY QuotientIs
  <2> QED
    BY <2>1, <2>2
<1> HIDE DEF p, q
<1>2. K \in Nat \ {0} /\ C \in Nat /\ M \in Nat /\ E \in Nat
  OBVIOUS
<1>3. Nearly(2 * (K * direct), 2 * C, K)
  <2>1. /\ 2 * (one * direct) \in Int /\ 2 * (a * cross) \in Int
        /\ 2 * (one * direct) <= 2 * (a * cross) + one /\ 2 * (a * cross) <= 2 * (one * direct) + one
    BY DEF Nearly
  <2>2. /\ (2 * (one * direct)) * one <= (2 * (a * cross) + one) * one
        /\ (2 * (a * cross)) * one <= (2 * (one * direct) + one) * one
    BY <2>1, Times
  <2>3. /\ (2 * (one * direct)) * one = 2 * (K * direct) /\ (2 * (a * cross)) * one = 2 * C
        /\ (2 * (a * cross) + one) * one = 2 * C + K /\ (2 * (one * direct) + one) * one = 2 * (K * direct) + K
    OBVIOUS
  <2> QED
    BY <2>2, <2>3 DEF Nearly
<1>4. Nearly(2 * C, 2 * E, a * one)
  <2>1. /\ 2 * (one * cross) \in Int /\ 2 * (in * out) \in Int
        /\ 2 * (one * cross) <= 2 * (in * out) + one /\ 2 * (in * out) <= 2 * (one * cross) + one
    BY DEF Nearly
  <2>2. /\ (2 * (one * cross)) * a <= (2 * (in * out) + one) * a
        /\ (2 * (in * out)) * a <= (2 * (one * cross) + one) * a
    BY <2>1, Times
  <2>3. /\ (2 * (one * cross)) * a = 2 * C /\ (2 * (in * out)) * a = 2 * E
        /\ (2 * (in * out) + one) * a = 2 * E + a * one /\ (2 * (one * cross) + one) * a = 2 * C + a * one
    OBVIOUS
  <2> QED
    BY <2>2, <2>3 DEF Nearly
<1>5. Nearly(2 * (K * steps), 2 * M, K)
  <2>1. /\ 2 * (one * steps) \in Int /\ 2 * (middle * out) \in Int
        /\ 2 * (one * steps) <= 2 * (middle * out) + one /\ 2 * (middle * out) <= 2 * (one * steps) + one
    BY DEF Nearly
  <2>2. /\ (2 * (one * steps)) * one <= (2 * (middle * out) + one) * one
        /\ (2 * (middle * out)) * one <= (2 * (one * steps) + one) * one
    BY <2>1, Times
  <2>3. /\ (2 * (one * steps)) * one = 2 * (K * steps) /\ (2 * (middle * out)) * one = 2 * M
        /\ (2 * (middle * out) + one) * one = 2 * M + K /\ (2 * (one * steps) + one) * one = 2 * (K * steps) + K
    OBVIOUS
  <2> QED
    BY <2>2, <2>3 DEF Nearly
<1>6. Nearly(2 * M, 2 * E, out * one)
  <2>1. /\ 2 * (one * middle) \in Int /\ 2 * (a * in) \in Int
        /\ 2 * (one * middle) <= 2 * (a * in) + one /\ 2 * (a * in) <= 2 * (one * middle) + one
    BY DEF Nearly
  <2>2. /\ (2 * (one * middle)) * out <= (2 * (a * in) + one) * out
        /\ (2 * (a * in)) * out <= (2 * (one * middle) + one) * out
    BY <2>1, Times
  <2>3. /\ (2 * (one * middle)) * out = 2 * M /\ (2 * (a * in)) * out = 2 * E
        /\ (2 * (a * in) + one) * out = 2 * E + out * one /\ (2 * (one * middle) + one) * out = 2 * M + out * one
    OBVIOUS
  <2> QED
    BY <2>2, <2>3 DEF Nearly
<1>7. a * one <= K * p + K /\ out * one <= K * q + K /\ a * one \in Int /\ out * one \in Int
  <2>1. a * one <= (one * p + one) * one /\ out * one <= (one * q + one) * one
    BY <1>1, Times
  <2>2. (one * p + one) * one = K * p + K /\ (one * q + one) * one = K * q + K
    BY <1>1
  <2> QED
    BY <2>1, <2>2
<1>8. K * direct \in Int /\ K * steps \in Int /\ K * p \in Int /\ K * q \in Int
  BY <1>1, <1>2
<1> HIDE DEF C, M, E
<1>9. /\ 2 * (K * direct) <= 2 * (K * steps) + K * p + K * q + 4 * K
      /\ 2 * (K * steps) <= 2 * (K * direct) + K * p + K * q + 4 * K
  <2> HIDE DEF K
  <2> DEFINE D == K * direct
             S == K * steps
             P == K * p
             Q == K * q
             Ao == a * one
             Oo == out * one
  <2>1. D \in Int /\ S \in Int /\ P \in Int /\ Q \in Int /\ Ao \in Int /\ Oo \in Int
    BY <1>7, <1>8
  <2>2. /\ Nearly(2 * D, 2 * C, K) /\ Nearly(2 * C, 2 * E, Ao) /\ Nearly(2 * S, 2 * M, K)
        /\ Nearly(2 * M, 2 * E, Oo) /\ Ao <= P + K /\ Oo <= Q + K
    BY <1>3, <1>4, <1>5, <1>6, <1>7
  <2> HIDE DEF D, S, P, Q, Ao, Oo
  <2>3. 2 * D <= 2 * S + P + Q + 4 * K /\ 2 * S <= 2 * D + P + Q + 4 * K
    BY <1>2, <2>1, <2>2 DEF Nearly
  <2> QED
    BY <2>3 DEF D, S, P, Q
<1> HIDE DEF K
<1>10. /\ K * (2 * (direct - steps)) < K * (p + q + 5)
       /\ K * (2 * (steps - direct)) < K * (p + q + 5)
  <2>1. /\ K * (2 * (direct - steps)) = 2 * (K * direct) - 2 * (K * steps)
        /\ K * (2 * (steps - direct)) = 2 * (K * steps) - 2 * (K * direct)
        /\ K * (p + q + 5) = K * p + K * q + 5 * K
    BY <1>1, <1>2
  <2> QED
    BY <1>2, <1>8, <1>9, <2>1
<1>11. 2 * (direct - steps) < p + q + 5 /\ 2 * (steps - direct) < p + q + 5
  BY <1>1, <1>2, <1>10, Cancel
<1> QED
  BY <1>1, <1>11 DEF Magnitude, p, q

\* What the service holds are quotes.
ExchangeInv == latest \in [Pair -> Quote \cup {NoQuote}] /\ rates \in [Pair -> Quote \cup {NoQuote}]

LEMMA QuotedIs ==
  ASSUME ExchangeInv, NEW pair \in Pair, Quoted(pair)
  PROVE  rates[pair] \in Nat \ {0} /\ RateOf(pair) = rates[pair] /\ RateOf(pair) \notin {NoRate, BadRate}
BY ExchangeAssumption DEF ExchangeInv, Quoted, RateOf

\* A rate is an integer, or none, or the inverse that is refused.
LEMMA RateIs ==
  ASSUME ExchangeInv, NEW pair \in Pair
  PROVE  RateOf(pair) \in Nat \/ RateOf(pair) \in {NoRate, BadRate}
<1>1. Flip(pair) \in Pair
  BY DEF Flip, Pair
<1>2. CASE Quoted(pair)
  BY <1>2, QuotedIs
<1>3. CASE ~Quoted(pair) /\ Quoted(Flip(pair))
  <2>1. rates[Flip(pair)] \in Nat \ {0}
    BY <1>1, <1>3, QuotedIs
  <2>2. One * One \in Nat
    BY ExchangeAssumption
  <2>3. HalfUp(One * One, rates[Flip(pair)]) \in Nat
    BY <2>1, <2>2, RoundedIs
  <2>4. RateOf(pair) = Invert(rates[Flip(pair)])
    BY <1>3 DEF RateOf
  <2> QED
    BY <2>3, <2>4 DEF Invert
<1>4. CASE ~Quoted(pair) /\ ~Quoted(Flip(pair))
  BY <1>4 DEF RateOf
<1> QED
  BY <1>2, <1>3, <1>4

LEMMA ConvertedIs ==
  ASSUME NEW amount \in Nat, NEW rate \in Nat
  PROVE  /\ Converted(amount, rate) \in Nat
         /\ Nearly(2 * (One * Converted(amount, rate)), 2 * (amount * rate), One)
<1>1. amount * rate \in Nat /\ One \in Nat \ {0}
  BY ExchangeAssumption
<1>2. /\ HalfUp(amount * rate, One) \in Nat
      /\ 2 * (One * HalfUp(amount * rate, One)) <= 2 * (amount * rate) + One
      /\ 2 * (amount * rate) <= 2 * (One * HalfUp(amount * rate, One)) + One
  BY <1>1, RoundedIs
<1> QED
  BY <1>2 DEF Converted, Nearly

LEMMA TripsReturn ==
  ASSUME ExchangeInv
  PROVE  RoundTrips
<1> SUFFICES ASSUME NEW pair \in Pair, Quoted(pair), ~Quoted(Flip(pair)), Usable(Flip(pair)), NEW amount \in Sample
             PROVE  LET there == Converted(amount, UsedRate(pair))
                        back == Converted(there, UsedRate(Flip(pair)))
                    IN 2 * Magnitude(back - amount) <= One \div rates[pair] + there \div One + 3
  BY DEF RoundTrips
<1> DEFINE r == rates[pair]
           inv == HalfUp(One * One, r)
           there == Converted(amount, r)
           back == Converted(there, inv)
<1>1. amount \in Nat /\ One \in Nat \ {0} /\ One * One \in Nat
  BY ExchangeAssumption DEF Sample
<1>2. r \in Nat \ {0} /\ RateOf(pair) = r /\ r # NoRate
  BY QuotedIs
<1>3. UsedRate(pair) = r
  BY <1>2 DEF UsedRate
<1>4. Flip(pair) \in Pair /\ Flip(Flip(pair)) = pair
  BY DEF Flip, Pair
<1>5. RateOf(Flip(pair)) = Invert(r)
  BY <1>4 DEF RateOf
<1>6. /\ inv \in Nat
      /\ 2 * (r * inv) <= 2 * (One * One) + r
      /\ 2 * (One * One) <= 2 * (r * inv) + r
  BY <1>1, <1>2, RoundedIs
<1>7. UsedRate(Flip(pair)) = inv
  <2>1. Invert(r) \in {inv, BadRate} /\ Invert(r) # NoRate
    BY <1>6, ExchangeAssumption DEF Invert
  <2>2. UsedRate(Flip(pair)) = Invert(r)
    BY <1>5, <2>1 DEF UsedRate
  <2> QED
    BY <2>1, <2>2 DEF Usable
<1> HIDE DEF r, inv
<1>8. there \in Nat /\ Nearly(2 * (One * there), 2 * (amount * r), One)
  BY <1>1, <1>2, ConvertedIs
<1> HIDE DEF there
<1>9. back \in Nat /\ Nearly(2 * (One * back), 2 * (there * inv), One)
  BY <1>6, <1>8, ConvertedIs
<1> HIDE DEF back
<1>10. 2 * Magnitude(back - amount) <= One \div r + there \div One + 3
  <2>1. Nearly(2 * (r * inv), 2 * (One * One), r)
    BY <1>6 DEF Nearly
  <2> QED
    BY <1>1, <1>2, <1>6, <1>8, <1>9, <2>1, ThereAndBack
<1> QED
  BY <1>3, <1>7, <1>10 DEF r, there, back

LEMMA CrossesAgree ==
  ASSUME ExchangeInv
  PROVE  CrossAgrees
<1> SUFFICES ASSUME NEW pair \in Pair, RateOf(pair) = NoRate, Usable(pair), NEW amount \in Sample
             PROVE  LET out == UsedRate(<<Pivot, pair[2]>>)
                        steps == Converted(Converted(amount, UsedRate(<<pair[1], Pivot>>)), out)
                    IN 2 * Magnitude(Converted(amount, UsedRate(pair)) - steps) <= amount \div One + out \div One + 4
  BY DEF CrossAgrees
<1> DEFINE from == <<pair[1], Pivot>>
           to == <<Pivot, pair[2]>>
           into == RateOf(from)
           out == RateOf(to)
           cross == Cross(into, out)
           middle == Converted(amount, into)
           steps == Converted(middle, out)
           direct == Converted(amount, cross)
<1>1. amount \in Nat /\ One \in Nat \ {0}
  BY ExchangeAssumption DEF Sample
<1>2. Pivot \notin {pair[1], pair[2]}
  BY DEF UsedRate, Usable
<1>3. from \in Pair /\ to \in Pair
  BY <1>2, ExchangeAssumption DEF Pair
<1>4. into \notin {NoRate, BadRate} /\ out \notin {NoRate, BadRate} /\ UsedRate(pair) = cross
  BY <1>2 DEF UsedRate, Usable
<1>5. into \in Nat /\ out \in Nat
  BY <1>3, <1>4, RateIs
<1>6. UsedRate(from) = into /\ UsedRate(to) = out
  <2>1. from[1] = pair[1] /\ from[2] = Pivot /\ to[1] = Pivot /\ to[2] = pair[2]
    OBVIOUS
  <2> QED
    BY <1>4, <2>1 DEF UsedRate
<1> HIDE DEF into, out
<1>7. cross \in Nat /\ Nearly(2 * (One * cross), 2 * (into * out), One)
  <2>1. into * out \in Nat
    BY <1>5
  <2>2. /\ HalfUp(into * out, One) \in Nat
        /\ 2 * (One * HalfUp(into * out, One)) <= 2 * (into * out) + One
        /\ 2 * (into * out) <= 2 * (One * HalfUp(into * out, One)) + One
    BY <1>1, <2>1, RoundedIs
  <2> QED
    BY <2>2 DEF Cross, Nearly
<1> HIDE DEF cross
<1>8. direct \in Nat /\ Nearly(2 * (One * direct), 2 * (amount * cross), One)
  BY <1>1, <1>7, ConvertedIs
<1>9. middle \in Nat /\ Nearly(2 * (One * middle), 2 * (amount * into), One)
  BY <1>1, <1>5, ConvertedIs
<1> HIDE DEF direct, middle
<1>10. steps \in Nat /\ Nearly(2 * (One * steps), 2 * (middle * out), One)
  BY <1>5, <1>9, ConvertedIs
<1> HIDE DEF steps
<1>11. 2 * Magnitude(direct - steps) <= amount \div One + out \div One + 4
  BY <1>1, <1>5, <1>7, <1>8, <1>9, <1>10, OverThePivot
<1> QED
  BY <1>4, <1>6, <1>11 DEF direct, middle, steps

LEMMA ExchangeBegins ==
  ASSUME ExchangeInit
  PROVE  ExchangeInv
BY DEF ExchangeInit, ExchangeInv

LEMMA ExchangeStep ==
  ASSUME ExchangeInv, ExchangeNext
  PROVE  ExchangeInv'
<1>1. ASSUME NEW pair \in Pair, NEW quote \in Quote, Publish(pair, quote)
      PROVE  ExchangeInv'
  BY <1>1 DEF Publish, ExchangeInv
<1>2. CASE UpdateRates
  BY <1>2 DEF UpdateRates, ExchangeInv
<1> QED
  BY <1>1, <1>2 DEF ExchangeNext

\* Whatever quotes were published and handed over, for any currencies, quotes and number
\* of decimal places: an amount converted and converted back is off by no more than what
\* two amounts and an inverse are rounded by, and a conversion over the pivot is as two
\* conversions are, but for the rounding of a rate and of an amount.
THEOREM ConversionsStayClose == Spec => []ConversionsAgree
<1>1. Init => ExchangeInv
  BY ExchangeBegins DEF Init
<1>2. ExchangeInv /\ [Next]_vars => ExchangeInv'
  <2>1. ExchangeInv /\ UNCHANGED exchangeVars => ExchangeInv'
    BY DEF exchangeVars, ExchangeInv
  <2> QED
    BY <2>1, ExchangeStep DEF Next, vars
<1>3. ExchangeInv => ConversionsAgree
  BY TripsReturn, CrossesAgree DEF ConversionsAgree
<1> QED
  BY <1>1, <1>2, <1>3, PTL DEF Spec

(***************************************************************************)
(* Days                                                                    *)
(***************************************************************************)

DayType == [month : Int, day : Int]

\* A leap year more before a year's first, when the year before it is one.
LeapYears(y) == y \div 4 - y \div 100 + y \div 400

LEMMA LeapYearsIs ==
  ASSUME NEW y \in Int
  PROVE  /\ LeapYears(y) \in Int
         /\ LeapYears(y) = LeapYears(y - 1) + (IF Leap(y) THEN 1 ELSE 0)
<1> DEFINE more(d) == IF y % d = 0 THEN 1 ELSE 0
<1>1. y \div 4 = (y - 1) \div 4 + more(4)
  OBVIOUS
<1>2. y \div 100 = (y - 1) \div 100 + more(100)
  OBVIOUS
<1>3. y \div 400 = (y - 1) \div 400 + more(400)
  OBVIOUS
<1>4. (y % 400 = 0 => y % 100 = 0) /\ (y % 100 = 0 => y % 4 = 0)
  OBVIOUS
<1> QED
  BY <1>1, <1>2, <1>3, <1>4 DEF LeapYears, Leap

\* After a month's days the next month begins.
LEMMA MonthsFollow ==
  ASSUME NEW m \in Int
  PROVE  /\ DaysBefore(m) \in Int
         /\ DaysBefore(m + 1) = DaysBefore(m) + Length(m)
<1> DEFINE y == Year(m)
           k == InYear(m)
           before == <<0, 31, 59, 90, 120, 151, 181, 212, 243, 273, 304, 334>>
           first(z) == 365 * (z - 1) + LeapYears(z - 1)
<1>1. y \in Int /\ k \in 0..11 /\ m = 12 * y + k
  BY DEF Year, InYear
<1>2. IF k = 11 THEN Year(m + 1) = y + 1 /\ InYear(m + 1) = 0 ELSE Year(m + 1) = y /\ InYear(m + 1) = k + 1
  BY DEF Year, InYear
<1>3. DaysBefore(m) = first(y) + (IF Leap(y) /\ k > 1 THEN 1 ELSE 0) + before[k + 1]
  BY <1>1 DEF DaysBefore, LeapYears
<1>4. DaysBefore(m + 1) = IF k = 11 THEN first(y + 1) ELSE first(y) + (IF Leap(y) /\ k + 1 > 1 THEN 1 ELSE 0) + before[k + 2]
  BY <1>1, <1>2 DEF DaysBefore, LeapYears
<1>5. Length(m) = IF k = 1 THEN IF Leap(y) THEN 29 ELSE 28 ELSE IF k \in {3, 5, 8, 10} THEN 30 ELSE 31
  BY DEF Length
<1>6. first(y + 1) = first(y) + 365 + (IF Leap(y) THEN 1 ELSE 0) /\ first(y) \in Int
  <2>1. /\ LeapYears(y) = LeapYears(y - 1) + (IF Leap(y) THEN 1 ELSE 0) /\ LeapYears(y) \in Int
        /\ LeapYears(y - 1) \in Int /\ y + 1 - 1 = y
    BY <1>1, LeapYearsIs
  <2> QED
    BY <1>1, <2>1
<1> HIDE DEF y, k, first
<1>7. k \in {0, 1, 2, 3, 4, 5, 6, 7, 8, 9, 10, 11}
  BY <1>1
<1> QED
  BY <1>3, <1>4, <1>5, <1>6, <1>7

\* A day of a month comes after the months before and before the months after.
LEMMA OrdinalIs ==
  ASSUME NEW date \in DayType
  PROVE  Ordinal(date) = DaysBefore(date.month) + date.day /\ Ordinal(date) \in Int
BY MonthsFollow DEF Ordinal, DayType

LEMMA DayBeforeIs ==
  ASSUME NEW date \in DayType
  PROVE  DayBefore(date) \in DayType /\ (date.day >= 1 => Ordinal(DayBefore(date)) = Ordinal(date) - 1)
<1>1. date.month \in Int /\ date.day \in Int
  BY DEF DayType
<1>2. CASE date.day > 1
  <2>1. DayBefore(date) = [month |-> date.month, day |-> date.day - 1]
    BY <1>2 DEF DayBefore, Date
  <2>2. DayBefore(date) \in DayType
    BY <1>1, <2>1 DEF DayType
  <2> QED
    BY <1>1, <2>1, <2>2, OrdinalIs, MonthsFollow
<1>3. CASE ~(date.day > 1)
  <2> DEFINE m == date.month - 1
  <2>1. DayBefore(date) = [month |-> m, day |-> Length(m)]
    BY <1>3 DEF DayBefore, MonthEnd, Date
  <2>2. m \in Int /\ m + 1 = date.month /\ Length(m) \in Int
    BY <1>1, LengthIs
  <2>3. DayBefore(date) \in DayType
    BY <2>1, <2>2 DEF DayType
  <2>4. DaysBefore(m + 1) = DaysBefore(m) + Length(m) /\ DaysBefore(m) \in Int
    BY <2>2, MonthsFollow
  <2> HIDE DEF m
  <2>5. Ordinal(DayBefore(date)) = DaysBefore(m) + Length(m)
    BY <2>1, <2>3, OrdinalIs
  <2>6. Ordinal(date) = DaysBefore(m + 1) + date.day
    BY <2>2, OrdinalIs
  <2> QED
    BY <1>1, <1>3, <2>2, <2>3, <2>4, <2>5, <2>6
<1> QED
  BY <1>2, <1>3

LEMMA GreatestOfTwo ==
  ASSUME NEW a \in Int, NEW b \in Int
  PROVE  Max({a, b}) = IF a >= b THEN a ELSE b
<1> DEFINE greatest == IF a >= b THEN a ELSE b
<1>1. greatest \in {a, b} /\ greatest >= a /\ greatest >= b
  OBVIOUS
<1>2. \A x \in {a, b} : x >= a /\ x >= b => x = greatest
  OBVIOUS
<1>3. \A x \in {a, b} : (\A y \in {a, b} : x >= y) <=> x >= a /\ x >= b
  OBVIOUS
<1> HIDE DEF greatest
<1>4. Max({a, b}) = greatest
  BY <1>1, <1>2, <1>3 DEF Max
<1> QED
  BY <1>4 DEF greatest

LEMMA SpanIs ==
  ASSUME NEW from \in DayType, NEW to \in DayType, Ordinal(from) <= Ordinal(to) + 1
  PROVE  Span(from, to) = Ordinal(to) - Ordinal(from) + 1
<1>1. Ordinal(from) \in Int /\ Ordinal(to) \in Int
  BY OrdinalIs
<1>2. Ordinal(to) - Ordinal(from) + 1 \in Int /\ Ordinal(to) - Ordinal(from) + 1 >= 0
  BY <1>1
<1>3. Max({0, Ordinal(to) - Ordinal(from) + 1}) = Ordinal(to) - Ordinal(from) + 1
  BY <1>2, GreatestOfTwo
<1> QED
  BY <1>3 DEF Span

LEMMA MonthsOrdered ==
  ASSUME NEW m \in Int, NEW n \in Int, m < n
  PROVE  DaysBefore(m) + Length(m) <= DaysBefore(n)
<1> DEFINE Bad == {k \in Nat : ~(DaysBefore(m + 1) <= DaysBefore(m + 1 + k))}
<1>1. Bad = {}
  <2> SUFFICES ASSUME Bad # {} PROVE FALSE
    OBVIOUS
  <2>1. PICK k \in Bad : \A j \in Bad : k <= j
    BY LeastNat
  <2>2. k \in Nat /\ k # 0 /\ k - 1 \in Nat /\ k - 1 \notin Bad
    <3>1. DaysBefore(m + 1) \in Int
      BY MonthsFollow
    <3>2. m + 1 + 0 = m + 1
      OBVIOUS
    <3>3. 0 \notin Bad
      BY <3>1, <3>2
    <3> QED
      BY <2>1, <3>3
  <2> DEFINE before == m + 1 + (k - 1)
  <2>3. before \in Int /\ before + 1 = m + 1 + k
    BY <2>2
  <2>4. DaysBefore(m + 1) <= DaysBefore(before)
    BY <2>2
  <2> HIDE DEF before
  <2>5. DaysBefore(before + 1) = DaysBefore(before) + Length(before) /\ DaysBefore(before) \in Int
    BY <2>3, MonthsFollow
  <2>6. Length(before) \in 28..31 /\ DaysBefore(m + 1) \in Int
    BY <2>3, LengthIs, MonthsFollow
  <2>7. DaysBefore(m + 1) <= DaysBefore(m + 1 + k)
    BY <2>3, <2>4, <2>5, <2>6
  <2> QED
    BY <2>1, <2>7
<1>2. n - (m + 1) \in Nat /\ m + 1 + (n - (m + 1)) = n
  OBVIOUS
<1>3. DaysBefore(m + 1) <= DaysBefore(n)
  BY <1>1, <1>2
<1> QED
  BY <1>3, MonthsFollow

\* The current period begins on a day that its month has, and ends no earlier.
LEMMA CurrentIs ==
  ASSUME PeriodsInv
  PROVE  /\ start \in DayType /\ Current.end \in DayType /\ NextStart \in DayType
         /\ Current = [start |-> start, end |-> Current.end]
         /\ start.day \in 1..Length(start.month)
         /\ Ordinal(Current.end) = Ordinal(NextStart) - 1
         /\ Ordinal(start) <= Ordinal(Current.end)
<1> DEFINE C == CycleMonths[cycle]
<1>1. start \in DayType /\ start.day \in 1..Length(start.month)
  <2>1. Length(start.month) \in 28..31
    BY LengthIs DEF PeriodsInv
  <2> QED
    BY <2>1 DEF PeriodsInv, DayType
<1>2. C = 1 \/ C = 3 \/ C = 12
  BY Cycles DEF PeriodsInv
<1> HIDE DEF C
<1>3. /\ NextStart \in DayType /\ NextStart.month = start.month + C /\ NextStart.day >= 1
  <2>1. NextStart = AdvanceMonths(start, C)
    BY DEF NextStart, C
  <2>2. /\ NextStart \in [month : Int, day : Int]
        /\ NextStart.month = start.month + C
        /\ NextStart.day = IF start.day <= Length(NextStart.month) THEN start.day ELSE Length(NextStart.month)
    <3>1. start \in [month : Int, day : Int] /\ C \in Int
      BY <1>1, <1>2 DEF DayType
    <3> QED
      BY <2>1, <3>1, AdvanceIs
  <2>3. Length(NextStart.month) \in 28..31
    BY <2>2, LengthIs
  <2>4. start.day >= 1 /\ start.day \in Int
    BY <1>1 DEF DayType
  <2> QED
    BY <2>2, <2>3, <2>4 DEF DayType
<1>4. /\ Current.end = DayBefore(NextStart) /\ Current = [start |-> start, end |-> Current.end]
      /\ Current.end \in DayType /\ Ordinal(Current.end) = Ordinal(NextStart) - 1
  BY <1>3, DayBeforeIs DEF Current, Period
<1>5. DaysBefore(start.month) + Length(start.month) <= DaysBefore(NextStart.month)
  BY <1>1, <1>2, <1>3, MonthsOrdered DEF DayType
<1>6. Ordinal(start) < Ordinal(NextStart)
  <2>1. Ordinal(start) = DaysBefore(start.month) + start.day /\ Ordinal(NextStart) = DaysBefore(NextStart.month) + NextStart.day
    BY <1>1, <1>3, OrdinalIs
  <2>2. /\ DaysBefore(start.month) \in Int /\ DaysBefore(NextStart.month) \in Int /\ Length(start.month) \in Int
        /\ NextStart.day \in Int /\ start.day \in Int
    BY <1>1, <1>3, MonthsFollow, LengthIs DEF DayType
  <2> QED
    BY <1>1, <1>3, <1>5, <2>1, <2>2
<1>7. Ordinal(start) \in Int /\ Ordinal(NextStart) \in Int
  BY <1>1, <1>3, OrdinalIs
<1> QED
  BY <1>1, <1>3, <1>4, <1>6, <1>7

\* Two parts of n days, each as a fraction of the whole that is rounded, give the whole.
LEMMA PartsAddUp ==
  ASSUME NEW x \in Nat, NEW y \in Nat, x + y > 0
  PROVE  Magnitude(HalfUp(x * Whole, x + y) + HalfUp(y * Whole, x + y) - Whole) <= 1
<1> DEFINE n == x + y
           p == HalfUp(x * Whole, n)
           q == HalfUp(y * Whole, n)
           xw == x * Whole
           yw == y * Whole
<1>1. n \in Nat \ {0} /\ Whole \in Nat /\ xw \in Nat /\ yw \in Nat /\ xw + yw = n * Whole
  BY PeriodsAssumption
<1> HIDE DEF n, xw, yw
<1>2. p \in Nat /\ 2 * (n * p) <= 2 * xw + n /\ 2 * xw <= 2 * (n * p) + n
  BY <1>1, RoundedIs DEF xw
<1>3. q \in Nat /\ 2 * (n * q) <= 2 * yw + n /\ 2 * yw <= 2 * (n * q) + n
  BY <1>1, RoundedIs DEF yw
<1> HIDE DEF p, q
<1>4. n * p \in Int /\ n * q \in Int /\ n * Whole \in Int
  BY <1>1, <1>2, <1>3
<1>5. n * (p + q - Whole) = n * p + n * q - n * Whole /\ n * (Whole - p - q) = n * Whole - n * p - n * q
  BY <1>1, <1>2, <1>3
<1>6. n * p + n * q - n * Whole <= n /\ n * Whole - n * p - n * q <= n
  <2> DEFINE a == n * p
             b == n * q
             c == n * Whole
  <2>1. a \in Int /\ b \in Int /\ c \in Int /\ xw + yw = c
    BY <1>1, <1>4
  <2>2. 2 * a <= 2 * xw + n /\ 2 * xw <= 2 * a + n /\ 2 * b <= 2 * yw + n /\ 2 * yw <= 2 * b + n
    BY <1>2, <1>3
  <2> HIDE DEF a, b, c
  <2>3. a + b - c <= n /\ c - a - b <= n
    BY <1>1, <2>1, <2>2
  <2> QED
    BY <2>3 DEF a, b, c
<1>7. n * (p + q - Whole) < n * 2 /\ n * (Whole - p - q) < n * 2
  BY <1>1, <1>4, <1>5, <1>6
<1>8. p + q - Whole < 2 /\ Whole - p - q < 2
  BY <1>1, <1>2, <1>3, <1>7, Cancel
<1> QED
  BY <1>1, <1>2, <1>3, <1>8 DEF Magnitude, n, p, q, xw, yw

LEMMA StubsAlwaysSettle ==
  ASSUME PeriodsInv
  PROVE  StubsSettle
<1> DEFINE end == Current.end
<1> SUFFICES ASSUME NEW day \in DaysOf(Current), day # Current.end
             PROVE  LET stub == Stub(Current, day)
                        before == Fraction(Current, start, DayBefore(day))
                    IN /\ stub # NoPeriod
                       /\ Magnitude(before + Fraction(Current, stub.start, stub.end) - Whole) <= 1
  BY DEF StubsSettle
<1>1. /\ start \in DayType /\ end \in DayType /\ Current = [start |-> start, end |-> end]
      /\ Ordinal(start) <= Ordinal(end)
  BY CurrentIs
<1>2. Current.start = start /\ Current.end = end
  BY <1>1
<1> HIDE DEF end
<1>3. day \in DayType /\ day.day >= 1 /\ day = Earlier(Later(day, start), end)
  <2>1. start.month \in Int /\ end.month \in Int
    BY <1>1 DEF DayType
  <2>2. day \in [month : start.month..end.month, day : 1..31] /\ day = Earlier(Later(day, start), end)
    BY <1>2 DEF DaysOf
  <2>3. day.month \in Int /\ day.day \in Int /\ day.day >= 1 /\ day = [month |-> day.month, day |-> day.day]
    BY <2>1, <2>2
  <2> QED
    BY <2>2, <2>3 DEF DayType
<1>4. Ordinal(start) \in Int /\ Ordinal(end) \in Int /\ Ordinal(day) \in Int
  BY <1>1, <1>3, OrdinalIs
<1>5. Ordinal(start) <= Ordinal(day) /\ Ordinal(day) <= Ordinal(end) /\ (Ordinal(day) = Ordinal(end) => day = end)
  BY <1>1, <1>3, <1>4 DEF Earlier, Later
<1>6. day # end
  BY <1>2
<1>7. Ordinal(day) < Ordinal(end)
  BY <1>4, <1>5, <1>6
<1> QED
  <2>1. Stub(Current, day) = [start |-> day, end |-> end]
    BY <1>2, <1>4, <1>5, <1>7 DEF Stub, Period, Later
  <2>2. Stub(Current, day) # NoPeriod
    BY <1>1, <1>3, <2>1, PeriodsAssumption DEF DayType
  <2> DEFINE x == Ordinal(day) - Ordinal(start)
             y == Ordinal(end) - Ordinal(day) + 1
  <2>3. x \in Nat /\ y \in Nat /\ x + y > 0 /\ x + y = Ordinal(end) - Ordinal(start) + 1
    BY <1>4, <1>5
  <2>4. Span(start, end) = x + y
    BY <1>1, <1>4, <2>3, SpanIs
  <2>5. Fraction(Current, start, DayBefore(day)) = HalfUp(x * Whole, x + y)
    <3>1. DayBefore(day) \in DayType /\ Ordinal(DayBefore(day)) = Ordinal(day) - 1
      BY <1>3, DayBeforeIs
    <3>2. Later(start, start) = start /\ Earlier(DayBefore(day), end) = DayBefore(day)
      BY <1>4, <1>5, <3>1 DEF Later, Earlier
    <3>3. Span(start, DayBefore(day)) = x
      BY <1>1, <1>4, <1>5, <3>1, SpanIs
    <3> QED
      BY <1>2, <2>4, <3>2, <3>3 DEF Fraction
  <2>6. Fraction(Current, day, end) = HalfUp(y * Whole, x + y)
    <3>1. Later(day, start) = day /\ Earlier(end, end) = end
      BY <1>4, <1>5 DEF Later, Earlier
    <3>2. Span(day, end) = y
      BY <1>1, <1>3, <1>4, <1>5, SpanIs
    <3> QED
      BY <1>2, <2>4, <3>1, <3>2 DEF Fraction
  <2> HIDE DEF x, y
  <2>7. Magnitude(HalfUp(x * Whole, x + y) + HalfUp(y * Whole, x + y) - Whole) <= 1
    BY <2>3, PartsAddUp
  <2> QED
    BY <2>1, <2>2, <2>5, <2>6, <2>7

\* A day some months later, and the day before it.
LEMMA AdvancedIs ==
  ASSUME PeriodsInv, NEW months \in Nat \ {0}
  PROVE  LET next == AdvanceMonths(start, months) IN
         /\ next \in DayType /\ next.month = start.month + months /\ next.month \in Int
         /\ next.day \in 1..Length(next.month)
         /\ DayBefore(next) \in DayType
         /\ Ordinal(next) = DaysBefore(next.month) + next.day
         /\ Ordinal(DayBefore(next)) = Ordinal(next) - 1
         /\ DaysBefore(next.month) \in Int /\ Length(next.month) \in 28..31
<1> DEFINE next == AdvanceMonths(start, months)
<1>1. start \in [month : Int, day : Int] /\ start.day >= 1 /\ months \in Int /\ start.month \in Int /\ start.day \in Int
  BY CurrentIs DEF DayType
<1>2. /\ next \in [month : Int, day : Int] /\ next.month = start.month + months
      /\ next.day = IF start.day <= Length(next.month) THEN start.day ELSE Length(next.month)
  BY <1>1, AdvanceIs
<1> HIDE DEF next
<1>3. next \in DayType /\ next.month \in Int /\ Length(next.month) \in 28..31
  BY <1>2, LengthIs DEF DayType
<1>4. next.day \in 1..Length(next.month)
  BY <1>1, <1>2, <1>3
<1> QED
  BY <1>2, <1>3, <1>4, DayBeforeIs, OrdinalIs, MonthsFollow DEF next

LEMMA FirstPeriodAlwaysCovers ==
  ASSUME PeriodsInv
  PROVE  FirstPeriodCovers
<1> DEFINE billed == Ordinal(Current.end)
           end == Ordinal(FirstPeriodEnd(start, cycle))
<1>1. /\ start \in DayType /\ start.month \in Int /\ start.day \in 1..Length(start.month) /\ start.day \in Int
      /\ Ordinal(start) = DaysBefore(start.month) + start.day /\ DaysBefore(start.month) \in Int
      /\ Length(start.month) \in 28..31
  BY CurrentIs, OrdinalIs, MonthsFollow, LengthIs DEF DayType
<1>2. Current.end = DayBefore(AdvanceMonths(start, CycleMonths[cycle]))
  BY DEF Current, NextStart, Period
<1>3. CASE cycle = "annual"
  BY <1>2, <1>3 DEF FirstPeriodCovers, FirstPeriodEnd, CycleMonths
<1>4. CASE cycle = "monthly"
  <2> DEFINE next == AdvanceMonths(start, 1)
  <2>1. billed = Ordinal(DayBefore(next))
    BY <1>2, <1>4 DEF CycleMonths
  <2>2. FirstPeriodEnd(start, cycle) = [month |-> start.month, day |-> Length(start.month)]
    BY <1>4 DEF FirstPeriodEnd, MonthEnd, Date
  <2>3. FirstPeriodEnd(start, cycle) \in DayType
    BY <1>1, <2>2 DEF DayType
  <2>4. end = DaysBefore(start.month) + Length(start.month)
    BY <2>2, <2>3, OrdinalIs
  <2>5. /\ next.month = start.month + 1 /\ next.day >= 1 /\ next.day \in Int
        /\ Ordinal(next) = DaysBefore(next.month) + next.day
        /\ Ordinal(DayBefore(next)) = Ordinal(next) - 1
        /\ DaysBefore(next.month) \in Int
    <3>1. 1 \in Nat \ {0}
      OBVIOUS
    <3> QED
      BY <3>1, AdvancedIs
  <2> HIDE DEF next
  <2>6. DaysBefore(next.month) = DaysBefore(start.month) + Length(start.month)
    BY <1>1, <2>5, MonthsFollow
  <2>7. end \in Ordinal(start)..billed
    BY <1>1, <2>1, <2>4, <2>5, <2>6
  <2> QED
    BY <1>4, <2>7 DEF FirstPeriodCovers
<1>5. CASE cycle = "quarterly"
  BY <1>5 DEF FirstPeriodCovers
<1>6. cycle \in {"monthly", "quarterly", "annual"}
  BY DEF PeriodsInv, CycleMonths
<1> QED
  BY <1>3, <1>4, <1>5, <1>6

\* A chain of billing periods keeps its months and begins each on the earliest day promised
\* so far, which is its first day when that is one of the first 28;
\* a day before the last divides a period into fractions of the whole; and the first
\* period of an annual or monthly subscription ends with the billing period or before it:
\* for any first day, chains of any length and any number of decimal places.
THEOREM PeriodsAlwaysSettle == Spec => []PeriodsSettle
<1>1. Init => PeriodsInv
  BY PeriodsBegin
<1>2. PeriodsInv /\ [Next]_vars => PeriodsInv'
  <2>1. PeriodsInv /\ UNCHANGED periodVars => PeriodsInv'
    BY DEF periodVars, PeriodsInv, Promised
  <2> QED
    BY <2>1, PeriodsStep DEF Next, vars
<1>3. PeriodsInv => PeriodsSettle
  BY ChainAlwaysKeepsMonths, StubsAlwaysSettle, FirstPeriodAlwaysCovers DEF PeriodsSettle
<1> QED
  BY <1>1, <1>2, <1>3, PTL DEF Spec

(***************************************************************************)
(* Queries                                                                 *)
(***************************************************************************)

\* Both tables have the same rows at the same places, each key once.
QueriesInv ==
  /\ column \in Column
  /\ memory \in Seq([key : RowKey, value : Values])
  /\ database \in Seq([key : RowKey, value : {Stored(v) : v \in Values}])
  /\ Len(memory) = Len(database)
  /\ \A k \in 1..Len(memory) : database[k].key = memory[k].key /\ database[k].value = Stored(memory[k].value)
  /\ \A j, k \in 1..Len(memory) : memory[j].key = memory[k].key => j = k

\* A value is loaded as it was stored.
LEMMA LoadedIs ==
  ASSUME column \in Column, NEW v \in Values
  PROVE  Loaded(Stored(v)) = v
<1>1. CASE v = None
  BY <1>1 DEF Loaded, Stored
<1>2. CASE v # None
  <2>1. v \in column /\ v.text # None /\ Stored(v) = v.text
    BY <1>2, QueriesAssumption DEF Values, Stored
  <2>2. \A w \in column : w.text = v.text => w = v
    BY <2>1, QueriesAssumption
  <2> QED
    BY <2>1, <2>2 DEF Loaded
<1> QED
  BY <1>1, <1>2

LEMMA PlaceIs ==
  ASSUME QueriesInv, NEW key \in KeysOf(memory)
  PROVE  /\ PlaceOf(memory, key) \in 1..Len(memory)
         /\ PlaceOf(database, key) = PlaceOf(memory, key)
<1>1. DOMAIN memory = 1..Len(memory) /\ DOMAIN database = 1..Len(memory)
  BY DEF QueriesInv
<1>2. PICK k \in 1..Len(memory) : memory[k].key = key
  BY <1>1 DEF KeysOf
<1>3. database[k].key = key
  BY <1>2 DEF QueriesInv
<1>4. PlaceOf(memory, key) \in 1..Len(memory) /\ memory[PlaceOf(memory, key)].key = key
  BY <1>1, <1>2 DEF PlaceOf
<1>5. PlaceOf(database, key) \in 1..Len(memory) /\ database[PlaceOf(database, key)].key = key
  BY <1>1, <1>2, <1>3 DEF PlaceOf
<1>6. memory[PlaceOf(database, key)].key = key
  BY <1>5 DEF QueriesInv
<1> QED
  BY <1>4, <1>5, <1>6 DEF QueriesInv

LEMMA RemoveAtIs ==
  ASSUME NEW S, NEW s \in Seq(S), NEW i \in 1..Len(s)
  PROVE  /\ RemoveAt(s, i) \in Seq(S)
         /\ Len(RemoveAt(s, i)) = Len(s) - 1
         /\ \A k \in 1..Len(s) - 1 : RemoveAt(s, i)[k] = IF k < i THEN s[k] ELSE s[k + 1]
<1> DEFINE head == SubSeq(s, 1, i - 1)
           tail == SubSeq(s, i + 1, Len(s))
<1>1. /\ head \in Seq(S) /\ Len(head) = i - 1
      /\ \A k \in 1..i - 1 : head[k] = s[k]
  OBVIOUS
<1>2. /\ tail \in Seq(S) /\ Len(tail) = Len(s) - i
      /\ \A k \in 1..Len(s) - i : tail[k] = s[i + k]
  OBVIOUS
<1>3. RemoveAt(s, i) = head \o tail
  BY DEF RemoveAt
<1> HIDE DEF head, tail
<1>4. Len(s) \in Nat
  OBVIOUS
<1>5. /\ head \o tail \in Seq(S) /\ Len(head \o tail) = Len(s) - 1
      /\ \A k \in 1..Len(s) - 1 : (head \o tail)[k] = IF k <= i - 1 THEN head[k] ELSE tail[k - (i - 1)]
  <2>1. /\ head \o tail \in Seq(S) /\ Len(head \o tail) = Len(head) + Len(tail)
        /\ \A k \in 1..Len(head) + Len(tail) :
             (head \o tail)[k] = IF k <= Len(head) THEN head[k] ELSE tail[k - Len(head)]
    BY <1>1, <1>2, ConcatProperties
  <2>2. Len(head) = i - 1 /\ Len(head) + Len(tail) = Len(s) - 1
    BY <1>1, <1>2, <1>4
  <2> QED
    BY <2>1, <2>2
<1>6. ASSUME NEW k \in 1..Len(s) - 1
      PROVE  (head \o tail)[k] = IF k < i THEN s[k] ELSE s[k + 1]
  <2>1. CASE k < i
    BY <1>1, <1>5, <2>1
  <2>2. CASE ~(k < i)
    <3>1. k - (i - 1) \in 1..Len(s) - i /\ i + (k - (i - 1)) = k + 1
      BY <1>4, <2>2
    <3> QED
      BY <1>2, <1>5, <2>2, <3>1
  <2> QED
    BY <2>1, <2>2
<1> QED
  BY <1>3, <1>5, <1>6

LEMMA QueriesBegin ==
  ASSUME Init
  PROVE  QueriesInv
<1>1. memory = <<>> /\ database = <<>>
  BY DEF Init, QueriesInit
<1>2. column \in Column
  BY QueriesAssumption DEF Init, Choice
<1> QED
  BY <1>1, <1>2 DEF QueriesInv

LEMMA QueriesStep ==
  ASSUME QueriesInv, QueriesNext
  PROVE  QueriesInv'
<1> DEFINE mrow == [key : RowKey, value : Values]
           drow == [key : RowKey, value : {Stored(v) : v \in Values}]
<1>1. memory \in Seq(mrow) /\ database \in Seq(drow) /\ Len(memory) = Len(database) /\ column \in Column
  BY DEF QueriesInv
<1>2. \A key \in RowKey, v \in Values : Row(key, v) \in mrow /\ Row(key, Stored(v)) \in drow
  BY DEF Row
<1> HIDE DEF mrow, drow
<1>3. \A key, v : Row(key, v).key = key /\ Row(key, v).value = v
  BY DEF Row
<1>4. /\ DOMAIN memory = 1..Len(memory) /\ DOMAIN database = 1..Len(memory) /\ Len(memory) \in Nat
      /\ \A k \in 1..Len(memory) : memory[k] \in mrow /\ database[k] \in drow
  BY <1>1
<1>5. ASSUME UNCHANGED column, NEW n \in Nat,
             memory' \in Seq(mrow), database' \in Seq(drow), Len(memory') = n, Len(database') = n,
             \A k \in 1..n : database'[k].key = memory'[k].key /\ database'[k].value = Stored(memory'[k].value),
             \A j, k \in 1..n : memory'[j].key = memory'[k].key => j = k
      PROVE  QueriesInv'
  BY <1>1, <1>5 DEF QueriesInv, Values, Stored, mrow, drow
<1>6. ASSUME NEW key \in RowKey, NEW v \in Values, AddRow(key, v)
      PROVE  QueriesInv'
  <2> DEFINE n == Len(memory) + 1
             new == Row(key, v)
             kept == Row(key, Stored(v))
  <2>1. /\ memory' = Append(memory, new) /\ database' = Append(database, kept) /\ UNCHANGED column
        /\ key \notin KeysOf(memory)
    BY <1>6 DEF AddRow
  <2>2. new \in mrow /\ kept \in drow /\ new.key = key /\ kept.key = key /\ new.value = v /\ kept.value = Stored(v)
    BY <1>2, <1>3
  <2> HIDE DEF new, kept
  <2>3. memory' \in Seq(mrow) /\ database' \in Seq(drow) /\ Len(memory') = n /\ Len(database') = n
    BY <1>1, <2>1, <2>2
  <2>4. /\ memory'[n] = new /\ database'[n] = kept
        /\ \A k \in 1..n : k # n => k \in 1..Len(memory) /\ memory'[k] = memory[k] /\ database'[k] = database[k]
    BY <1>1, <1>4, <2>1
  <2>5. \A k \in 1..Len(memory) : memory[k].key # key
    BY <1>4, <2>1 DEF KeysOf
  <2>6. \A k \in 1..n : database'[k].key = memory'[k].key /\ database'[k].value = Stored(memory'[k].value)
    BY <2>2, <2>4 DEF QueriesInv
  <2>7. \A j, k \in 1..n : memory'[j].key = memory'[k].key => j = k
    BY <2>2, <2>4, <2>5 DEF QueriesInv
  <2> QED
    BY <1>4, <1>5, <2>1, <2>3, <2>6, <2>7
<1>7. ASSUME NEW key \in RowKey, NEW v \in Values, UpdateRow(key, v)
      PROVE  QueriesInv'
  <2> DEFINE n == Len(memory)
             new == Row(key, v)
             kept == Row(key, Stored(v))
  <2>1. /\ memory' = [k \in DOMAIN memory |-> IF memory[k].key = key THEN new ELSE memory[k]]
        /\ database' = [k \in DOMAIN database |-> IF database[k].key = key THEN kept ELSE database[k]]
        /\ UNCHANGED column
    BY <1>7 DEF UpdateRow, With
  <2>2. new \in mrow /\ kept \in drow /\ new.key = key /\ kept.key = key /\ new.value = v /\ kept.value = Stored(v)
    BY <1>2, <1>3
  <2> HIDE DEF new, kept
  <2>3. /\ DOMAIN memory' = 1..n /\ DOMAIN database' = 1..n
        /\ \A k \in 1..n : /\ memory'[k] = IF memory[k].key = key THEN new ELSE memory[k]
                           /\ database'[k] = IF memory[k].key = key THEN kept ELSE database[k]
    BY <1>4, <2>1 DEF QueriesInv
  <2>4. memory' \in Seq(mrow) /\ database' \in Seq(drow) /\ Len(memory') = n /\ Len(database') = n
    <3>1. memory' \in [1..n -> mrow] /\ database' \in [1..n -> drow]
      BY <1>4, <2>1, <2>2, <2>3
    <3> QED
      BY <1>4, <3>1
  <2>5. \A k \in 1..n : memory'[k].key = memory[k].key
    BY <2>2, <2>3
  <2>6. \A k \in 1..n : database'[k].key = memory'[k].key /\ database'[k].value = Stored(memory'[k].value)
    BY <2>2, <2>3 DEF QueriesInv
  <2>7. \A j, k \in 1..n : memory'[j].key = memory'[k].key => j = k
    BY <2>5 DEF QueriesInv
  <2> QED
    BY <1>4, <1>5, <2>1, <2>4, <2>6, <2>7
<1>8. ASSUME NEW key \in RowKey, DeleteRow(key)
      PROVE  QueriesInv'
  <2> DEFINE n == Len(memory)
             p == PlaceOf(memory, key)
  <2>1. /\ memory' = RemoveAt(memory, p) /\ database' = RemoveAt(database, p) /\ UNCHANGED column
        /\ p \in 1..n
    BY <1>8, PlaceIs DEF DeleteRow, Without
  <2> HIDE DEF p
  <2>2. /\ memory' \in Seq(mrow) /\ Len(memory') = n - 1
        /\ \A k \in 1..n - 1 : memory'[k] = IF k < p THEN memory[k] ELSE memory[k + 1]
    BY <1>1, <2>1, RemoveAtIs
  <2>3. /\ database' \in Seq(drow) /\ Len(database') = n - 1
        /\ \A k \in 1..n - 1 : database'[k] = IF k < p THEN database[k] ELSE database[k + 1]
    BY <1>1, <2>1, RemoveAtIs
  <2>4. \A k \in 1..n - 1 : k \in 1..n /\ k + 1 \in 1..n
    BY <1>4
  <2>5. ASSUME NEW k \in 1..n - 1
        PROVE  database'[k].key = memory'[k].key /\ database'[k].value = Stored(memory'[k].value)
    <3>1. CASE k < p
      BY <2>2, <2>3, <2>4, <3>1 DEF QueriesInv
    <3>2. CASE ~(k < p)
      BY <2>2, <2>3, <2>4, <3>2 DEF QueriesInv
    <3> QED
      BY <3>1, <3>2
  <2>6. \A j, k \in 1..n - 1 : memory'[j].key = memory'[k].key => j = k
    BY <1>4, <2>1, <2>2, <2>4 DEF QueriesInv
  <2>7. n - 1 \in Nat
    BY <1>4, <2>1
  <2> QED
    BY <1>5, <2>1, <2>2, <2>3, <2>5, <2>6, <2>7
<1> QED
  BY <1>6, <1>7, <1>8 DEF QueriesNext

\* What the database selects of values whose texts compare as they do.
LEMMA SelectsIs ==
  ASSUME column \in Column, NEW v \in Values, NEW target \in Values, NEW operator \in Ordering \cup {"EQ", "NE"}
  PROVE  /\ None \in {v, target} => ~Selects(Stored(v), operator, target)
         /\ None \notin {v, target} /\ Alike(v, target) =>
              (Selects(Stored(v), operator, target) <=> Matches(v, operator, target))
         /\ Selects(Stored(v), "EQ", target) => v = target
<1>1. CASE None \in {v, target}
  BY <1>1 DEF Selects, Stored
<1>2. CASE None \notin {v, target}
  <2>1. v \in column /\ target \in column /\ Stored(v) = v.text /\ Stored(target) = target.text /\ v.text # None
    BY <1>2, QueriesAssumption DEF Values, Stored
  <2>2. Selects(Stored(v), operator, target) <=> Compare(operator, v.text, target.text)
    BY <1>2, <2>1, Zenon DEF Selects
  <2>3. Matches(v, operator, target) <=> Compare(operator, v.rank, target.rank)
    BY <1>2, Zenon DEF Matches
  <2>4. Selects(Stored(v), "EQ", target) => v.text = target.text
    BY <1>2, <2>1 DEF Selects, Compare
  <2>5. Alike(v, target) => (Compare(operator, v.text, target.text) <=> Compare(operator, v.rank, target.rank))
    <3>1. CASE operator = "NE"
      <4>1. Alike(v, target) => (v.rank = target.rank) = (v.text = target.text)
        BY DEF Alike, Compare
      <4> QED
        BY <3>1, <4>1 DEF Compare
    <3>2. CASE operator # "NE"
      BY <3>2 DEF Alike
    <3> QED
      BY <3>1, <3>2
  <2> QED
    BY <1>2, <2>1, <2>2, <2>3, <2>4, <2>5, QueriesAssumption
<1> QED
  BY <1>1, <1>2

LEMMA QueriesAlwaysAgree ==
  ASSUME QueriesInv
  PROVE  QueriesAgree
<1>1. /\ DOMAIN memory = 1..Len(memory) /\ DOMAIN database = 1..Len(memory)
      /\ column \in Column
      /\ \A k \in 1..Len(memory) : memory[k] \in [key : RowKey, value : Values]
  <2> DEFINE mrow == [key : RowKey, value : Values]
             drow == [key : RowKey, value : {Stored(v) : v \in Values}]
  <2>1. memory \in Seq(mrow) /\ database \in Seq(drow) /\ Len(memory) = Len(database) /\ column \in Column
    BY DEF QueriesInv
  <2> HIDE DEF mrow, drow
  <2>2. /\ DOMAIN memory = 1..Len(memory) /\ DOMAIN database = 1..Len(memory)
        /\ \A k \in 1..Len(memory) : memory[k] \in mrow
    BY <2>1
  <2> QED
    BY <2>1, <2>2 DEF mrow
<1>2. \A k \in 1..Len(memory) : /\ memory[k].value \in Values /\ database[k].value = Stored(memory[k].value)
                                /\ memory[k] = [key |-> database[k].key, value |-> memory[k].value]
  BY <1>1 DEF QueriesInv
<1>3. memory = Entities
  <2>1. \A k \in 1..Len(memory) : Entities[k] = memory[k]
    <3> TAKE k \in 1..Len(memory)
    <3>1. Loaded(database[k].value) = memory[k].value
      BY <1>1, <1>2, LoadedIs
    <3> QED
      BY <1>1, <1>2, <3>1 DEF Entities, Row
  <2>2. DOMAIN Entities = 1..Len(memory) /\ Entities = [k \in 1..Len(memory) |-> Entities[k]]
    BY <1>1 DEF Entities
  <2>3. memory = [k \in 1..Len(memory) |-> memory[k]]
    BY <1>1 DEF QueriesInv
  <2> QED
    BY <2>1, <2>2, <2>3
<1>4. ASSUME NEW target \in Values, NEW operator \in Ordering \cup {"EQ", "NE"}
      PROVE  LET alike == target # None => \A k \in DOMAIN memory : memory[k].value # None => Alike(memory[k].value, target)
             IN /\ alike /\ (target = None => operator \notin Ordering) =>
                     Select(operator, target) = At(memory, IF target = None THEN {} ELSE Present(Found(operator, target)))
                /\ operator = "EQ" => Selected(operator, target) \subseteq Found(operator, target)
  <2>1. ASSUME target = None
        PROVE  Selected(operator, target) = {}
    BY <1>1, <1>2, <2>1, SelectsIs DEF Selected
  <2>2. ASSUME target # None, \A k \in DOMAIN memory : memory[k].value # None => Alike(memory[k].value, target)
        PROVE  Selected(operator, target) = Present(Found(operator, target))
    <3>1. ASSUME NEW k \in 1..Len(memory)
          PROVE  (k \in Selected(operator, target)) <=> (k \in Present(Found(operator, target)))
      <4> DEFINE v == memory[k].value
      <4>1. v \in Values /\ database[k].value = Stored(v)
        BY <1>2
      <4>2. k \in Selected(operator, target) <=> Selects(Stored(v), operator, target)
        BY <1>1, <4>1 DEF Selected
      <4>3. k \in Present(Found(operator, target)) <=> (v # None /\ Matches(v, operator, target))
        BY <1>1 DEF Present, Found
      <4>4. v # None => Alike(v, target)
        BY <1>1, <2>2
      <4> HIDE DEF v
      <4> QED
        BY <1>1, <2>2, <4>1, <4>2, <4>3, <4>4, SelectsIs
    <3>2. Selected(operator, target) \subseteq 1..Len(memory) /\ Present(Found(operator, target)) \subseteq 1..Len(memory)
      BY <1>1 DEF Selected, Present, Found
    <3> QED
      BY <3>1, <3>2
  <2>3. ASSUME operator = "EQ"
        PROVE  Selected(operator, target) \subseteq Found(operator, target)
    <3> SUFFICES ASSUME NEW k \in Selected(operator, target) PROVE k \in Found(operator, target)
      OBVIOUS
    <3>1. k \in 1..Len(memory) /\ Selects(database[k].value, "EQ", target)
      BY <1>1, <2>3 DEF Selected
    <3>2. memory[k].value = target
      BY <1>1, <1>2, <3>1, SelectsIs
    <3>3. Matches(target, "EQ", target)
      BY DEF Matches, Compare
    <3> QED
      BY <1>1, <2>3, <3>1, <3>2, <3>3 DEF Found
  <2>4. Select(operator, target) = At(memory, Selected(operator, target))
    BY <1>3 DEF Select
  <2> QED
    BY <2>1, <2>2, <2>3, <2>4
<1>5. ASSUME NEW targets \in SUBSET Values, \A v \in targets \ {None}, w \in column : Alike(w, v)
      PROVE  SelectIn(targets) = At(memory, Present(FoundIn(targets)))
  <2>1. ASSUME NEW k \in 1..Len(memory)
        PROVE  (k \in SelectedIn(targets)) <=> (k \in Present(FoundIn(targets)))
    <3> DEFINE w == memory[k].value
    <3>1. w \in Values /\ database[k].value = Stored(w)
      BY <1>2
    <3>2. k \in SelectedIn(targets) <=> \E v \in targets : Selects(Stored(w), "EQ", v)
      BY <1>1, <3>1 DEF SelectedIn
    <3>3. k \in Present(FoundIn(targets)) <=> (w # None /\ \E v \in targets : Matches(w, "EQ", v))
      BY <1>1 DEF Present, FoundIn
    <3> HIDE DEF w
    <3>4. ASSUME NEW v \in targets
          PROVE  Selects(Stored(w), "EQ", v) <=> (w # None /\ Matches(w, "EQ", v))
      <4>1. CASE None \in {w, v}
        BY <1>1, <3>1, <4>1, SelectsIs DEF Matches
      <4>2. CASE None \notin {w, v}
        <5>1. w \in column /\ v \in Values
          BY <3>1, <4>2 DEF Values
        <5>2. Alike(w, v)
          BY <1>5, <4>2, <5>1
        <5> QED
          BY <1>1, <3>1, <4>2, <5>1, <5>2, SelectsIs
      <4> QED
        BY <4>1, <4>2
    <3> QED
      BY <3>2, <3>3, <3>4
  <2>2. SelectedIn(targets) \subseteq 1..Len(memory) /\ Present(FoundIn(targets)) \subseteq 1..Len(memory)
    BY <1>1 DEF SelectedIn, Present, FoundIn
  <2>3. SelectedIn(targets) = Present(FoundIn(targets))
    BY <2>1, <2>2
  <2> QED
    BY <1>3, <2>3 DEF SelectIn
<1> QED
  BY <1>3, <1>4, <1>5 DEF QueriesAgree

\* The two repositories agree on their entities and on what a query finds, for any keys,
\* any values of which no two have one text, and any queries.
THEOREM RepositoriesAgree == Spec => []QueriesAgree
<1>1. Init => QueriesInv
  BY QueriesBegin
<1>2. QueriesInv /\ [Next]_vars => QueriesInv'
  <2>1. QueriesInv /\ UNCHANGED queriesVars => QueriesInv'
    BY DEF queriesVars, QueriesInv, Values, Stored
  <2> QED
    BY <2>1, QueriesStep DEF Next, vars
<1>3. QueriesInv => QueriesAgree
  BY QueriesAlwaysAgree
<1> QED
  BY <1>1, <1>2, <1>3, PTL DEF Spec

(***************************************************************************)
(* Revenue, month by month                                                 *)
(***************************************************************************)

LEMMA DateIs ==
  ASSUME NEW date, IsDate(date)
  PROVE  /\ date \in DayType /\ date.month \in Int /\ date.day \in 1..Length(date.month)
         /\ Length(date.month) \in 28..31 /\ DaysBefore(date.month) \in Int
         /\ Ordinal(date) = DaysBefore(date.month) + date.day /\ Ordinal(date) \in Int
<1>1. date \in DayType /\ date.day \in 1..Length(date.month)
  BY DEF IsDate, DayType
<1>2. date.month \in Int
  BY <1>1 DEF DayType
<1> QED
  BY <1>1, <1>2, OrdinalIs, LengthIs, MonthsFollow

LEMMA MonthBounds ==
  ASSUME NEW n \in Int
  PROVE  /\ IsDate(MonthStart(n)) /\ MonthStart(n).month = n /\ Ordinal(MonthStart(n)) = DaysBefore(n) + 1
         /\ IsDate(MonthEnd(n)) /\ MonthEnd(n).month = n /\ Ordinal(MonthEnd(n)) = DaysBefore(n) + Length(n)
         /\ DaysBefore(n) \in Int /\ Length(n) \in 28..31
<1>1. DaysBefore(n) \in Int /\ Length(n) \in 28..31
  BY LengthIs, MonthsFollow
<1>2. MonthStart(n) = [month |-> n, day |-> 1] /\ MonthEnd(n) = [month |-> n, day |-> Length(n)]
  BY DEF MonthStart, MonthEnd, Date
<1>3. IsDate(MonthStart(n))
  BY <1>1, <1>2 DEF IsDate
<1>4. IsDate(MonthEnd(n))
  BY <1>1, <1>2 DEF IsDate
<1> QED
  BY <1>1, <1>2, <1>3, <1>4, DateIs

\* A day is after every month before its own, and before every month after it.
LEMMA MonthOfDay ==
  ASSUME NEW date, IsDate(date), NEW n \in Int
  PROVE  /\ Ordinal(date) <= DaysBefore(n) + Length(n) <=> date.month <= n
         /\ DaysBefore(n) + 1 <= Ordinal(date) <=> n <= date.month
<1> DEFINE m == date.month
<1>1. /\ m \in Int /\ date.day \in 1..Length(m) /\ Length(m) \in 28..31 /\ DaysBefore(m) \in Int
      /\ Ordinal(date) = DaysBefore(m) + date.day
  BY DateIs
<1>2. DaysBefore(n) \in Int /\ Length(n) \in 28..31
  BY LengthIs, MonthsFollow
<1> HIDE DEF m
<1>3. CASE m = n
  BY <1>1, <1>2, <1>3 DEF m
<1>4. CASE m < n
  <2>1. DaysBefore(m) + Length(m) <= DaysBefore(n)
    BY <1>1, <1>4, MonthsOrdered
  <2> QED
    BY <1>1, <1>2, <1>4, <2>1 DEF m
<1>5. CASE n < m
  <2>1. DaysBefore(n) + Length(n) <= DaysBefore(m)
    BY <1>1, <1>5, MonthsOrdered
  <2> QED
    BY <1>1, <1>2, <1>5, <2>1 DEF m
<1> QED
  BY <1>1, <1>3, <1>4, <1>5

\* The days of a month that an obligation is performed on, by the numbers of its days.
LEMMA ActiveIs ==
  ASSUME NEW o, IsDate(o.start), IsDate(o.end), NEW n \in Int
  PROVE  LET first == DaysBefore(n) + 1
             last == DaysBefore(n) + Length(n)
             from == IF Ordinal(o.start) < first THEN first ELSE Ordinal(o.start)
             to == IF Ordinal(o.end) < last THEN Ordinal(o.end) ELSE last
         IN DaysActive(o, n) = IF from <= to THEN to - from + 1 ELSE 0
<1> DEFINE first == DaysBefore(n) + 1
           last == DaysBefore(n) + Length(n)
           from == IF Ordinal(o.start) < first THEN first ELSE Ordinal(o.start)
           to == IF Ordinal(o.end) < last THEN Ordinal(o.end) ELSE last
<1>1. Ordinal(o.start) \in Int /\ Ordinal(o.end) \in Int
  BY DateIs
<1>2. Ordinal(MonthStart(n)) = first /\ Ordinal(MonthEnd(n)) = last /\ first \in Int /\ last \in Int
  BY MonthBounds
<1>3. Ordinal(Later(o.start, MonthStart(n))) = from
  BY <1>2 DEF Later
<1>4. Ordinal(Earlier(o.end, MonthEnd(n))) = to
  BY <1>2 DEF Earlier
<1>5. from \in Int /\ to \in Int
  BY <1>1, <1>2
<1> HIDE DEF from, to
<1>6. DaysActive(o, n) = Max({0, to - from + 1})
  BY <1>3, <1>4 DEF DaysActive, Span
<1>7. to - from + 1 \in Int
  BY <1>5
<1>8. Max({0, to - from + 1}) = IF 0 >= to - from + 1 THEN 0 ELSE to - from + 1
  BY <1>7, GreatestOfTwo
<1>9. DaysActive(o, n) = IF from <= to THEN to - from + 1 ELSE 0
  BY <1>5, <1>6, <1>8
<1> QED
  BY <1>9 DEF from, to

\* An obligation with an end.
Ends(o) == IsObligation(o) /\ o.end # Perpetual

LEMMA EndsIs ==
  ASSUME NEW o, Ends(o)
  PROVE  /\ IsDate(o.start) /\ IsDate(o.end) /\ Ordinal(o.start) <= Ordinal(o.end)
         /\ o.start.month \in Int /\ o.end.month \in Int /\ o.start.month <= o.end.month
         /\ FirstMonth <= o.start.month
         /\ Months(o) \in Nat \ {0}
<1>1. IsDate(o.start) /\ IsDate(o.end) /\ Ordinal(o.start) <= Ordinal(o.end) /\ FirstMonth <= o.start.month
  BY DEF Ends, IsObligation
<1>2. o.start.month \in Int /\ o.end.month \in Int /\ Ordinal(o.start) \in Int /\ Ordinal(o.end) \in Int
  BY <1>1, DateIs
<1>3. Ordinal(o.end) <= DaysBefore(o.end.month) + Length(o.end.month)
  BY <1>1, <1>2, MonthOfDay
<1>4. Ordinal(o.start) <= DaysBefore(o.end.month) + Length(o.end.month)
  BY <1>1, <1>2, <1>3, MonthsFollow, LengthIs
<1>5. o.start.month <= o.end.month
  BY <1>1, <1>2, <1>4, MonthOfDay
<1> QED
  BY <1>1, <1>2, <1>5 DEF Months

\* A month outside an obligation has none of its days, a month inside it some, and all of
\* them where the obligation neither begins nor ends inside a month.
LEMMA ActiveInside ==
  ASSUME NEW o, Ends(o), NEW n \in Int
  PROVE  /\ DaysActive(o, n) \in 0..Length(n)
         /\ n \notin o.start.month..o.end.month => DaysActive(o, n) = 0
         /\ n \in o.start.month..o.end.month /\ ~BeginsInside(o) /\ ~EndsInside(o) => DaysActive(o, n) = Length(n)
<1> DEFINE first == DaysBefore(n) + 1
           last == DaysBefore(n) + Length(n)
           s == Ordinal(o.start)
           e == Ordinal(o.end)
           from == IF s < first THEN first ELSE s
           to == IF e < last THEN e ELSE last
<1>1. DaysActive(o, n) = IF from <= to THEN to - from + 1 ELSE 0
  BY EndsIs, ActiveIs
<1>2. /\ s \in Int /\ e \in Int /\ s <= e
      /\ o.start.month \in Int /\ o.end.month \in Int /\ o.start.month <= o.end.month
  BY EndsIs, DateIs
<1>3. first \in Int /\ last \in Int /\ last = first + Length(n) - 1 /\ Length(n) \in 28..31
  BY LengthIs, MonthsFollow
<1>4. (s <= last <=> o.start.month <= n) /\ (first <= e <=> n <= o.end.month)
  BY EndsIs, MonthOfDay
<1>5. ASSUME n \in o.start.month..o.end.month, ~BeginsInside(o), ~EndsInside(o)
      PROVE  s <= first /\ last <= e
  <2>1. o.start.day \in 1..Length(o.start.month) /\ o.end.day \in 1..Length(o.end.month)
        /\ Length(o.start.month) \in 28..31 /\ Length(o.end.month) \in 28..31
        /\ s = DaysBefore(o.start.month) + o.start.day /\ e = DaysBefore(o.end.month) + o.end.day
        /\ DaysBefore(o.start.month) \in Int /\ DaysBefore(o.end.month) \in Int
    BY EndsIs, DateIs
  <2>2. o.start.day = 1 /\ o.end.day = Length(o.end.month)
    BY <1>5, <2>1 DEF BeginsInside, EndsInside
  <2>3. s = DaysBefore(o.start.month) + 1 /\ e = DaysBefore(o.end.month) + Length(o.end.month)
    BY <2>1, <2>2
  <2>4. s <= first
    <3>1. IsDate(MonthStart(n)) /\ MonthStart(n).month = n /\ Ordinal(MonthStart(n)) = first
      BY MonthBounds
    <3>2. DaysBefore(o.start.month) + 1 <= Ordinal(MonthStart(n)) <=> o.start.month <= MonthStart(n).month
      BY <1>2, <3>1, MonthOfDay
    <3> QED
      BY <1>2, <1>5, <2>3, <3>1, <3>2
  <2>5. last <= e
    <3>1. IsDate(MonthEnd(n)) /\ MonthEnd(n).month = n /\ Ordinal(MonthEnd(n)) = last
      BY MonthBounds
    <3>2. Ordinal(MonthEnd(n)) <= DaysBefore(o.end.month) + Length(o.end.month) <=> MonthEnd(n).month <= o.end.month
      BY <1>2, <3>1, MonthOfDay
    <3> QED
      BY <1>2, <1>5, <2>3, <3>1, <3>2
  <2> QED
    BY <2>4, <2>5
<1> HIDE DEF first, last, s, e
<1>6. DaysActive(o, n) \in 0..Length(n)
  BY <1>1, <1>2, <1>3
<1>7. ASSUME n \notin o.start.month..o.end.month PROVE DaysActive(o, n) = 0
  <2>1. ~(s <= last) \/ ~(first <= e)
    BY <1>2, <1>4, <1>7
  <2> QED
    BY <1>1, <1>2, <1>3, <2>1
<1>8. ASSUME n \in o.start.month..o.end.month, ~BeginsInside(o), ~EndsInside(o)
      PROVE  DaysActive(o, n) = Length(n)
  <2>1. s <= first /\ last <= e
    BY <1>5, <1>8
  <2> QED
    BY <1>1, <1>2, <1>3, <2>1
<1> QED
  BY <1>6, <1>7, <1>8

\* What is allocated to an obligation is not negative, and neither is what a month has of it,
\* which is nothing outside the obligation.
LEMMA StandaloneIs ==
  ASSUME NEW c, IsContract(c)
  PROVE  Standalone(c) \in Nat /\ IsFiniteSet(DOMAIN c.obligations)
<1> DEFINE f == [k \in DOMAIN c.obligations |-> c.obligations[k].price]
<1>1. IsFiniteSet(DOMAIN c.obligations)
  <2>1. IsFiniteSet(1..Len(c.obligations))
    BY FS_Interval DEF IsContract
  <2> QED
    BY <2>1, Zenon DEF IsContract
<1>2. DOMAIN f = DOMAIN c.obligations
  OBVIOUS
<1>3. \A k \in DOMAIN c.obligations : f[k] \in Int /\ f[k] >= 0
  BY DEF IsContract, IsObligation
<1>4. Standalone(c) = SumFunctionOnSet(f, DOMAIN c.obligations)
  BY <1>2, Zenon DEF Standalone, Total, SumFunction
<1> HIDE DEF f
<1>5. SumFunctionOnSet(f, DOMAIN c.obligations) \in Nat
  BY <1>1, <1>3, SumNonNegative
<1> QED
  BY <1>1, <1>4, <1>5

LEMMA AllocatedPriceIs ==
  ASSUME NEW price \in Nat, NEW standalone \in Nat, NEW total \in Nat
  PROVE  AllocatedPrice(price, standalone, total) \in Nat
<1>1. CASE total = 0
  BY <1>1 DEF AllocatedPrice
<1>2. CASE total # 0
  <2>1. price * standalone \in Nat /\ total \in Nat \ {0}
    BY <1>2
  <2>2. HalfUp(price * standalone, total) \in Nat
    BY <2>1, RoundedIs
  <2> QED
    BY <1>2, <2>2 DEF AllocatedPrice
<1> QED
  BY <1>1, <1>2

LEMMA AllocatedIs ==
  ASSUME NEW c, IsContract(c), NEW k \in DOMAIN c.obligations
  PROVE  Allocated(c, k) \in Nat
<1>1. Standalone(c) \in Nat /\ c.price \in Nat /\ c.obligations[k].price \in Nat
  BY StandaloneIs DEF IsContract, IsObligation
<1> QED
  BY <1>1, AllocatedPriceIs DEF Allocated

LEMMA MonthlyIs ==
  ASSUME NEW o, Ends(o), NEW a \in Nat
  PROVE  Monthly(o, a) \in Nat
BY EndsIs, RoundedIs DEF Monthly

LEMMA OfMonthIs ==
  ASSUME NEW o, Ends(o), NEW a \in Nat, NEW n \in Int
  PROVE  /\ OfMonth(o, a, n) \in Nat
         /\ n \notin o.start.month..o.end.month => OfMonth(o, a, n) = 0
         /\ DaysActive(o, n) = Length(n) => OfMonth(o, a, n) = Monthly(o, a)
<1> DEFINE monthly == Monthly(o, a)
           days == DaysActive(o, n)
           L == Length(n)
<1>1. monthly \in Nat /\ days \in 0..L /\ L \in 28..31
  BY MonthlyIs, ActiveInside, LengthIs
<1>2. OfMonth(o, a, n) = IF days = L THEN monthly ELSE HalfUp(monthly * days, L)
  BY DEF OfMonth
<1>3. n \notin o.start.month..o.end.month => days = 0
  BY ActiveInside
<1> HIDE DEF monthly, days, L
<1>4. monthly * days \in Nat /\ L \in Nat \ {0}
  BY <1>1
<1>5. HalfUp(monthly * days, L) \in Nat
  BY <1>4, RoundedIs
<1>6. ASSUME days = 0 PROVE HalfUp(monthly * days, L) = 0
  <2>1. monthly * days = 0
    BY <1>1, <1>6
  <2>2. (2 * 0 + L) \div (2 * L) = 0
    <3>1. 2 * L \in Nat \ {0} /\ L < 2 * L
      BY <1>1
    <3> DEFINE q == L \div (2 * L)
    <3>2. q \in Int /\ (2 * L) * q <= L /\ L < (2 * L) * q + 2 * L /\ q >= 0
      BY <1>1, <3>1, QuotientIs
    <3> HIDE DEF q
    <3>3. q = 0
      <4> SUFFICES ASSUME q >= 1 PROVE FALSE
        BY <3>2
      <4>1. (2 * L) * 1 <= (2 * L) * q
        BY <1>1, <3>2
      <4> QED
        BY <1>1, <3>1, <3>2, <4>1
    <3>4. 2 * 0 + L = L
      BY <1>1
    <3> QED
      BY <3>3, <3>4 DEF q
  <2> QED
    BY <2>1, <2>2 DEF HalfUp
<1> QED
  BY <1>1, <1>2, <1>3, <1>5, <1>6 DEF monthly, days, L

\* The months of a range that an obligation counts, as a sum.
ByMonth(o, a) == [n \in Int |-> OfMonth(o, a, n)]

LEMMA OfMonthsIs ==
  ASSUME NEW o, Ends(o), NEW a \in Nat, NEW from \in Int, NEW to \in Int
  PROVE  /\ OfMonths(o, a, from, to) = SumFunctionOnSet(ByMonth(o, a), from..to)
         /\ OfMonths(o, a, from, to) \in Nat
         /\ IsFiniteSet(from..to)
<1> DEFINE f == [n \in from..to |-> OfMonth(o, a, n)]
<1>1. IsFiniteSet(from..to)
  BY FS_Interval
<1>2. \A n \in from..to : f[n] \in Int /\ f[n] = ByMonth(o, a)[n] /\ f[n] >= 0
  <2> TAKE n \in from..to
  <2>1. n \in Int
    OBVIOUS
  <2>2. OfMonth(o, a, n) \in Nat
    BY <2>1, OfMonthIs
  <2> QED
    BY <2>1, <2>2 DEF ByMonth
<1>3. OfMonths(o, a, from, to) = SumFunctionOnSet(f, from..to)
  <2>1. DOMAIN f = from..to
    OBVIOUS
  <2> QED
    BY <2>1, Zenon DEF OfMonths, SumFunction
<1> HIDE DEF f
<1>4. SumFunctionOnSet(f, from..to) = SumFunctionOnSet(ByMonth(o, a), from..to)
  BY <1>1, <1>2, SumEqual
<1>5. SumFunctionOnSet(f, from..to) \in Nat
  BY <1>1, <1>2, SumNonNegative
<1> QED
  BY <1>1, <1>3, <1>4, <1>5

LEMMA MonthsSplit ==
  ASSUME NEW o, Ends(o), NEW a \in Nat, NEW from \in Int, NEW mid \in Int, NEW to \in Int,
         from <= mid + 1, mid <= to
  PROVE  OfMonths(o, a, from, to) = OfMonths(o, a, from, mid) + OfMonths(o, a, mid + 1, to)
<1>1. mid + 1 \in Int
  OBVIOUS
<1>2. IsFiniteSet(from..mid) /\ IsFiniteSet((mid + 1)..to)
  BY <1>1, FS_Interval
<1>3. (from..mid) \cap ((mid + 1)..to) = {} /\ from..to = (from..mid) \cup ((mid + 1)..to)
  OBVIOUS
<1>4. \A n \in (from..mid) \cup ((mid + 1)..to) : ByMonth(o, a)[n] \in Int
  <2> TAKE n \in (from..mid) \cup ((mid + 1)..to)
  <2>1. n \in Int
    BY <1>1
  <2> QED
    BY <2>1, OfMonthIs DEF ByMonth
<1>5. SumFunctionOnSet(ByMonth(o, a), (from..mid) \cup ((mid + 1)..to))
        = SumFunctionOnSet(ByMonth(o, a), from..mid) + SumFunctionOnSet(ByMonth(o, a), (mid + 1)..to)
  BY <1>2, <1>3, <1>4, SumDisjoint
<1>6. SumFunctionOnSet(ByMonth(o, a), from..to)
        = SumFunctionOnSet(ByMonth(o, a), from..mid) + SumFunctionOnSet(ByMonth(o, a), (mid + 1)..to)
  BY <1>3, <1>5, Zenon
<1>7. /\ OfMonths(o, a, from, to) = SumFunctionOnSet(ByMonth(o, a), from..to)
      /\ OfMonths(o, a, from, mid) = SumFunctionOnSet(ByMonth(o, a), from..mid)
      /\ OfMonths(o, a, mid + 1, to) = SumFunctionOnSet(ByMonth(o, a), (mid + 1)..to)
  BY <1>1, OfMonthsIs
<1> QED
  BY <1>6, <1>7, Zenon

LEMMA MonthsOutside ==
  ASSUME NEW o, Ends(o), NEW a \in Nat, NEW from \in Int, NEW to \in Int,
         to < o.start.month \/ o.end.month < from
  PROVE  OfMonths(o, a, from, to) = 0
<1>1. IsFiniteSet(from..to)
  BY FS_Interval
<1>2. \A n \in from..to : ByMonth(o, a)[n] = 0
  <2> TAKE n \in from..to
  <2>1. n \in Int /\ n \notin o.start.month..o.end.month
    BY EndsIs
  <2> QED
    BY <2>1, OfMonthIs DEF ByMonth
<1>3. SumFunctionOnSet(ByMonth(o, a), from..to) = 0
  BY <1>1, <1>2, SumZero
<1>4. OfMonths(o, a, from, to) = SumFunctionOnSet(ByMonth(o, a), from..to)
  BY OfMonthsIs
<1> QED
  BY <1>3, <1>4

\* What periods of whole months, until the end of one, earn of an obligation.
EarnedBy(o, a, month) ==
  IF o.end = Perpetual THEN 0
  ELSE IF o.overTime THEN OfMonths(o, a, FirstMonth, month)
  ELSE IF o.end.month <= month THEN a ELSE 0

LEMMA RecognizeIsNat ==
  ASSUME NEW o, IsObligation(o), NEW a \in Nat, NEW from, IsDate(from), NEW to, IsDate(to)
  PROVE  Recognize(o, a, from, to) \in Nat
<1>1. CASE o.overTime
  <2>1. Touches(o, from, to) => Ends(o)
    BY DEF Touches, Ends
  <2>2. from.month \in Int /\ to.month \in Int
    BY DateIs
  <2>3. Touches(o, from, to) => OfMonths(o, a, from.month, to.month) \in Nat
    BY <2>1, <2>2, OfMonthsIs
  <2> QED
    BY <1>1, <2>3 DEF Recognize
<1>2. CASE ~o.overTime
  BY <1>2 DEF Recognize
<1> QED
  BY <1>1, <1>2

\* Months grouped into one more period.
LEMMA RecognizeIs ==
  ASSUME NEW o, IsObligation(o), NEW a \in Nat, NEW m \in Int, NEW t \in Int, FirstMonth - 1 <= m, m < t
  PROVE  EarnedBy(o, a, t) = EarnedBy(o, a, m) + Recognize(o, a, MonthStart(m + 1), MonthEnd(t))
<1> DEFINE from == MonthStart(m + 1)
           to == MonthEnd(t)
<1>1. /\ m + 1 \in Int /\ FirstMonth \in Int
      /\ from.month = m + 1 /\ Ordinal(from) = DaysBefore(m + 1) + 1
      /\ to.month = t /\ Ordinal(to) = DaysBefore(t) + Length(t)
  <2>1. m + 1 \in Int /\ FirstMonth \in Int
    BY RevenueAssumption
  <2> QED
    BY <2>1, MonthBounds
<1> HIDE DEF from, to
<1>2. CASE o.end = Perpetual
  <2>1. Recognize(o, a, from, to) = 0
    BY <1>2 DEF Recognize, Touches, EndsWithin
  <2> QED
    BY <1>2, <2>1 DEF EarnedBy, from, to
<1>3. CASE o.end # Perpetual /\ o.overTime
  <2>1. Ends(o)
    BY <1>3 DEF Ends
  <2>2. /\ IsDate(o.start) /\ IsDate(o.end)
        /\ o.start.month \in Int /\ o.end.month \in Int /\ o.start.month <= o.end.month
    BY <2>1, EndsIs
  <2>3. /\ Ordinal(o.start) <= Ordinal(to) <=> o.start.month <= t
        /\ Ordinal(from) <= Ordinal(o.end) <=> m + 1 <= o.end.month
    BY <1>1, <2>2, MonthOfDay
  <2>4. ~Touches(o, from, to) => t < o.start.month \/ o.end.month < m + 1
    BY <1>1, <1>3, <2>2, <2>3 DEF Touches
  <2>5. ~Touches(o, from, to) => OfMonths(o, a, m + 1, t) = 0
    BY <1>1, <2>1, <2>4, MonthsOutside
  <2>6. Recognize(o, a, from, to) = OfMonths(o, a, m + 1, t)
    BY <1>1, <1>3, <2>5 DEF Recognize
  <2>7. FirstMonth <= m + 1 /\ m <= t
    BY <1>1
  <2>8. OfMonths(o, a, FirstMonth, t) = OfMonths(o, a, FirstMonth, m) + OfMonths(o, a, m + 1, t)
    BY <1>1, <2>1, <2>7, MonthsSplit
  <2> QED
    BY <1>3, <2>6, <2>8 DEF EarnedBy, from, to
<1>4. CASE o.end # Perpetual /\ ~o.overTime
  <2>1. Ends(o)
    BY <1>4 DEF Ends
  <2>2. IsDate(o.end) /\ o.end.month \in Int
    BY <2>1, EndsIs
  <2>3. /\ Ordinal(o.end) <= Ordinal(to) <=> o.end.month <= t
        /\ Ordinal(from) <= Ordinal(o.end) <=> m + 1 <= o.end.month
    BY <1>1, <2>2, MonthOfDay
  <2>4. Recognize(o, a, from, to) = IF m + 1 <= o.end.month /\ o.end.month <= t THEN a ELSE 0
    BY <1>4, <2>3 DEF Recognize, EndsWithin
  <2>5. EarnedBy(o, a, t) = (IF o.end.month <= t THEN a ELSE 0) /\ EarnedBy(o, a, m) = (IF o.end.month <= m THEN a ELSE 0)
    BY <1>4 DEF EarnedBy
  <2> HIDE DEF from
  <2>6. (IF o.end.month <= t THEN a ELSE 0)
          = (IF o.end.month <= m THEN a ELSE 0) + (IF m + 1 <= o.end.month /\ o.end.month <= t THEN a ELSE 0)
    BY <2>2
  <2> QED
    BY <2>4, <2>5, <2>6 DEF from, to
<1> QED
  BY <1>2, <1>3, <1>4

\* Nothing is earned before the month an obligation starts in.
LEMMA EarnedIs ==
  ASSUME NEW o, IsObligation(o), NEW a \in Nat, NEW m \in Int
  PROVE  /\ EarnedBy(o, a, m) \in Nat
         /\ m < o.start.month => EarnedBy(o, a, m) = 0
         /\ Ends(o) /\ o.overTime /\ o.start.month <= m => EarnedBy(o, a, m) = OfMonths(o, a, o.start.month, m)
<1>1. FirstMonth \in Int
  BY RevenueAssumption
<1>2. CASE o.end = Perpetual
  BY <1>2 DEF EarnedBy, Ends
<1>3. CASE o.end # Perpetual
  <2>1. Ends(o)
    BY <1>3 DEF Ends
  <2>2. /\ o.start.month \in Int /\ o.end.month \in Int /\ o.start.month <= o.end.month
        /\ FirstMonth <= o.start.month
    BY <2>1, EndsIs
  <2>3. OfMonths(o, a, FirstMonth, m) \in Nat
    BY <1>1, <2>1, OfMonthsIs
  <2>4. m < o.start.month => OfMonths(o, a, FirstMonth, m) = 0
    BY <1>1, <2>1, MonthsOutside
  <2>5. ASSUME o.start.month <= m
        PROVE  OfMonths(o, a, FirstMonth, m) = OfMonths(o, a, o.start.month, m)
    <3> DEFINE before == o.start.month - 1
    <3>1. before \in Int /\ before + 1 = o.start.month /\ FirstMonth <= before + 1 /\ before <= m /\ before < o.start.month
      BY <2>2, <2>5
    <3> HIDE DEF before
    <3>2. OfMonths(o, a, FirstMonth, m) = OfMonths(o, a, FirstMonth, before) + OfMonths(o, a, before + 1, m)
      BY <1>1, <2>1, <3>1, MonthsSplit
    <3>3. OfMonths(o, a, FirstMonth, before) = 0
      BY <1>1, <2>1, <3>1, MonthsOutside
    <3>4. OfMonths(o, a, before + 1, m) \in Nat
      BY <2>1, <2>2, <3>1, OfMonthsIs
    <3> QED
      BY <3>1, <3>2, <3>3, <3>4
  <2> QED
    BY <1>3, <2>2, <2>3, <2>4, <2>5 DEF EarnedBy
<1> QED
  BY <1>2, <1>3

(***************************************************************************)
(* What is deferred                                                        *)
(***************************************************************************)

\* A period of whole months ends with a month, and by then each obligation has earned what
\* its months until then count, however they were grouped.
RevenueInv ==
  /\ contract \in Contract
  /\ IsDate(closed) /\ closed.month \in FirstMonth - 1..LastMonth
  /\ recognized \in [DOMAIN contract.obligations -> Nat]
  /\ balance \in Int /\ whole \in BOOLEAN
  /\ whole => closed = MonthEnd(closed.month)
  /\ whole => \A k \in DOMAIN recognized :
                recognized[k] = EarnedBy(Obligation(k), Allocated(contract, k), closed.month)

LEMMA RevenueBegins ==
  ASSUME Init
  PROVE  RevenueInv
<1>1. contract \in Contract /\ RevenueInit
  BY RevenueAssumption DEF Init, Choice
<1>2. FirstMonth \in Int /\ LastMonth \in Int /\ FirstMonth - 1 \in Int /\ FirstMonth <= LastMonth
  BY RevenueAssumption
<1>3. IsDate(closed) /\ closed.month = FirstMonth - 1 /\ closed = MonthEnd(closed.month)
  BY <1>1, <1>2, MonthBounds DEF RevenueInit
<1>4. recognized \in [DOMAIN contract.obligations -> Nat] /\ \A k \in DOMAIN recognized : recognized[k] = 0
  BY <1>1 DEF RevenueInit
<1>5. ASSUME NEW k \in DOMAIN recognized
      PROVE  recognized[k] = EarnedBy(Obligation(k), Allocated(contract, k), closed.month)
  <2>1. IsContract(contract) /\ k \in DOMAIN contract.obligations
    BY <1>1, <1>4, RevenueAssumption
  <2>2. IsObligation(Obligation(k)) /\ Allocated(contract, k) \in Nat
    BY <2>1, AllocatedIs DEF IsContract, Obligation
  <2>3. IsDate(Obligation(k).start) /\ FirstMonth <= Obligation(k).start.month
    BY <2>2 DEF IsObligation
  <2>4. closed.month \in Int /\ closed.month < Obligation(k).start.month
    BY <1>2, <1>3, <2>3, DateIs
  <2> QED
    BY <1>4, <2>2, <2>4, EarnedIs
<1>6. balance \in Int /\ whole \in BOOLEAN
  BY <1>1 DEF RevenueInit
<1> QED
  BY <1>1, <1>2, <1>3, <1>4, <1>5, <1>6 DEF RevenueInv

\* What the schedule adds and takes in a month.
MonthChanges(c, n) == [k \in DOMAIN c.obligations |-> Addition(c, k, n) - Scheduled(c, k, n)]

Changes(c) == [n \in Int |-> Total(MonthChanges(c, n))]

LEMMA ScheduledIs ==
  ASSUME NEW c, IsContract(c), NEW k \in DOMAIN c.obligations, NEW n \in Int
  PROVE  Scheduled(c, k, n) \in Int /\ Addition(c, k, n) \in Int
<1> DEFINE o == c.obligations[k]
           alone == AllocatedPrice(c.price, o.price, o.price)
<1>1. IsObligation(o) /\ Allocated(c, k) \in Nat /\ c.price \in Nat
  BY AllocatedIs DEF IsContract
<1>2. alone \in Nat
  BY <1>1, AllocatedPriceIs DEF IsObligation
<1> HIDE DEF alone
<1>3. Addition(c, k, n) \in Int
  BY <1>1 DEF Addition
<1>4. ASSUME o.end # Perpetual
      PROVE  /\ Monthly(o, alone) \in Int /\ OfMonth(o, alone, n) \in Int
             /\ Monthly(o, Allocated(c, k)) \in Int
  BY <1>1, <1>2, <1>4, MonthlyIs, OfMonthIs DEF Ends
<1>5. o.end # Perpetual => Amortized(o, c.price, n) \in Int
  BY <1>4 DEF Amortized, alone
<1>6. Scheduled(c, k, n) \in Int
  BY <1>1, <1>4, <1>5 DEF Scheduled
<1> QED
  BY <1>3, <1>6

LEMMA ChangesAre ==
  ASSUME NEW c, IsContract(c), NEW n \in Int
  PROVE  /\ Changes(c)[n] = SumFunctionOnSet(MonthChanges(c, n), DOMAIN c.obligations)
         /\ Changes(c)[n] \in Int
<1>1. DOMAIN MonthChanges(c, n) = DOMAIN c.obligations
  BY DEF MonthChanges
<1>2. \A k \in DOMAIN c.obligations : MonthChanges(c, n)[k] \in Int
  BY ScheduledIs DEF MonthChanges
<1>3. Changes(c)[n] = SumFunctionOnSet(MonthChanges(c, n), DOMAIN c.obligations)
  BY <1>1 DEF Changes, Total, SumFunction
<1>4. IsFiniteSet(DOMAIN c.obligations)
  BY StandaloneIs
<1> QED
  BY <1>2, <1>3, <1>4, SumType

LEMMA EndingIs ==
  ASSUME NEW c, IsContract(c), NEW beginning \in Int, NEW from \in Int, NEW to \in Int
  PROVE  /\ Ending(c, beginning, from, to) = beginning + SumFunctionOnSet(Changes(c), from..to)
         /\ Ending(c, beginning, from, to) \in Int
<1> DEFINE f == [n \in from..to |-> Total(MonthChanges(c, n))]
<1>1. IsFiniteSet(from..to)
  BY FS_Interval
<1>2. \A n \in from..to : f[n] \in Int /\ f[n] = Changes(c)[n]
  <2> TAKE n \in from..to
  <2>1. n \in Int
    OBVIOUS
  <2>2. f[n] = Changes(c)[n]
    BY <2>1 DEF Changes
  <2> QED
    BY <2>1, <2>2, ChangesAre
<1>3. Ending(c, beginning, from, to) = beginning + SumFunctionOnSet(f, from..to)
  <2>1. DOMAIN f = from..to
    OBVIOUS
  <2> QED
    BY <2>1, Zenon DEF Ending, SumFunction, MonthChanges
<1> HIDE DEF f
<1>4. SumFunctionOnSet(f, from..to) = SumFunctionOnSet(Changes(c), from..to)
  BY <1>1, <1>2, SumEqual
<1>5. SumFunctionOnSet(f, from..to) \in Int
  BY <1>1, <1>2, SumType
<1> QED
  BY <1>3, <1>4, <1>5

\* The day a period ends on, and the months it touches.
LEMMA PeriodClosed ==
  ASSUME RevenueInv, NEW day, IsDate(day), day.month \in FirstMonth..LastMonth, ClosePeriod(day)
  PROVE  /\ RevenueInv'
         /\ closed.month <= day.month
         /\ whole' => whole /\ closed.month < day.month
<1> DEFINE from == DayAfter(closed)
           m == closed.month
           t == day.month
<1>1. /\ contract \in Contract /\ IsContract(contract) /\ IsDate(closed) /\ m \in FirstMonth - 1..LastMonth
      /\ recognized \in [DOMAIN contract.obligations -> Nat] /\ balance \in Int /\ whole \in BOOLEAN
  BY RevenueAssumption DEF RevenueInv
<1>2. /\ m \in Int /\ t \in Int /\ m + 1 \in Int /\ FirstMonth \in Int /\ LastMonth \in Int
      /\ closed.day \in 1..Length(m) /\ Length(m) \in 28..31 /\ closed.day \in Int
  <2>1. m \in Int /\ t \in Int /\ FirstMonth \in Int /\ LastMonth \in Int
    BY <1>1, RevenueAssumption, DateIs
  <2> QED
    BY <1>1, <2>1, DateIs
<1>3. IsDate(from) /\ from.month >= m /\ (closed = MonthEnd(m) => from = MonthStart(m + 1))
  <2>1. CASE closed.day < Length(m)
    <3>1. from = [month |-> m, day |-> closed.day + 1]
      BY <2>1 DEF DayAfter, Date
    <3>2. IsDate(from)
      BY <1>2, <2>1, <3>1 DEF IsDate
    <3>3. MonthEnd(m).day = Length(m)
      BY DEF MonthEnd, Date
    <3> QED
      BY <1>2, <2>1, <3>1, <3>2, <3>3
  <2>2. CASE ~(closed.day < Length(m))
    <3>1. from = MonthStart(m + 1)
      BY <2>2 DEF DayAfter
    <3> QED
      BY <1>2, <3>1, MonthBounds
  <2> QED
    BY <2>1, <2>2
<1> HIDE DEF from
<1>4. from.month <= t
  <2>1. from.month \in Int /\ Ordinal(from) \in Int /\ Ordinal(day) \in Int
    BY <1>3, DateIs
  <2>2. Ordinal(day) <= DaysBefore(t) + Length(t) /\ DaysBefore(t) \in Int /\ Length(t) \in 28..31
    BY <1>2, MonthOfDay, MonthsFollow, LengthIs
  <2>3. Ordinal(from) < Ordinal(day)
    BY DEF ClosePeriod, from
  <2>4. Ordinal(from) <= DaysBefore(t) + Length(t)
    BY <2>1, <2>2, <2>3
  <2> QED
    BY <1>2, <1>3, <2>4, MonthOfDay
<1>5. /\ closed' = day
      /\ recognized' = [k \in DOMAIN recognized |->
                          recognized[k] + Recognize(contract.obligations[k], Allocated(contract, k), from, day)]
      /\ balance' = Ending(contract, balance, m + 1, t)
      /\ whole' = (whole /\ day = MonthEnd(t))
      /\ contract' = contract
  BY DEF ClosePeriod, from
<1>6. \A k \in DOMAIN contract.obligations : IsObligation(contract.obligations[k]) /\ Allocated(contract, k) \in Nat
  BY <1>1, AllocatedIs DEF IsContract
<1>7. recognized' \in [DOMAIN contract.obligations -> Nat]
  <2>1. \A k \in DOMAIN contract.obligations :
          Recognize(contract.obligations[k], Allocated(contract, k), from, day) \in Nat
    BY <1>3, <1>6, RecognizeIsNat
  <2> QED
    BY <1>1, <1>5, <2>1
<1>8. balance' \in Int
  BY <1>1, <1>2, <1>5, EndingIs
<1>9. whole' \in BOOLEAN
  BY <1>5
<1>10. ASSUME whole'
       PROVE  /\ whole /\ m < t
              /\ \A k \in DOMAIN recognized' :
                   recognized'[k] = EarnedBy(contract.obligations[k], Allocated(contract, k), t)
  <2>1. whole /\ day = MonthEnd(t) /\ from = MonthStart(m + 1)
    BY <1>3, <1>5, <1>10 DEF RevenueInv
  <2>2. m < t
    <3>1. from.month = m + 1
      BY <1>2, <2>1, MonthBounds
    <3> QED
      BY <1>2, <1>4, <3>1
  <2>3. ASSUME NEW k \in DOMAIN recognized'
        PROVE  recognized'[k] = EarnedBy(contract.obligations[k], Allocated(contract, k), t)
    <3> DEFINE o == contract.obligations[k]
               a == Allocated(contract, k)
    <3>1. k \in DOMAIN contract.obligations /\ k \in DOMAIN recognized
      BY <1>1, <1>7
    <3>2. IsObligation(o) /\ a \in Nat
      BY <1>6, <3>1
    <3>3. recognized[k] = EarnedBy(o, a, m)
      BY <2>1, <3>1 DEF RevenueInv, Obligation
    <3>4. recognized'[k] = recognized[k] + Recognize(o, a, from, day)
      BY <1>5, <3>1
    <3> HIDE DEF o, a
    <3>5. FirstMonth - 1 <= m
      BY <1>1, <1>2
    <3>6. EarnedBy(o, a, t) = EarnedBy(o, a, m) + Recognize(o, a, MonthStart(m + 1), MonthEnd(t))
      BY <1>2, <2>2, <3>2, <3>5, RecognizeIs
    <3> QED
      BY <2>1, <3>3, <3>4, <3>6 DEF o, a
  <2> QED
    BY <2>1, <2>2, <2>3
<1>11. whole' => \A k \in DOMAIN recognized' : recognized'[k] = EarnedBy(Obligation(k)', Allocated(contract, k)', closed'.month)
  <2>1. \A k : Obligation(k)' = contract.obligations[k]
    BY <1>5 DEF Obligation
  <2>2. \A k : Allocated(contract, k)' = Allocated(contract, k)
    BY <1>5
  <2> QED
    BY <1>5, <1>10, <2>1, <2>2
<1>12. RevenueInv'
  <2>1. t \in FirstMonth - 1..LastMonth
    BY <1>2
  <2>2. whole' => day = MonthEnd(t)
    BY <1>5
  <2> QED
    BY <1>1, <1>5, <1>7, <1>8, <1>9, <1>11, <2>1, <2>2 DEF RevenueInv
<1>13. m <= t
  <2>1. from.month \in Int
    BY <1>3, DateIs
  <2> QED
    BY <1>2, <1>3, <1>4, <2>1
<1> QED
  BY <1>10, <1>12, <1>13

LEMMA ClosingDay ==
  ASSUME RevenueNext
  PROVE  \E day : IsDate(day) /\ day.month \in FirstMonth..LastMonth /\ ClosePeriod(day)
<1>1. PICK month \in FirstMonth..LastMonth : ClosePeriod(MonthEnd(month)) \/ ClosePeriod(Date(month, MidMonth))
  BY DEF RevenueNext
<1>2. month \in Int
  BY <1>1, RevenueAssumption
<1>3. IsDate(MonthEnd(month)) /\ MonthEnd(month).month = month
  BY <1>2, MonthBounds
<1>4. IsDate(Date(month, MidMonth)) /\ Date(month, MidMonth).month = month
  <2>1. Date(month, MidMonth) = [month |-> month, day |-> MidMonth]
    BY DEF Date
  <2>2. Length(month) \in 28..31 /\ MidMonth \in 1..28
    BY <1>2, LengthIs, RevenueAssumption
  <2> QED
    BY <1>2, <2>1, <2>2 DEF IsDate
<1> QED
  BY <1>1, <1>3, <1>4

\* calculate_deferred and the job agree on each obligation.
LEMMA AlwaysRecognizedOrDeferred ==
  ASSUME RevenueInv
  PROVE  RecognizedOrDeferred
<1> SUFFICES ASSUME whole
             PROVE  Deferred(contract, closed) =
                      Total([k \in DOMAIN recognized |->
                               IF Over(Obligation(k), closed) THEN 0
                               ELSE Max({0, Allocated(contract, k) - recognized[k]})])
  BY DEF RecognizedOrDeferred
<1> DEFINE m == closed.month
<1>1. /\ IsContract(contract) /\ DOMAIN recognized = DOMAIN contract.obligations
      /\ IsDate(closed) /\ closed = MonthEnd(m) /\ m \in Int /\ Ordinal(closed) = DaysBefore(m) + Length(m)
  <2>1. IsContract(contract) /\ IsDate(closed) /\ closed = MonthEnd(m)
    BY RevenueAssumption DEF RevenueInv
  <2>2. m \in Int
    BY <2>1, DateIs
  <2>3. Ordinal(MonthEnd(m)) = DaysBefore(m) + Length(m)
    BY <2>2, MonthBounds
  <2> QED
    BY <2>1, <2>2, <2>3 DEF RevenueInv
<1>2. ASSUME NEW k \in DOMAIN contract.obligations
      PROVE  DeferredOf(contract.obligations[k], Allocated(contract, k), closed)
               = IF Over(Obligation(k), closed) THEN 0 ELSE Max({0, Allocated(contract, k) - recognized[k]})
  <2> DEFINE o == contract.obligations[k]
             a == Allocated(contract, k)
  <2>1. IsObligation(o) /\ a \in Nat /\ o.overTime \in BOOLEAN
    BY <1>1, AllocatedIs DEF IsContract, IsObligation
  <2>2. recognized[k] = EarnedBy(o, a, m) /\ EarnedBy(o, a, m) \in Nat
    <3>1. recognized[k] = EarnedBy(o, a, m)
      BY <1>1 DEF RevenueInv, Obligation
    <3> QED
      BY <1>1, <2>1, <3>1, EarnedIs
  <2>3. Obligation(k) = o
    BY DEF Obligation
  <2> HIDE DEF o, a, m
  <2>4. CASE Over(o, closed)
    BY <2>3, <2>4 DEF DeferredOf, o, a
  <2>5. CASE ~Over(o, closed) /\ (~o.overTime \/ o.end = Perpetual \/ Ordinal(closed) < Ordinal(o.start))
    <3>1. recognized[k] = 0
      <4>1. CASE o.end = Perpetual
        BY <2>2, <4>1 DEF EarnedBy
      <4>2. CASE o.end # Perpetual /\ ~o.overTime
        <5>1. Ends(o)
          BY <2>1, <4>2 DEF Ends
        <5>2. Ordinal(o.end) <= Ordinal(closed) <=> o.end.month <= m
          BY <1>1, <5>1, EndsIs, MonthOfDay
        <5> QED
          BY <2>2, <2>5, <4>2, <5>2 DEF EarnedBy, Over
      <4>3. CASE o.end # Perpetual /\ Ordinal(closed) < Ordinal(o.start)
        <5>1. IsDate(o.start)
          BY <2>1 DEF IsObligation
        <5>2. Ordinal(o.start) <= Ordinal(closed) <=> o.start.month <= m
          BY <1>1, <5>1, MonthOfDay
        <5>3. Ordinal(o.start) \in Int /\ Ordinal(closed) \in Int /\ o.start.month \in Int
          BY <1>1, <5>1, DateIs
        <5>4. m < o.start.month
          BY <1>1, <4>3, <5>2, <5>3
        <5> QED
          BY <1>1, <2>1, <2>2, <5>4, EarnedIs
      <4> QED
        BY <2>5, <4>1, <4>2, <4>3
    <3>2. DeferredOf(o, a, closed) = a
      BY <2>5 DEF DeferredOf
    <3>3. Max({0, a - 0}) = a
      <4>1. a - 0 \in Int /\ 0 \in Int
        BY <2>1
      <4>2. Max({0, a - 0}) = IF 0 >= a - 0 THEN 0 ELSE a - 0
        BY <4>1, GreatestOfTwo
      <4> QED
        BY <2>1, <4>2
    <3> QED
      BY <2>3, <2>5, <3>1, <3>2, <3>3 DEF o, a
  <2>6. CASE ~Over(o, closed) /\ o.overTime /\ o.end # Perpetual /\ ~(Ordinal(closed) < Ordinal(o.start))
    <3>1. Ends(o)
      BY <2>1, <2>6 DEF Ends
    <3>2. Ordinal(o.start) <= Ordinal(closed) <=> o.start.month <= m
      BY <1>1, <3>1, EndsIs, MonthOfDay
    <3>3. Ordinal(o.start) \in Int /\ Ordinal(closed) \in Int
      BY <1>1, <3>1, EndsIs, DateIs
    <3>4. o.start.month <= m
      BY <2>6, <3>2, <3>3
    <3>5. recognized[k] = OfMonths(o, a, o.start.month, m)
      BY <1>1, <2>1, <2>2, <2>6, <3>1, <3>4, EarnedIs
    <3>6. DeferredOf(o, a, closed) = Max({0, DeferredFrom(o, a, closed)})
      BY <2>6 DEF DeferredOf
    <3>7. DeferredFrom(o, a, closed) = a - recognized[k]
      BY <3>5 DEF DeferredFrom, m
    <3> QED
      BY <2>3, <2>6, <3>6, <3>7 DEF o, a
  <2> QED
    BY <2>1, <2>4, <2>5, <2>6 DEF o, a
<1>3. [k \in DOMAIN contract.obligations |-> DeferredOf(contract.obligations[k], Allocated(contract, k), closed)]
        = [k \in DOMAIN recognized |->
             IF Over(Obligation(k), closed) THEN 0 ELSE Max({0, Allocated(contract, k) - recognized[k]})]
  BY <1>1, <1>2
<1> QED
  BY <1>3, Zenon DEF Deferred

(***************************************************************************)
(* The schedule                                                            *)
(***************************************************************************)

\* What is left of the obligations that have begun by a month.
LeftOf(c, k, m) ==
  LET o == c.obligations[k] IN
  IF o.start.month <= m THEN Allocated(c, k) - EarnedBy(o, Allocated(c, k), m) ELSE 0

LeftFrom(c, m) == [k \in DOMAIN c.obligations |-> LeftOf(c, k, m)]

Left(c) == [m \in Int |-> SumFunctionOnSet(LeftFrom(c, m), DOMAIN c.obligations)]

LEMMA LeftIs ==
  ASSUME NEW c, IsContract(c), NEW m \in Int
  PROVE  Left(c)[m] \in Int /\ \A k \in DOMAIN c.obligations : LeftFrom(c, m)[k] \in Int
<1>1. ASSUME NEW k \in DOMAIN c.obligations
      PROVE  LeftFrom(c, m)[k] \in Int
  <2> DEFINE o == c.obligations[k]
             a == Allocated(c, k)
  <2>1. IsObligation(o) /\ a \in Nat
    BY AllocatedIs DEF IsContract
  <2>2. EarnedBy(o, a, m) \in Nat
    BY <2>1, EarnedIs
  <2> QED
    BY <2>1, <2>2 DEF LeftFrom, LeftOf
<1>2. IsFiniteSet(DOMAIN c.obligations)
  BY StandaloneIs
<1>3. SumFunctionOnSet(LeftFrom(c, m), DOMAIN c.obligations) \in Int
  BY <1>1, <1>2, SumType
<1> QED
  BY <1>1, <1>3 DEF Left

\* Where the schedule takes a month's amount, a plain contract takes what the job does.
LEMMA ScheduledLikeJob ==
  ASSUME NEW c, IsContract(c), Plain(c), NEW k \in DOMAIN c.obligations, NEW n \in Int,
         Ends(c.obligations[k]), c.obligations[k].overTime,
         n \in c.obligations[k].start.month..c.obligations[k].end.month
  PROVE  Scheduled(c, k, n) = OfMonth(c.obligations[k], Allocated(c, k), n)
<1> DEFINE o == c.obligations[k]
           a == Allocated(c, k)
           alone == AllocatedPrice(c.price, o.price, o.price)
<1>1. a \in Nat /\ Ends(o) /\ o.end # Perpetual /\ o.overTime
  BY AllocatedIs DEF Ends
<1>2. Scheduled(c, k, n) = IF DaysActive(o, n) = Length(n) THEN Monthly(o, a) ELSE Amortized(o, c.price, n)
  BY <1>1 DEF Scheduled
<1>3. CASE DaysActive(o, n) = Length(n)
  BY <1>1, <1>2, <1>3, OfMonthIs
<1>4. CASE DaysActive(o, n) # Length(n)
  <2>1. ~(~BeginsInside(o) /\ ~EndsInside(o))
    BY <1>1, <1>4, ActiveInside
  <2>2. Len(c.obligations) = 1 /\ (~EndsInside(o) \/ (BeginsInside(o) /\ Months(o) = 1))
    BY <1>1, <2>1 DEF Plain
  <2>3. a = alone
    <3> DEFINE f == [j \in DOMAIN c.obligations |-> c.obligations[j].price]
    <3>1. DOMAIN c.obligations = {k} /\ DOMAIN f = {k}
      BY <2>2 DEF IsContract
    <3>2. f[k] = o.price /\ o.price \in Int
      BY <3>1 DEF IsContract, IsObligation
    <3>3. Standalone(c) = SumFunctionOnSet(f, {k})
      BY <3>1, Zenon DEF Standalone, Total, SumFunction
    <3> HIDE DEF f
    <3>4. Standalone(c) = o.price
      BY <3>2, <3>3, SumSingle
    <3> QED
      BY <3>4 DEF Allocated
  <2>4. ~(n = o.end.month /\ EndsInside(o) /\ ~(n = o.start.month /\ BeginsInside(o)))
    <3>1. o.start.month \in Int /\ o.end.month \in Int
      BY <1>1, EndsIs
    <3>2. Months(o) = 1 => o.start.month = o.end.month
      BY <3>1 DEF Months
    <3> QED
      BY <2>2, <3>2
  <2>5. Amortized(o, c.price, n) = OfMonth(o, alone, n)
    BY <2>4 DEF Amortized
  <2> QED
    BY <1>2, <1>4, <2>3, <2>5
<1> QED
  BY <1>3, <1>4

\* A month's change for an obligation is what it makes of what is left.
LEMMA ChangeIs ==
  ASSUME NEW c, IsContract(c), Plain(c), NEW k \in DOMAIN c.obligations, NEW n \in Int
  PROVE  LeftFrom(c, n)[k] = LeftFrom(c, n - 1)[k] + MonthChanges(c, n)[k]
<1> DEFINE o == c.obligations[k]
           a == Allocated(c, k)
           p == n - 1
<1>1. /\ a \in Nat /\ IsObligation(o) /\ o.overTime \in BOOLEAN
      /\ IsDate(o.start) /\ o.start.month \in Int /\ FirstMonth <= o.start.month /\ FirstMonth \in Int
  <2>1. a \in Nat /\ IsObligation(o)
    BY AllocatedIs DEF IsContract
  <2>2. IsDate(o.start) /\ FirstMonth <= o.start.month /\ o.overTime \in BOOLEAN
    BY <2>1 DEF IsObligation
  <2> QED
    BY <2>1, <2>2, DateIs, RevenueAssumption
<1>2. p \in Int /\ p + 1 = n /\ p < n
  OBVIOUS
<1>3. /\ LeftFrom(c, n)[k] = IF o.start.month <= n THEN a - EarnedBy(o, a, n) ELSE 0
      /\ LeftFrom(c, p)[k] = IF o.start.month <= p THEN a - EarnedBy(o, a, p) ELSE 0
  BY DEF LeftFrom, LeftOf
<1>4. MonthChanges(c, n)[k] = (IF o.start.month = n THEN a ELSE 0) - Scheduled(c, k, n)
  BY DEF MonthChanges, Addition
<1>5. EarnedBy(o, a, n) \in Nat /\ EarnedBy(o, a, p) \in Nat /\ (p < o.start.month => EarnedBy(o, a, p) = 0)
  BY <1>1, <1>2, EarnedIs
<1>6. o.start.month <= n => EarnedBy(o, a, n) = EarnedBy(o, a, p) + Scheduled(c, k, n)
  <2> SUFFICES ASSUME o.start.month <= n
               PROVE  EarnedBy(o, a, n) = EarnedBy(o, a, p) + Scheduled(c, k, n)
    OBVIOUS
  <2>1. CASE o.end = Perpetual
    BY <2>1 DEF Scheduled, EarnedBy
  <2>2. CASE o.end # Perpetual /\ o.overTime
    <3>1. Ends(o)
      BY <1>1, <2>2 DEF Ends
    <3>2. o.end.month \in Int
      BY <3>1, EndsIs
    <3>3. OfMonths(o, a, FirstMonth, n) = OfMonths(o, a, FirstMonth, p) + OfMonths(o, a, n, n)
      <4> HIDE DEF o, a, p
      <4>1. FirstMonth <= p + 1 /\ p <= n
        BY <1>1, <1>2
      <4>2. OfMonths(o, a, FirstMonth, n) = OfMonths(o, a, FirstMonth, p) + OfMonths(o, a, p + 1, n)
        BY <1>1, <1>2, <3>1, <4>1, MonthsSplit
      <4> QED
        BY <1>2, <4>2
    <3>4. OfMonths(o, a, n, n) = OfMonth(o, a, n)
      <4>1. n..n = {n}
        OBVIOUS
      <4>2. OfMonth(o, a, n) \in Nat /\ ByMonth(o, a)[n] = OfMonth(o, a, n)
        BY <1>1, <3>1, OfMonthIs DEF ByMonth
      <4>3. ByMonth(o, a)[n] \in Int
        BY <4>2
      <4>4. SumFunctionOnSet(ByMonth(o, a), {n}) = ByMonth(o, a)[n]
        BY <4>3, SumSingle
      <4>5. OfMonths(o, a, n, n) = SumFunctionOnSet(ByMonth(o, a), n..n)
        <5>1. Ends(o) /\ a \in Nat
          BY <1>1, <3>1
        <5> HIDE DEF o, a, p
        <5>2. /\ OfMonths(o, a, n, n) = SumFunctionOnSet(ByMonth(o, a), n..n)
              /\ OfMonths(o, a, n, n) \in Nat /\ IsFiniteSet(n..n)
          BY <5>1, OfMonthsIs, Zenon
        <5> QED
          BY <5>2
      <4> QED
        BY <4>1, <4>2, <4>4, <4>5
    <3>5. Scheduled(c, k, n) = OfMonth(o, a, n)
      <4>1. CASE n \in o.start.month..o.end.month
        BY <2>2, <3>1, <4>1, ScheduledLikeJob
      <4>2. CASE n \notin o.start.month..o.end.month
        BY <1>1, <3>1, <4>2, OfMonthIs DEF Scheduled
      <4> QED
        BY <4>1, <4>2
    <3>6. EarnedBy(o, a, n) = OfMonths(o, a, FirstMonth, n) /\ EarnedBy(o, a, p) = OfMonths(o, a, FirstMonth, p)
      BY <2>2 DEF EarnedBy
    <3> QED
      BY <3>3, <3>4, <3>5, <3>6
  <2>3. CASE o.end # Perpetual /\ ~o.overTime
    <3>1. Ends(o)
      BY <1>1, <2>3 DEF Ends
    <3>2. o.end.month \in Int /\ o.start.month <= o.end.month
      BY <3>1, EndsIs
    <3>3. Scheduled(c, k, n) = IF n = o.end.month THEN a ELSE 0
      BY <1>1, <2>3, <3>2 DEF Scheduled
    <3>4. EarnedBy(o, a, n) = (IF o.end.month <= n THEN a ELSE 0) /\ EarnedBy(o, a, p) = (IF o.end.month <= p THEN a ELSE 0)
      BY <2>3 DEF EarnedBy
    <3> QED
      BY <1>1, <1>2, <3>2, <3>3, <3>4
  <2> QED
    BY <1>1, <2>1, <2>2, <2>3
<1>7. Scheduled(c, k, n) \in Int
  BY ScheduledIs
<1>8. n < o.start.month => Scheduled(c, k, n) = 0
  BY <1>1 DEF Scheduled
<1> HIDE DEF o, a, p
<1>9. LeftFrom(c, n)[k] = LeftFrom(c, p)[k] + MonthChanges(c, n)[k]
  <2>1. CASE n < o.start.month
    BY <1>1, <1>2, <1>3, <1>4, <1>8, <2>1
  <2>2. CASE n = o.start.month
    BY <1>1, <1>2, <1>3, <1>4, <1>5, <1>6, <1>7, <2>2
  <2>3. CASE o.start.month < n
    BY <1>1, <1>2, <1>3, <1>4, <1>5, <1>6, <1>7, <2>3
  <2> QED
    BY <1>1, <2>1, <2>2, <2>3
<1> QED
  BY <1>9 DEF p

\* In plain contracts, as long as every period was made of whole months, the balance is what
\* is left.
ScheduleInv == whole /\ Plain(contract) => balance = Left(contract)[closed.month]

LEMMA ChangesDiffer ==
  ASSUME NEW c, IsContract(c), Plain(c)
  PROVE  Differences(Changes(c), Left(c))
<1>1. ASSUME NEW n \in Int
      PROVE  Left(c)[n] \in Int /\ Changes(c)[n] = Left(c)[n] - Left(c)[n - 1]
  <2> DEFINE p == n - 1
             D == DOMAIN c.obligations
  <2>1. p \in Int
    OBVIOUS
  <2>2. IsFiniteSet(D)
    BY StandaloneIs
  <2>3. \A k \in D : LeftFrom(c, p)[k] \in Int /\ MonthChanges(c, n)[k] \in Int
    BY <2>1, LeftIs, ScheduledIs DEF MonthChanges
  <2>4. \A k \in D : LeftFrom(c, n)[k] = LeftFrom(c, p)[k] + MonthChanges(c, n)[k]
    BY ChangeIs
  <2> HIDE DEF p, D
  <2>5. SumFunctionOnSet(LeftFrom(c, n), D) = SumFunctionOnSet(LeftFrom(c, p), D) + SumFunctionOnSet(MonthChanges(c, n), D)
    BY <2>2, <2>3, <2>4, SumPlus
  <2>6. Left(c)[n] = SumFunctionOnSet(LeftFrom(c, n), D) /\ Left(c)[p] = SumFunctionOnSet(LeftFrom(c, p), D)
    BY <2>1 DEF Left, D
  <2>7. Changes(c)[n] = SumFunctionOnSet(MonthChanges(c, n), D) /\ Changes(c)[n] \in Int
    BY ChangesAre DEF D
  <2>8. Left(c)[n] \in Int /\ Left(c)[p] \in Int
    BY <2>1, LeftIs
  <2>9. Changes(c)[n] = Left(c)[n] - Left(c)[p]
    BY <2>5, <2>6, <2>7, <2>8
  <2> QED
    BY <2>8, <2>9 DEF p
<1> QED
  BY <1>1 DEF Differences

LEMMA ScheduleBegins ==
  ASSUME Init, RevenueInv
  PROVE  ScheduleInv
<1>1. IsContract(contract) /\ balance = 0 /\ closed = MonthEnd(FirstMonth - 1)
  BY RevenueAssumption DEF Init, RevenueInit, RevenueInv
<1>2. closed.month \in Int /\ closed.month < FirstMonth /\ FirstMonth \in Int
  BY <1>1, RevenueAssumption, MonthBounds
<1>3. \A k \in DOMAIN contract.obligations : LeftFrom(contract, closed.month)[k] = 0
  <2> TAKE k \in DOMAIN contract.obligations
  <2> DEFINE o == contract.obligations[k]
  <2>1. IsDate(o.start) /\ FirstMonth <= o.start.month
    BY <1>1 DEF IsContract, IsObligation
  <2>2. ~(o.start.month <= closed.month)
    BY <1>2, <2>1, DateIs
  <2> QED
    BY <2>2 DEF LeftFrom, LeftOf
<1>4. SumFunctionOnSet(LeftFrom(contract, closed.month), DOMAIN contract.obligations) = 0
  BY <1>1, <1>3, StandaloneIs, SumZero
<1> QED
  BY <1>1, <1>2, <1>4 DEF ScheduleInv, Left

LEMMA ScheduleStep ==
  ASSUME RevenueInv, ScheduleInv, NEW day, IsDate(day), day.month \in FirstMonth..LastMonth, ClosePeriod(day)
  PROVE  ScheduleInv'
<1> DEFINE m == closed.month
           t == day.month
<1>1. /\ IsContract(contract) /\ balance \in Int /\ contract' = contract /\ closed' = day
      /\ balance' = Ending(contract, balance, m + 1, t)
  BY RevenueAssumption DEF RevenueInv, ClosePeriod
<1>2. whole' => whole /\ m < t
  BY PeriodClosed
<1>3. m \in Int /\ t \in Int /\ m + 1 \in Int
  BY DateIs DEF RevenueInv
<1> SUFFICES ASSUME whole', Plain(contract)
             PROVE  balance' = Left(contract)[t]
  BY <1>1 DEF ScheduleInv
<1> HIDE DEF m, t
<1>4. balance = Left(contract)[m] /\ m < t
  BY <1>2 DEF ScheduleInv, m
<1>5. Differences(Changes(contract), Left(contract))
  BY <1>1, ChangesDiffer
<1>6. m + 1 <= t + 1 /\ m + 1 - 1 = m
  BY <1>3, <1>4
<1>7. SumFunctionOnSet(Changes(contract), (m + 1)..t) = Left(contract)[t] - Left(contract)[m + 1 - 1]
  BY <1>3, <1>5, <1>6, SumTelescopes
<1>8. Left(contract)[t] \in Int /\ Left(contract)[m] \in Int
  BY <1>1, <1>3, LeftIs
<1>9. Ending(contract, balance, m + 1, t) = balance + SumFunctionOnSet(Changes(contract), (m + 1)..t)
  BY <1>1, <1>3, EndingIs
<1> QED
  BY <1>1, <1>4, <1>6, <1>7, <1>8, <1>9

\* The balance of the schedule, by what the job has recognised.
LEMMA ScheduleAlwaysAgrees ==
  ASSUME RevenueInv, ScheduleInv
  PROVE  ScheduleAgrees
<1> DEFINE f == [k \in DOMAIN recognized |->
                   IF Obligation(k).start.month <= closed.month THEN Allocated(contract, k) - recognized[k] ELSE 0]
<1> SUFFICES ASSUME whole, Plain(contract)
             PROVE  balance = Total(f)
  BY DEF ScheduleAgrees
<1>1. DOMAIN recognized = DOMAIN contract.obligations /\ IsDate(closed)
  BY DEF RevenueInv
<1>2. closed.month \in Int
  BY <1>1, DateIs
<1>3. \A k \in DOMAIN recognized : recognized[k] = EarnedBy(Obligation(k), Allocated(contract, k), closed.month)
  BY DEF RevenueInv
<1>4. f = LeftFrom(contract, closed.month)
  BY <1>1, <1>3 DEF LeftFrom, LeftOf, Obligation
<1>5. DOMAIN f = DOMAIN contract.obligations
  BY <1>1
<1>6. Total(f) = SumFunctionOnSet(f, DOMAIN contract.obligations)
  BY <1>5, Zenon DEF Total, SumFunction
<1> HIDE DEF f
<1>7. Left(contract)[closed.month] = SumFunctionOnSet(LeftFrom(contract, closed.month), DOMAIN contract.obligations)
  BY <1>2 DEF Left
<1> QED
  BY <1>4, <1>6, <1>7 DEF ScheduleInv

\* Whatever the contract, the months and the way they are grouped into periods:
\* calculate_deferred counts what the job has left, and in plain contracts the schedule
\* carries it.
THEOREM DeferredAlwaysAgrees == Spec => []DeferredAgrees
<1> DEFINE Inv == RevenueInv /\ ScheduleInv
<1>1. Init => Inv
  BY RevenueBegins, ScheduleBegins
<1>2. Inv /\ [Next]_vars => Inv'
  <2> SUFFICES ASSUME Inv, [Next]_vars PROVE Inv'
    OBVIOUS
  <2>1. CASE UNCHANGED revenueVars
    BY <2>1 DEF revenueVars, RevenueInv, ScheduleInv, Obligation
  <2>2. CASE RevenueNext
    <3>1. PICK day : IsDate(day) /\ day.month \in FirstMonth..LastMonth /\ ClosePeriod(day)
      BY <2>2, ClosingDay
    <3> QED
      BY <3>1, PeriodClosed, ScheduleStep
  <2> QED
    BY <2>1, <2>2 DEF Next, vars
<1>3. Inv => DeferredAgrees
  BY AlwaysRecognizedOrDeferred, ScheduleAlwaysAgrees DEF DeferredAgrees
<1> QED
  BY <1>1, <1>2, <1>3, PTL DEF Spec

(***************************************************************************)
(* The price of a contract, divided                                        *)
(***************************************************************************)

\* What shares of a price by standalone prices, each rounded by half a cent at most, are
\* of the price: for n of them, n halves at most from the exact share of all of them.
LEMMA SharesAddUp ==
  ASSUME NEW S, IsFiniteSet(S), NEW price \in Int, NEW total \in Nat, NEW f, NEW prices,
         \A k \in S : /\ f[k] \in Int /\ prices[k] \in Int
                      /\ 2 * (total * f[k]) <= 2 * (price * prices[k]) + total
                      /\ 2 * (price * prices[k]) <= 2 * (total * f[k]) + total
  PROVE  /\ 2 * (total * SumFunctionOnSet(f, S)) <= 2 * (price * SumFunctionOnSet(prices, S)) + total * Cardinality(S)
         /\ 2 * (price * SumFunctionOnSet(prices, S)) <= 2 * (total * SumFunctionOnSet(f, S)) + total * Cardinality(S)
<1> DEFINE sum == SumFunctionOnSet(f, S)
           all == SumFunctionOnSet(prices, S)
           given == [k \in S |-> 2 * (total * f[k])]
           exact == [k \in S |-> 2 * (price * prices[k])]
<1>1. \A k \in S : /\ f[k] \in Int /\ prices[k] \in Int
                   /\ given[k] = (2 * total) * f[k] /\ exact[k] = (2 * price) * prices[k]
                   /\ given[k] \in Int /\ exact[k] \in Int
                   /\ given[k] <= exact[k] + total /\ exact[k] <= given[k] + total
  <2> TAKE k \in S
  <2>1. f[k] \in Int /\ prices[k] \in Int /\ total * f[k] \in Int /\ price * prices[k] \in Int
    OBVIOUS
  <2>2. 2 * (total * f[k]) = (2 * total) * f[k] /\ 2 * (price * prices[k]) = (2 * price) * prices[k]
    BY <2>1
  <2>3. given[k] = 2 * (total * f[k]) /\ exact[k] = 2 * (price * prices[k])
    OBVIOUS
  <2>4. 2 * (total * f[k]) <= 2 * (price * prices[k]) + total /\ 2 * (price * prices[k]) <= 2 * (total * f[k]) + total
    OBVIOUS
  <2> HIDE DEF given, exact
  <2> QED
    BY <2>1, <2>2, <2>3, <2>4
<1> HIDE DEF given, exact
<1>2. SumFunctionOnSet(given, S) = (2 * total) * sum
  BY <1>1, SumScaled
<1>3. SumFunctionOnSet(exact, S) = (2 * price) * all
  BY <1>1, SumScaled
<1>4. SumFunctionOnSet(given, S) <= SumFunctionOnSet(exact, S) + total * Cardinality(S)
  BY <1>1, SumWithin
<1>5. SumFunctionOnSet(exact, S) <= SumFunctionOnSet(given, S) + total * Cardinality(S)
  BY <1>1, SumWithin
<1>6. sum \in Int /\ all \in Int
  BY <1>1, SumType
<1> HIDE DEF sum, all
<1>7. (2 * total) * sum = 2 * (total * sum) /\ (2 * price) * all = 2 * (price * all)
  BY <1>6
<1> QED
  BY <1>2, <1>3, <1>4, <1>5, <1>7 DEF sum, all

\* HalfEven is as near as HalfUp.
LEMMA EvenIs ==
  ASSUME NEW n \in Int, NEW d \in Nat \ {0}
  PROVE  LET q == HalfEven(n, d) IN
         /\ q \in Int
         /\ 2 * (d * q) <= 2 * n + d
         /\ 2 * n <= 2 * (d * q) + d
<1> DEFINE floor == n \div d
           twice == 2 * (n - floor * d)
           q == HalfEven(n, d)
<1>1. floor \in Int /\ d * floor <= n /\ n < d * floor + d
  BY QuotientIs
<1>2. (q = floor /\ twice <= d) \/ (q = floor + 1 /\ twice >= d)
  <2>1. twice \in Int
    BY <1>1
  <2> DEFINE up == twice > d \/ (twice = d /\ floor % 2 = 1)
  <2>2. q = IF up THEN floor + 1 ELSE floor
    BY Zenon DEF HalfEven
  <2>3. up => twice >= d
    BY <2>1
  <2>4. ~up => twice <= d
    BY <2>1
  <2> HIDE DEF up, q, twice, floor
  <2>5. CASE up
    BY <2>2, <2>3, <2>5, Zenon
  <2>6. CASE ~up
    BY <2>2, <2>4, <2>6, Zenon
  <2> QED
    BY <2>5, <2>6, Zenon
<1> HIDE DEF floor, q
<1>3. floor * d = d * floor /\ d * floor \in Int
  BY <1>1
<1>4. d * (floor + 1) = d * floor + d
  BY <1>1
<1> DEFINE p == d * floor
<1>5. p \in Int /\ p <= n /\ n < p + d /\ twice = 2 * (n - p)
  BY <1>1, <1>3
<1> HIDE DEF p
<1>6. CASE q = floor /\ twice <= d
  <2>1. d * q = p
    BY <1>6 DEF p
  <2> QED
    BY <1>1, <1>5, <1>6, <2>1 DEF q
<1>7. CASE q = floor + 1 /\ twice >= d
  <2>1. d * q = p + d
    BY <1>4, <1>7 DEF p
  <2> QED
    BY <1>1, <1>5, <1>7, <2>1 DEF q
<1> QED
  BY <1>2, <1>6, <1>7

\* The sum of what is allocated.
LEMMA AllocatedAddUp ==
  ASSUME NEW c, IsContract(c), Standalone(c) > 0, NEW f,
         \A k \in DOMAIN c.obligations : f[k] = Allocated(c, k)
  PROVE  LET sum == SumFunctionOnSet(f, DOMAIN c.obligations) IN
         /\ sum \in Int
         /\ 2 * sum <= 2 * c.price + Len(c.obligations)
         /\ 2 * c.price <= 2 * sum + Len(c.obligations)
<1> DEFINE D == DOMAIN c.obligations
           prices == [k \in D |-> c.obligations[k].price]
           total == Standalone(c)
           sum == SumFunctionOnSet(f, D)
           n == Len(c.obligations)
<1>1. total \in Nat \ {0} /\ IsFiniteSet(D) /\ c.price \in Nat
  BY StandaloneIs DEF IsContract
<1>2. Cardinality(D) = n /\ n \in Nat
  <2>1. D = 1..n /\ n \in Nat \ {0}
    BY DEF IsContract
  <2> HIDE DEF D, n
  <2>2. Cardinality(1..n) = n
    BY <2>1, FS_Interval
  <2> QED
    BY <2>1, <2>2, Zenon
<1>3. total = SumFunctionOnSet(prices, D)
  <2>1. DOMAIN prices = D
    OBVIOUS
  <2> QED
    BY <2>1, Zenon DEF Standalone, Total, SumFunction
<1>4. \A k \in D : /\ f[k] \in Int /\ prices[k] \in Int
                   /\ 2 * (total * f[k]) <= 2 * (c.price * prices[k]) + total
                   /\ 2 * (c.price * prices[k]) <= 2 * (total * f[k]) + total
  <2> TAKE k \in D
  <2>1. prices[k] \in Nat /\ prices[k] = c.obligations[k].price
    BY DEF IsContract, IsObligation
  <2> HIDE DEF total, prices
  <2>2. c.price * prices[k] \in Nat
    BY <1>1, <2>1
  <2>3. f[k] = HalfUp(c.price * prices[k], total)
    BY <1>1, <2>1 DEF Allocated, AllocatedPrice, total
  <2> DEFINE num == c.price * prices[k]
             share == HalfUp(num, total)
  <2>4. num \in Nat
    BY <2>2
  <2> HIDE DEF num
  <2>5. share \in Nat /\ 2 * (total * share) <= 2 * num + total /\ 2 * num <= 2 * (total * share) + total
    BY <1>1, <2>4, RoundedIs
  <2>6. f[k] = share
    BY <2>3 DEF num
  <2> HIDE DEF share
  <2>7. f[k] \in Int /\ 2 * (total * f[k]) <= 2 * num + total /\ 2 * num <= 2 * (total * f[k]) + total
    BY <2>5, <2>6
  <2> QED
    BY <2>1, <2>7 DEF num
<1> HIDE DEF D, prices, total, n
<1>5. /\ 2 * (total * sum) <= 2 * (c.price * SumFunctionOnSet(prices, D)) + total * Cardinality(D)
      /\ 2 * (c.price * SumFunctionOnSet(prices, D)) <= 2 * (total * sum) + total * Cardinality(D)
  <2>1. total \in Nat /\ c.price \in Int
    BY <1>1
  <2>2. /\ 2 * (total * SumFunctionOnSet(f, D)) <= 2 * (c.price * SumFunctionOnSet(prices, D)) + total * Cardinality(D)
        /\ 2 * (c.price * SumFunctionOnSet(prices, D)) <= 2 * (total * SumFunctionOnSet(f, D)) + total * Cardinality(D)
    BY <1>1, <1>4, <2>1, SharesAddUp, Zenon
  <2> QED
    BY <2>2
<1>6. sum \in Int
  BY <1>1, <1>4, SumType
<1> HIDE DEF sum
<1>7. total * (2 * sum) <= total * (2 * c.price + n) /\ total * (2 * c.price) <= total * (2 * sum + n)
  <2>1. 2 * (total * sum) = total * (2 * sum) /\ 2 * (c.price * total) = total * (2 * c.price)
    BY <1>1, <1>6
  <2>2. total * (2 * c.price + n) = total * (2 * c.price) + total * n
    BY <1>1, <1>2
  <2>3. total * (2 * sum + n) = total * (2 * sum) + total * n
    BY <1>1, <1>2, <1>6
  <2> QED
    BY <1>2, <1>3, <1>5, <2>1, <2>2, <2>3
<1>8. 2 * sum <= 2 * c.price + n /\ 2 * c.price <= 2 * sum + n
  <2>1. 2 * sum \in Int /\ 2 * c.price + n \in Int /\ 2 * c.price \in Int /\ 2 * sum + n \in Int
    BY <1>1, <1>2, <1>6
  <2>2. ~(2 * c.price + n < 2 * sum)
    <3> SUFFICES ASSUME 2 * c.price + n < 2 * sum PROVE FALSE
      OBVIOUS
    <3>1. 2 * c.price + n + 1 <= 2 * sum
      BY <2>1
    <3>2. (2 * c.price + n + 1) * total <= (2 * sum) * total
      BY <1>1, <2>1, <3>1, Times
    <3>3. (2 * c.price + n + 1) * total = total * (2 * c.price + n) + total /\ (2 * sum) * total = total * (2 * sum)
      BY <1>1, <1>2, <1>6
    <3> DEFINE X == total * (2 * c.price + n)
               Y == total * (2 * sum)
    <3>4. X \in Int /\ Y \in Int /\ X + total <= Y /\ Y <= X
      BY <1>1, <1>2, <1>6, <1>7, <3>2, <3>3
    <3> HIDE DEF X, Y
    <3> QED
      BY <1>1, <3>4
  <2>3. ~(2 * sum + n < 2 * c.price)
    <3> SUFFICES ASSUME 2 * sum + n < 2 * c.price PROVE FALSE
      OBVIOUS
    <3>1. 2 * sum + n + 1 <= 2 * c.price
      BY <2>1
    <3>2. (2 * sum + n + 1) * total <= (2 * c.price) * total
      BY <1>1, <2>1, <3>1, Times
    <3>3. (2 * sum + n + 1) * total = total * (2 * sum + n) + total /\ (2 * c.price) * total = total * (2 * c.price)
      BY <1>1, <1>2, <1>6
    <3> DEFINE X == total * (2 * sum + n)
               Y == total * (2 * c.price)
    <3>4. X \in Int /\ Y \in Int /\ X + total <= Y /\ Y <= X
      BY <1>1, <1>2, <1>6, <1>7, <3>2, <3>3
    <3> HIDE DEF X, Y
    <3> QED
      BY <1>1, <3>4
  <2> QED
    BY <2>1, <2>2, <2>3
<1> QED
  BY <1>6, <1>8 DEF sum, D, n

LEMMA MagnitudeIs ==
  ASSUME NEW s \in Int, NEW p \in Int, NEW n \in Int, 2 * s <= 2 * p + n, 2 * p <= 2 * s + n
  PROVE  2 * Magnitude(s - p) <= n
BY DEF Magnitude

LEMMA ObligationsAre ==
  ASSUME NEW c, IsContract(c)
  PROVE  /\ Len(c.obligations) \in Nat \ {0} /\ DOMAIN c.obligations = 1..Len(c.obligations)
         /\ IsFiniteSet(DOMAIN c.obligations) /\ Cardinality(DOMAIN c.obligations) = Len(c.obligations)
         /\ c.price \in Nat
<1> DEFINE n == Len(c.obligations)
<1>1. n \in Nat \ {0} /\ DOMAIN c.obligations = 1..n /\ c.price \in Nat
  BY DEF IsContract
<1> HIDE DEF n
<1>2. IsFiniteSet(1..n) /\ Cardinality(1..n) = n
  BY <1>1, FS_Interval
<1> QED
  BY <1>1, <1>2, Zenon DEF n

LEMMA ProportionalDivides ==
  ASSUME NEW c, IsContract(c)
  PROVE  2 * Magnitude(Total(Proportional(c)) - c.price) <= Len(c.obligations)
<1> DEFINE D == DOMAIN c.obligations
           f == Proportional(c)
           n == Len(c.obligations)
<1>1. n \in Nat \ {0} /\ IsFiniteSet(D) /\ Cardinality(D) = n /\ c.price \in Nat
  BY ObligationsAre
<1>2. Total(f) = SumFunctionOnSet(f, D)
  <2>1. DOMAIN f = D
    BY DEF Proportional
  <2> QED
    BY <2>1, Zenon DEF Total, SumFunction
<1>3. Standalone(c) \in Nat
  BY StandaloneIs
<1>4. CASE Standalone(c) = 0
  <2> DEFINE q == HalfUp(c.price, n)
  <2>1. q \in Nat /\ 2 * (n * q) <= 2 * c.price + n /\ 2 * c.price <= 2 * (n * q) + n
    BY <1>1, RoundedIs
  <2>2. \A k \in D : f[k] = q
    BY <1>4 DEF Proportional
  <2> HIDE DEF q, f, D, n
  <2>3. SumFunctionOnSet(f, D) = q * n
    BY <1>1, <2>1, <2>2, SumConstant
  <2>4. q * n = n * q /\ n * q \in Int
    BY <1>1, <2>1
  <2> DEFINE s == Total(f)
  <2>5. s \in Int /\ 2 * s <= 2 * c.price + n /\ 2 * c.price <= 2 * s + n
    BY <1>2, <2>1, <2>3, <2>4
  <2> DEFINE p == c.price
  <2>6. p \in Int /\ n \in Int /\ 2 * s <= 2 * p + n /\ 2 * p <= 2 * s + n
    BY <1>1, <2>5
  <2> HIDE DEF s, p
  <2>7. 2 * Magnitude(s - p) <= n
    BY <2>5, <2>6, MagnitudeIs
  <2> QED
    BY <2>7 DEF f, n, s, p
<1>5. CASE Standalone(c) # 0
  <2>1. \A k \in D : f[k] = Allocated(c, k)
    BY <1>5 DEF Proportional
  <2>2. Standalone(c) > 0
    BY <1>3, <1>5
  <2> HIDE DEF f
  <2>3. LET sum == SumFunctionOnSet(f, D) IN sum \in Int /\ 2 * sum <= 2 * c.price + n /\ 2 * c.price <= 2 * sum + n
    BY <2>1, <2>2, AllocatedAddUp
  <2> DEFINE s == Total(f)
  <2>4. s \in Int /\ 2 * s <= 2 * c.price + n /\ 2 * c.price <= 2 * s + n
    BY <1>2, <2>3
  <2> DEFINE p == c.price
  <2>5. p \in Int /\ n \in Int /\ 2 * s <= 2 * p + n /\ 2 * p <= 2 * s + n
    BY <1>1, <2>4
  <2> HIDE DEF s, n, p
  <2>6. 2 * Magnitude(s - p) <= n
    BY <2>4, <2>5, MagnitudeIs
  <2> QED
    BY <2>6 DEF f, n, s, p
<1> QED
  BY <1>4, <1>5

LEMMA ResidualIsNat ==
  ASSUME NEW c, IsContract(c), NEW k \in DOMAIN c.obligations
  PROVE  Residual(c)[k] \in Nat
<1> DEFINE unpriced == {j \in DOMAIN c.obligations : c.obligations[j].price = 0}
           left == c.price - Standalone(c)
           q == HalfUp(left, Cardinality(unpriced))
<1>1. Residual(c)[k] = IF left < 0 THEN Allocated(c, k) ELSE IF k \in unpriced THEN q ELSE c.obligations[k].price
  BY DEF Residual
<1>2. Allocated(c, k) \in Nat /\ c.obligations[k].price \in Nat /\ left \in Int
  BY AllocatedIs, ObligationsAre, StandaloneIs DEF IsContract, IsObligation
<1>3. IsFiniteSet(unpriced)
  BY ObligationsAre, FS_Subset
<1>4. k \in unpriced => Cardinality(unpriced) \in Nat \ {0}
  BY <1>3, FS_CardinalityType, FS_EmptySet
<1> HIDE DEF unpriced, left
<1>5. ASSUME k \in unpriced, ~(left < 0)
      PROVE  q \in Nat
  <2>1. left \in Nat /\ Cardinality(unpriced) \in Nat \ {0}
    BY <1>2, <1>4, <1>5
  <2> QED
    BY <2>1, RoundedIs
<1> QED
  BY <1>1, <1>2, <1>5

LEMMA ResidualDivides ==
  ASSUME NEW c, IsContract(c),
         (\E k \in 1..Len(c.obligations) : c.obligations[k].price = 0) \/ Standalone(c) > c.price
  PROVE  2 * Magnitude(Total(Residual(c)) - c.price) <= Len(c.obligations)
<1> DEFINE D == DOMAIN c.obligations
           f == Residual(c)
           n == Len(c.obligations)
           unpriced == {k \in D : c.obligations[k].price = 0}
           left == c.price - Standalone(c)
<1>1. n \in Nat \ {0} /\ IsFiniteSet(D) /\ Cardinality(D) = n /\ c.price \in Nat /\ D = 1..n
  BY ObligationsAre
<1>2. Total(f) = SumFunctionOnSet(f, D)
  <2>1. DOMAIN f = D
    BY DEF Residual
  <2> QED
    BY <2>1, Zenon DEF Total, SumFunction
<1>3. Standalone(c) \in Nat
  BY StandaloneIs
<1>4. CASE left < 0
  <2>1. \A k \in D : f[k] = Allocated(c, k)
    BY <1>4 DEF Residual
  <2>2. Standalone(c) > 0
    BY <1>1, <1>3, <1>4
  <2> HIDE DEF f
  <2>3. LET sum == SumFunctionOnSet(f, D) IN sum \in Int /\ 2 * sum <= 2 * c.price + n /\ 2 * c.price <= 2 * sum + n
    BY <2>1, <2>2, AllocatedAddUp
  <2> DEFINE s == Total(f)
  <2>4. s \in Int /\ 2 * s <= 2 * c.price + n /\ 2 * c.price <= 2 * s + n
    BY <1>2, <2>3
  <2> DEFINE p == c.price
  <2>5. p \in Int /\ n \in Int /\ 2 * s <= 2 * p + n /\ 2 * p <= 2 * s + n
    BY <1>1, <2>4
  <2> HIDE DEF s, n, p
  <2>6. 2 * Magnitude(s - p) <= n
    BY <2>4, <2>5, MagnitudeIs
  <2> QED
    BY <2>6 DEF f, n, s, p
<1>5. CASE ~(left < 0)
  <2> DEFINE u == Cardinality(unpriced)
             q == HalfUp(left, u)
             prices == [k \in D |-> c.obligations[k].price]
             extra == [k \in D |-> IF k \in unpriced THEN q ELSE 0]
  <2>1. unpriced # {} /\ IsFiniteSet(unpriced) /\ u \in Nat \ {0} /\ u <= n
    <3>1. unpriced # {}
      BY <1>1, <1>3, <1>5
    <3>2. IsFiniteSet(unpriced) /\ u <= n
      BY <1>1, FS_Subset
    <3> QED
      BY <3>1, <3>2, FS_CardinalityType, FS_EmptySet
  <2>2. left \in Nat
    BY <1>1, <1>3, <1>5
  <2> HIDE DEF u
  <2>3. q \in Nat /\ 2 * (u * q) <= 2 * left + u /\ 2 * left <= 2 * (u * q) + u
    <3> HIDE DEF left
    <3> QED
      BY <2>1, <2>2, RoundedIs
  <2>4. \A k \in D : f[k] = IF k \in unpriced THEN q ELSE c.obligations[k].price
    BY <1>5 DEF Residual, u
  <2> HIDE DEF q
  <2>5. \A k \in D : /\ prices[k] \in Int /\ extra[k] \in Int
                     /\ f[k] = prices[k] + extra[k]
    <3> TAKE k \in D
    <3>1. c.obligations[k].price \in Nat
      BY DEF IsContract, IsObligation
    <3>2. k \in unpriced => c.obligations[k].price = 0
      OBVIOUS
    <3>3. f[k] = IF k \in unpriced THEN q ELSE c.obligations[k].price
      BY <2>4
    <3>4. prices[k] = c.obligations[k].price /\ extra[k] = IF k \in unpriced THEN q ELSE 0
      OBVIOUS
    <3> HIDE DEF f, prices, extra, unpriced
    <3> QED
      BY <2>3, <3>1, <3>2, <3>3, <3>4
  <2>6. Standalone(c) = SumFunctionOnSet(prices, D)
    <3>1. DOMAIN prices = D
      OBVIOUS
    <3> QED
      BY <3>1, Zenon DEF Standalone, Total, SumFunction
  <2>7. unpriced \in SUBSET D /\ (\A k \in unpriced : extra[k] = q) /\ (\A k \in D \ unpriced : extra[k] = 0)
    OBVIOUS
  <2> HIDE DEF unpriced, extra, prices, f, D
  <2>8. SumFunctionOnSet(f, D) = SumFunctionOnSet(prices, D) + SumFunctionOnSet(extra, D)
    BY <1>1, <2>5, SumPlus
  <2>9. SumFunctionOnSet(extra, D) = q * u
    <3>1. q \in Int
      BY <2>3
    <3>2. IsFiniteSet(D)
      BY <1>1
    <3>3. SumFunctionOnSet(extra, D) = q * Cardinality(unpriced)
      BY <2>7, <3>1, <3>2, SumIndicator
    <3> QED
      BY <3>3 DEF u
  <2>10. Total(f) = Standalone(c) + u * q /\ u * q \in Int
    BY <1>2, <2>1, <2>3, <2>6, <2>8, <2>9
  <2>11. 2 * Total(f) <= 2 * c.price + n /\ 2 * c.price <= 2 * Total(f) + n
    <3> DEFINE p == u * q
    <3>1. p \in Int /\ 2 * p <= 2 * left + u /\ 2 * left <= 2 * p + u /\ Total(f) = Standalone(c) + p
      BY <2>3, <2>10
    <3> DEFINE sum == Standalone(c)
               price == c.price
               got == Total(f)
    <3>2. left = price - sum /\ sum \in Int /\ price \in Int /\ n \in Int /\ u \in Int /\ u <= n
      BY <1>1, <1>3, <2>1
    <3>3. got = sum + p
      BY <3>1
    <3>4. p \in Int /\ 2 * p <= 2 * left + u /\ 2 * left <= 2 * p + u
      BY <3>1
    <3> HIDE DEF p, sum, price, got, left, n
    <3>5. 2 * got <= 2 * price + n /\ 2 * price <= 2 * got + n
      BY <3>2, <3>3, <3>4
    <3> QED
      BY <3>5 DEF got, price
  <2>12. Total(f) \in Int /\ c.price \in Int /\ n \in Int
    BY <1>1, <1>3, <2>10
  <2>13. 2 * Magnitude(Total(f) - c.price) <= n
    <3> DEFINE got == Total(f)
               price == c.price
    <3>1. got \in Int /\ price \in Int /\ n \in Int /\ 2 * got <= 2 * price + n /\ 2 * price <= 2 * got + n
      BY <2>11, <2>12
    <3> HIDE DEF got, price, n
    <3>2. 2 * Magnitude(got - price) <= n
      BY <3>1, MagnitudeIs
    <3> QED
      BY <3>2 DEF got, price
  <2> QED
    BY <2>13 DEF f
<1> QED
  BY <1>4, <1>5

\* Money.allocate: the last share makes up for the others.
LEMMA SharesDivide ==
  ASSUME NEW n \in Nat \ {0}, NEW price \in Nat, NEW ratios, DOMAIN ratios = 1..n, Len(ratios) = n,
         \A k \in 1..n : ratios[k] \in Nat,
         NEW total \in Nat \ {0}, total = Total(ratios)
  PROVE  /\ Total(Shares(price, ratios)) = price
         /\ 2 * Magnitude(Shares(price, ratios)[n] * total - price * ratios[n]) <= (n - 1) * total
<1> DEFINE share == [k \in 1..(n - 1) |-> HalfEven(price * ratios[k], total)]
           rest == SumFunctionOnSet(share, 1..(n - 1))
           before == SumFunctionOnSet(ratios, 1..(n - 1))
           shares == Shares(price, ratios)
<1>1. n - 1 \in Nat /\ IsFiniteSet(1..(n - 1)) /\ Cardinality(1..(n - 1)) = n - 1
  <2> DEFINE last == n - 1
  <2>1. last \in Nat
    OBVIOUS
  <2> HIDE DEF last
  <2>2. IsFiniteSet(1..last) /\ Cardinality(1..last) = last
    <3>1. 1 \in Int /\ last \in Int
      BY <2>1
    <3> DEFINE size == Cardinality(1..last)
    <3>2. IsFiniteSet(1..last) /\ size = IF 1 > last THEN 0 ELSE last - 1 + 1
      BY <3>1, FS_Interval, Zenon
    <3> HIDE DEF size
    <3>3. size = last
      BY <2>1, <3>2
    <3> QED
      BY <3>2, <3>3 DEF size
  <2> QED
    BY <2>1, <2>2, Zenon DEF last
<1>2. 1..n = (1..(n - 1)) \cup {n} /\ n \notin 1..(n - 1) /\ n \in 1..n
  <2>1. \A k \in Int : k \in 1..n <=> k \in 1..(n - 1) \/ k = n
    OBVIOUS
  <2> QED
    BY <2>1
<1>3. Total(share) = rest
  <2>1. DOMAIN share = 1..(n - 1)
    OBVIOUS
  <2> QED
    BY <2>1, Zenon DEF Total, SumFunction
<1>4. shares = [k \in 1..n |-> IF k < n THEN HalfEven(price * ratios[k], total) ELSE price - rest]
  BY <1>3, Zenon DEF Shares
<1>5. \A k \in 1..(n - 1) : /\ share[k] \in Int /\ ratios[k] \in Int
                            /\ 2 * (total * share[k]) <= 2 * (price * ratios[k]) + total
                            /\ 2 * (price * ratios[k]) <= 2 * (total * share[k]) + total
  <2> TAKE k \in 1..(n - 1)
  <2> DEFINE num == price * ratios[k]
             q == HalfEven(num, total)
  <2>1. ratios[k] \in Nat
    BY <1>2
  <2>2. num \in Int
    BY <2>1
  <2> HIDE DEF num
  <2>3. q \in Int /\ 2 * (total * q) <= 2 * num + total /\ 2 * num <= 2 * (total * q) + total
    BY <2>2, EvenIs
  <2>4. share[k] = q
    BY DEF num
  <2> HIDE DEF q
  <2>5. share[k] \in Int /\ 2 * (total * share[k]) <= 2 * num + total /\ 2 * num <= 2 * (total * share[k]) + total
    BY <2>3, <2>4
  <2> QED
    BY <2>1, <2>5 DEF num
<1> HIDE DEF share, shares
<1>6. rest \in Int /\ before \in Int
  BY <1>1, <1>5, SumType
<1>7. total = before + ratios[n]
  <2>1. \A k \in (1..(n - 1)) \cup {n} : ratios[k] \in Int
    BY <1>2
  <2>2. SumFunctionOnSet(ratios, (1..(n - 1)) \cup {n}) = before + ratios[n]
    BY <1>1, <1>2, <2>1, SumAdd
  <2>3. Total(ratios) = SumFunctionOnSet(ratios, 1..n)
    BY Zenon DEF Total, SumFunction
  <2>4. SumFunctionOnSet(ratios, 1..n) = before + ratios[n]
    BY <1>2, <2>2, Zenon
  <2> QED
    BY <2>3, <2>4
<1>8. Total(shares) = price
  <2>1. \A k \in 1..(n - 1) : shares[k] \in Int /\ shares[k] = share[k]
    <3> TAKE k \in 1..(n - 1)
    <3>1. k \in 1..n /\ k < n
      BY <1>1
    <3>2. shares[k] = share[k]
      BY <1>4, <3>1 DEF share
    <3> QED
      BY <1>5, <3>2
  <2>2. shares[n] = price - rest /\ DOMAIN shares = 1..n
    BY <1>2, <1>4
  <2>3. SumFunctionOnSet(shares, 1..(n - 1)) = rest
    BY <1>1, <2>1, SumEqual
  <2>4. \A k \in (1..(n - 1)) \cup {n} : shares[k] \in Int
    BY <1>6, <2>1, <2>2
  <2>5. SumFunctionOnSet(shares, (1..(n - 1)) \cup {n}) = SumFunctionOnSet(shares, 1..(n - 1)) + shares[n]
    BY <1>1, <1>2, <2>4, SumAdd
  <2>6. SumFunctionOnSet(shares, 1..n) = SumFunctionOnSet(shares, 1..(n - 1)) + shares[n]
    BY <1>2, <2>5, Zenon
  <2>7. Total(shares) = SumFunctionOnSet(shares, 1..n)
    BY <2>2, Zenon DEF Total, SumFunction
  <2> QED
    BY <1>6, <2>2, <2>3, <2>6, <2>7
<1>9. /\ 2 * (total * rest) <= 2 * (price * before) + total * Cardinality(1..(n - 1))
      /\ 2 * (price * before) <= 2 * (total * rest) + total * Cardinality(1..(n - 1))
  <2>1. total \in Nat /\ price \in Int
    OBVIOUS
  <2> QED
    BY <1>1, <1>5, <2>1, SharesAddUp, Zenon
<1>10. 2 * Magnitude(shares[n] * total - price * ratios[n]) <= (n - 1) * total
  <2> DEFINE A == shares[n] * total
             B == price * ratios[n]
             C == (n - 1) * total
             X == total * rest
             Y == price * before
  <2>1. shares[n] = price - rest /\ ratios[n] \in Nat
    BY <1>2, <1>4
  <2>2. A = price * total - X /\ X \in Int /\ price * total \in Int
    <3>1. (price - rest) * total = price * total - total * rest
      BY <1>6
    <3> QED
      BY <1>6, <2>1, <3>1
  <2>3. B = price * total - Y /\ Y \in Int
    <3>1. price * (before + ratios[n]) = price * before + price * ratios[n]
      BY <1>6, <2>1
    <3>2. price * before \in Int /\ price * ratios[n] \in Int
      BY <1>6, <2>1
    <3> QED
      BY <1>7, <3>1, <3>2
  <2>4. 2 * X <= 2 * Y + C /\ 2 * Y <= 2 * X + C
    <3>1. total * Cardinality(1..(n - 1)) = C
      BY <1>1
    <3> QED
      BY <1>9, <3>1
  <2>5. C \in Int
    BY <1>1
  <2> HIDE DEF A, B, C, X, Y
  <2>6. A \in Int /\ B \in Int /\ 2 * A <= 2 * B + C /\ 2 * B <= 2 * A + C
    <3> DEFINE P == price * total
    <3>1. P \in Int /\ A = P - X /\ B = P - Y /\ X \in Int /\ Y \in Int
      BY <2>2, <2>3
    <3> HIDE DEF P
    <3>2. A \in Int /\ B \in Int
      BY <3>1
    <3>3. 2 * A <= 2 * B + C
      BY <2>4, <2>5, <3>1
    <3>4. 2 * B <= 2 * A + C
      BY <2>4, <2>5, <3>1
    <3> QED
      BY <3>2, <3>3, <3>4
  <2>7. 2 * Magnitude(A - B) <= C
    BY <2>5, <2>6, MagnitudeIs
  <2> QED
    BY <2>7 DEF A, B, C
<1> QED
  BY <1>8, <1>10 DEF shares

LEMMA AlwaysDivided ==
  ASSUME contract \in Contract
  PROVE  BundleDivided
<1> DEFINE n == Len(contract.obligations)
           prices == [k \in 1..n |-> contract.obligations[k].price]
<1>1. IsContract(contract)
  BY RevenueAssumption
<1>2. n \in Nat \ {0} /\ DOMAIN contract.obligations = 1..n /\ contract.price \in Nat /\ Standalone(contract) \in Nat
  BY <1>1, ObligationsAre, StandaloneIs
<1>3. \A k \in 1..n : Residual(contract)[k] >= 0
  BY <1>1, <1>2, ResidualIsNat
<1>4. ASSUME Standalone(contract) > 0
      PROVE  /\ Total(Shares(contract.price, prices)) = contract.price
             /\ 2 * Magnitude(Shares(contract.price, prices)[n] * Standalone(contract) - contract.price * prices[n])
                  <= (n - 1) * Standalone(contract)
  <2>1. \A k \in 1..n : prices[k] \in Nat
    BY <1>1, <1>2 DEF IsContract, IsObligation
  <2>2. DOMAIN prices = 1..n /\ Len(prices) = n
    <3>1. n \in Nat /\ DOMAIN prices = 1..n
      BY <1>2
    <3>2. prices = [k \in 1..n |-> prices[k]]
      OBVIOUS
    <3> HIDE DEF n, prices
    <3>3. prices \in [1..n -> Nat]
      BY <2>1, <3>2
    <3>4. prices \in Seq(Nat)
      BY <3>1, <3>3
    <3> QED
      BY <3>1, <3>4
  <2>3. Standalone(contract) = Total(prices) /\ Standalone(contract) \in Nat \ {0}
    <3>1. prices = [k \in DOMAIN contract.obligations |-> contract.obligations[k].price]
      BY <1>2
    <3>2. Standalone(contract) = Total(prices)
      BY <3>1, Zenon DEF Standalone
    <3> QED
      BY <1>2, <1>4, <3>2
  <2> HIDE DEF prices, n
  <2> QED
    BY <1>2, <2>1, <2>2, <2>3, SharesDivide
<1> QED
  BY <1>1, <1>3, <1>4, ProportionalDivides, ResidualDivides DEF BundleDivided, Obligation

(***************************************************************************)
(* The price of a contract, recognised                                     *)
(***************************************************************************)

\* A part of an amount, by the day, is no more than the amount.
LEMMA PartIsLess ==
  ASSUME NEW q \in Nat, NEW L \in Nat \ {0}, NEW d \in 0..L
  PROVE  HalfUp(q * d, L) <= q
<1> DEFINE num == q * d
           x == HalfUp(num, L)
<1>1. num \in Nat /\ num <= q * L
  <2>1. d * q <= L * q
    BY Times
  <2> QED
    BY <2>1
<1> HIDE DEF num
<1>2. x \in Nat /\ 2 * (L * x) <= 2 * num + L
  BY <1>1, RoundedIs
<1> HIDE DEF x
<1>3. ~(q + 1 <= x)
  <2> SUFFICES ASSUME q + 1 <= x PROVE FALSE
    OBVIOUS
  <2>1. (q + 1) * L <= x * L
    BY <1>2, Times
  <2> DEFINE P == q * L
             X == x * L
  <2>2. P \in Int /\ X \in Int /\ P + L <= X /\ 2 * X <= 2 * num + L /\ num <= P
    BY <1>1, <1>2, <2>1
  <2> HIDE DEF P, X
  <2> QED
    BY <1>1, <2>2
<1>4. x <= q
  BY <1>2, <1>3
<1> QED
  BY <1>4 DEF x, num

\* Only the first and the last month of an obligation can lack days of it.
LEMMA MiddleIsWhole ==
  ASSUME NEW o, Ends(o), NEW n \in Int, o.start.month < n, n < o.end.month
  PROVE  DaysActive(o, n) = Length(n)
<1> DEFINE first == DaysBefore(n) + 1
           last == DaysBefore(n) + Length(n)
           s == Ordinal(o.start)
           e == Ordinal(o.end)
           from == IF s < first THEN first ELSE s
           to == IF e < last THEN e ELSE last
<1>1. DaysActive(o, n) = IF from <= to THEN to - from + 1 ELSE 0
  BY EndsIs, ActiveIs
<1>2. s \in Int /\ e \in Int /\ o.start.month \in Int /\ o.end.month \in Int
  BY EndsIs, DateIs
<1>3. first \in Int /\ last \in Int /\ last = first + Length(n) - 1 /\ Length(n) \in 28..31
  BY LengthIs, MonthsFollow
<1>4. ~(first <= s)
  <2>1. first <= s <=> n <= o.start.month
    BY EndsIs, MonthOfDay
  <2> QED
    BY <1>2, <2>1
<1>5. ~(e <= last)
  <2>1. e <= last <=> o.end.month <= n
    BY EndsIs, MonthOfDay
  <2> QED
    BY <1>2, <2>1
<1> HIDE DEF first, last, s, e
<1> QED
  BY <1>1, <1>2, <1>3, <1>4, <1>5

StubMonths(o) == {n \in {o.start.month, o.end.month} : DaysActive(o, n) < Length(n)}

\* All the months of an obligation make the amount, up to a half cent for each of them and
\* what its stub months lack.
LEMMA MonthsMakeAmount ==
  ASSUME NEW o, Ends(o), NEW a \in Nat
  PROVE  LET all == OfMonths(o, a, o.start.month, o.end.month)
             stubs == Cardinality(StubMonths(o))
         IN /\ all \in Nat /\ stubs \in Nat
            /\ 2 * all <= 2 * a + Months(o)
            /\ 2 * a <= 2 * all + Months(o) + 2 * (stubs * Monthly(o, a))
<1> DEFINE S == o.start.month..o.end.month
           T == StubMonths(o)
           M == Months(o)
           q == Monthly(o, a)
           f == ByMonth(o, a)
           sum == SumFunctionOnSet(f, S)
           missing == [n \in Int |-> IF n \in T THEN q ELSE 0]
           least == [n \in Int |-> f[n] + missing[n]]
<1>1. /\ o.start.month \in Int /\ o.end.month \in Int /\ o.start.month <= o.end.month
      /\ M \in Nat \ {0} /\ M = o.end.month - o.start.month + 1
  BY EndsIs DEF Months
<1>2. IsFiniteSet(S) /\ Cardinality(S) = M
  <2> DEFINE b == o.start.month
             e == o.end.month
             size == Cardinality(b..e)
  <2> HIDE DEF b, e
  <2>1. b \in Int /\ e \in Int /\ b <= e /\ M = e - b + 1
    BY <1>1 DEF b, e
  <2>2. IsFiniteSet(b..e) /\ size = IF b > e THEN 0 ELSE e - b + 1
    BY <2>1, FS_Interval, Zenon
  <2> HIDE DEF size, M
  <2>3. size = M
    BY <2>1, <2>2
  <2> QED
    BY <2>2, <2>3 DEF size, b, e
<1>3. q \in Nat /\ 2 * (M * q) <= 2 * a + M /\ 2 * a <= 2 * (M * q) + M
  BY <1>1, RoundedIs DEF Monthly
<1>4. ASSUME NEW n \in S
      PROVE  /\ n \in Int /\ f[n] \in Nat /\ f[n] <= q
             /\ n \notin T => f[n] = q
  <2>1. n \in Int
    BY <1>1
  <2>2. f[n] = OfMonth(o, a, n) /\ OfMonth(o, a, n) \in Nat
    BY <2>1, OfMonthIs DEF ByMonth
  <2>3. DaysActive(o, n) \in 0..Length(n) /\ Length(n) \in 28..31
    BY <2>1, ActiveInside, LengthIs
  <2>4. OfMonth(o, a, n) <= q
    <3> DEFINE d == DaysActive(o, n)
               L == Length(n)
    <3>1. OfMonth(o, a, n) = IF d = L THEN q ELSE HalfUp(q * d, L)
      BY DEF OfMonth
    <3>2. L \in Nat \ {0} /\ d \in 0..L /\ q \in Nat
      BY <1>3, <2>3
    <3> HIDE DEF d, L, q
    <3>3. HalfUp(q * d, L) <= q
      BY <3>2, PartIsLess
    <3>4. q <= q
      BY <3>2
    <3> QED
      BY <3>1, <3>3, <3>4
  <2>5. ASSUME n \notin T PROVE OfMonth(o, a, n) = q
    <3>1. DaysActive(o, n) = Length(n)
      <4>1. CASE n = o.start.month \/ n = o.end.month
        <5>1. ~(DaysActive(o, n) < Length(n))
          BY <2>5, <4>1 DEF StubMonths
        <5> QED
          BY <2>3, <5>1
      <4>2. CASE n # o.start.month /\ n # o.end.month
        <5>1. o.start.month < n /\ n < o.end.month
          BY <1>1, <2>1, <4>2
        <5> QED
          BY <2>1, <5>1, MiddleIsWhole
      <4> QED
        BY <4>1, <4>2
    <3> QED
      BY <2>1, <3>1, OfMonthIs
  <2> QED
    BY <2>1, <2>2, <2>4, <2>5
<1>5. T \in SUBSET S /\ IsFiniteSet(T)
  <2>1. T \in SUBSET S
    BY <1>1 DEF StubMonths
  <2> QED
    BY <1>2, <2>1, FS_Subset
<1>6. Cardinality(T) \in Nat
  BY <1>5, FS_CardinalityType
<1>7. sum \in Nat
  <2>1. \A n \in S : f[n] \in Int /\ f[n] >= 0
    BY <1>4
  <2> HIDE DEF f, S
  <2> QED
    BY <1>2, <2>1, SumNonNegative
<1>8. sum <= q * M
  <2> DEFINE none == [n \in S |-> 0]
  <2>1. \A n \in S : f[n] \in Int /\ none[n] \in Int /\ f[n] <= none[n] + q /\ none[n] = 0
    BY <1>3, <1>4
  <2>2. q \in Int
    BY <1>3
  <2> HIDE DEF none, S, f, q
  <2>3. SumFunctionOnSet(f, S) <= SumFunctionOnSet(none, S) + q * Cardinality(S)
    BY <1>2, <2>1, <2>2, SumWithin
  <2>4. SumFunctionOnSet(none, S) = 0
    BY <1>2, <2>1, SumZero
  <2>5. q * M \in Int
    BY <1>1, <2>2
  <2> QED
    BY <1>2, <2>3, <2>4, <2>5
<1>9. q * M <= sum + q * Cardinality(T)
  <2> DEFINE full == [n \in S |-> q]
  <2>1. \A n \in S : /\ f[n] \in Int /\ missing[n] \in Int /\ least[n] = f[n] + missing[n]
                     /\ full[n] \in Int /\ least[n] \in Int /\ full[n] <= least[n] /\ full[n] = q
    <3> TAKE n \in S
    <3>1. n \in Int /\ f[n] \in Nat /\ (n \notin T => f[n] = q)
      BY <1>4
    <3>2. missing[n] = IF n \in T THEN q ELSE 0
      BY <3>1
    <3>3. least[n] = f[n] + missing[n] /\ full[n] = q
      BY <3>1
    <3> HIDE DEF missing, least, full, f, T, q
    <3> QED
      BY <1>3, <3>1, <3>2, <3>3
  <2>2. q \in Int
    BY <1>3
  <2>3. (\A n \in T : missing[n] = q) /\ (\A n \in S \ T : missing[n] = 0)
    <3>1. \A n \in S : n \in Int
      BY <1>4
    <3> HIDE DEF T
    <3> QED
      BY <1>5, <3>1
  <2> HIDE DEF full, missing, least, S, f, q, T
  <2>4. SumFunctionOnSet(full, S) <= SumFunctionOnSet(least, S)
    BY <1>2, <2>1, SumMonotone
  <2>5. SumFunctionOnSet(least, S) = SumFunctionOnSet(f, S) + SumFunctionOnSet(missing, S)
    BY <1>2, <2>1, SumPlus
  <2>6. SumFunctionOnSet(missing, S) = q * Cardinality(T)
    BY <1>2, <1>5, <2>2, <2>3, SumIndicator
  <2>7. SumFunctionOnSet(full, S) = q * Cardinality(S)
    BY <1>2, <2>1, <2>2, SumConstant
  <2> QED
    BY <1>2, <2>4, <2>5, <2>6, <2>7
<1>10. OfMonths(o, a, o.start.month, o.end.month) = sum
  BY <1>1, OfMonthsIs
<1> DEFINE P == M * q
           R == Cardinality(T) * q
<1>11. P \in Int /\ R \in Int /\ q * M = P /\ q * Cardinality(T) = R
  BY <1>1, <1>3, <1>6
<1> HIDE DEF sum, P, R
<1>12. 2 * sum <= 2 * a + M
  BY <1>1, <1>3, <1>7, <1>8, <1>11 DEF P
<1>13. 2 * a <= 2 * sum + M + 2 * R
  BY <1>1, <1>3, <1>7, <1>9, <1>11 DEF P
<1> QED
  BY <1>6, <1>7, <1>10, <1>12, <1>13 DEF R

LEMMA DayAfterIs ==
  ASSUME NEW date, IsDate(date)
  PROVE  LET next == DayAfter(date) IN
         /\ IsDate(next) /\ Ordinal(next) = Ordinal(date) + 1
         /\ next.month \in Int /\ date.month <= next.month /\ next.month <= date.month + 1
<1> DEFINE m == date.month
           next == DayAfter(date)
<1>1. /\ m \in Int /\ date.day \in 1..Length(m) /\ Length(m) \in 28..31 /\ date.day \in Int
      /\ Ordinal(date) = DaysBefore(m) + date.day /\ DaysBefore(m) \in Int
  BY DateIs
<1>2. CASE date.day < Length(m)
  <2>1. next = [month |-> m, day |-> date.day + 1]
    BY <1>2 DEF DayAfter, Date
  <2>2. IsDate(next)
    BY <1>1, <1>2, <2>1 DEF IsDate
  <2>3. Ordinal(next) = DaysBefore(m) + (date.day + 1)
    BY <2>1, <2>2, DateIs
  <2>4. next.month = m
    BY <2>1
  <2> HIDE DEF next, m
  <2>5. IsDate(next) /\ Ordinal(next) = Ordinal(date) + 1 /\ next.month \in Int /\ m <= next.month /\ next.month <= m + 1
    BY <1>1, <2>2, <2>3, <2>4
  <2> QED
    BY <2>5 DEF next, m
<1>3. CASE ~(date.day < Length(m))
  <2>1. next = MonthStart(m + 1) /\ date.day = Length(m)
    BY <1>1, <1>3 DEF DayAfter
  <2>2. m + 1 \in Int /\ DaysBefore(m + 1) = DaysBefore(m) + Length(m)
    BY <1>1, MonthsFollow
  <2>3. IsDate(next) /\ next.month = m + 1 /\ Ordinal(next) = DaysBefore(m + 1) + 1
    BY <2>1, <2>2, MonthBounds
  <2> HIDE DEF next, m
  <2>4. IsDate(next) /\ Ordinal(next) = Ordinal(date) + 1 /\ next.month \in Int /\ m <= next.month /\ next.month <= m + 1
    BY <1>1, <2>1, <2>2, <2>3
  <2> QED
    BY <2>4 DEF next, m
<1> QED
  BY <1>2, <1>3

\* A day that is not before another is not in an earlier month.
LEMMA MonthsInOrder ==
  ASSUME NEW a, IsDate(a), NEW b, IsDate(b), Ordinal(a) <= Ordinal(b)
  PROVE  a.month <= b.month
<1>1. a.month \in Int /\ b.month \in Int /\ Ordinal(a) \in Int /\ Ordinal(b) \in Int
  BY DateIs
<1>2. Ordinal(b) <= DaysBefore(b.month) + Length(b.month) /\ DaysBefore(b.month) \in Int /\ Length(b.month) \in Int
  BY <1>1, MonthOfDay, MonthsFollow, LengthIs
<1>3. Ordinal(a) <= DaysBefore(b.month) + Length(b.month)
  BY <1>1, <1>2
<1> QED
  BY <1>1, <1>3, MonthOfDay

\* What an obligation with an end has at least been recognised of an amount by a day: when it
\* has begun, every month of it until then, and all of it when it is one point in time and over.
Least(o, a, day, got) ==
  /\ o.overTime /\ Ordinal(o.start) <= Ordinal(day) => OfMonths(o, a, FirstMonth, day.month) <= got
  /\ ~o.overTime /\ Ordinal(o.end) <= Ordinal(day) => a <= got

\* A period leaves no month out: it begins where the last one ended.
LEMMA LeastIsKept ==
  ASSUME NEW o, Ends(o), NEW a \in Nat, NEW got \in Nat,
         NEW last, IsDate(last), FirstMonth - 1 <= last.month,
         NEW day, IsDate(day), Ordinal(DayAfter(last)) < Ordinal(day),
         Least(o, a, last, got)
  PROVE  Least(o, a, day, got + Recognize(o, a, DayAfter(last), day))
<1> DEFINE from == DayAfter(last)
           m == last.month
           f == from.month
           t == day.month
           more == Recognize(o, a, from, day)
<1>1. /\ IsDate(from) /\ Ordinal(from) = Ordinal(last) + 1
      /\ f \in Int /\ m <= f /\ f <= m + 1
  BY DayAfterIs
<1>2. /\ Ordinal(last) \in Int /\ Ordinal(day) \in Int /\ m \in Int /\ t \in Int /\ FirstMonth \in Int
  BY DateIs, RevenueAssumption
<1>3. /\ IsDate(o.start) /\ IsDate(o.end) /\ Ordinal(o.start) <= Ordinal(o.end)
      /\ o.start.month \in Int /\ o.end.month \in Int /\ o.start.month <= o.end.month
      /\ Ordinal(o.start) \in Int /\ Ordinal(o.end) \in Int /\ o.end # Perpetual
      /\ FirstMonth <= o.start.month
  BY EndsIs, DateIs DEF Ends
<1>4. Ordinal(from) <= Ordinal(day)
  BY <1>1, <1>2
<1>5. f <= t
  BY <1>1, <1>4, MonthsInOrder
<1>6. more \in Nat
  BY <1>1, RecognizeIsNat DEF Ends
<1>7. ASSUME o.overTime, Ordinal(o.start) <= Ordinal(day)
      PROVE  OfMonths(o, a, FirstMonth, t) <= got + more
  <2>1. CASE Ordinal(o.start) <= Ordinal(last)
    <3>1. OfMonths(o, a, FirstMonth, m) <= got /\ OfMonths(o, a, FirstMonth, m) \in Nat
      BY <1>2, <1>7, <2>1, OfMonthsIs DEF Least
    <3>2. CASE Ordinal(from) <= Ordinal(o.end)
      <4>1. more = OfMonths(o, a, f, t)
        BY <1>3, <1>7, <3>2 DEF Recognize, Touches
      <4> DEFINE before == f - 1
      <4>2. before \in Int /\ before + 1 = f /\ FirstMonth <= before + 1 /\ before <= t /\ before <= m /\ f <= m + 1
        <5>1. FirstMonth <= f
          <6>1. o.start.month <= m
            BY <1>3, <2>1, MonthsInOrder
          <6> QED
            BY <1>1, <1>2, <1>3, <6>1
        <5> HIDE DEF f
        <5> QED
          BY <1>1, <1>2, <1>5, <5>1
      <4> HIDE DEF before, m, t, f
      <4>3. OfMonths(o, a, FirstMonth, t) = OfMonths(o, a, FirstMonth, before) + OfMonths(o, a, before + 1, t)
        BY <1>2, <4>2, MonthsSplit
      <4>4. OfMonths(o, a, FirstMonth, m) = OfMonths(o, a, FirstMonth, before) + OfMonths(o, a, before + 1, m)
        BY <1>2, <4>2, MonthsSplit
      <4>5. OfMonths(o, a, FirstMonth, before) \in Nat /\ OfMonths(o, a, before + 1, m) \in Nat /\ OfMonths(o, a, f, t) \in Nat
        BY <1>1, <1>2, <4>2, OfMonthsIs
      <4> DEFINE x == OfMonths(o, a, FirstMonth, before)
                 y == OfMonths(o, a, f, t)
                 z == OfMonths(o, a, f, m)
                 w == OfMonths(o, a, FirstMonth, m)
                 v == OfMonths(o, a, FirstMonth, t)
      <4>6. v = x + y /\ w = x + z /\ x \in Nat /\ y \in Nat /\ z \in Nat /\ w <= got /\ more = y
        BY <3>1, <4>1, <4>2, <4>3, <4>4, <4>5 DEF m
      <4> HIDE DEF v, w, x, y, z, more
      <4>7. v <= got + more
        BY <4>6
      <4> QED
        BY <4>7 DEF v
    <3>3. CASE ~(Ordinal(from) <= Ordinal(o.end))
      <4>1. o.end.month <= m
        <5>1. Ordinal(o.end) <= Ordinal(last)
          BY <1>1, <1>2, <1>3, <3>3
        <5> QED
          BY <1>3, <5>1, MonthsInOrder
      <4> DEFINE v == OfMonths(o, a, FirstMonth, t)
                 w == OfMonths(o, a, FirstMonth, m)
      <4>2. v = w
        <5>1. FirstMonth <= m + 1 /\ m <= t /\ m + 1 \in Int /\ o.end.month < m + 1
          <6>1. FirstMonth - 1 <= m
            OBVIOUS
          <6> HIDE DEF f, m, t
          <6> QED
            BY <1>1, <1>2, <1>3, <1>5, <4>1, <6>1
        <5>2. OfMonths(o, a, m + 1, t) = 0
          BY <1>2, <5>1, MonthsOutside
        <5>3. OfMonths(o, a, FirstMonth, t) = OfMonths(o, a, FirstMonth, m) + OfMonths(o, a, m + 1, t)
          BY <1>2, <5>1, MonthsSplit
        <5> QED
          BY <3>1, <5>2, <5>3
      <4> HIDE DEF v, more
      <4>3. w \in Nat /\ w <= got
        BY <3>1
      <4> HIDE DEF w
      <4>4. v <= got + more
        BY <1>6, <4>2, <4>3
      <4> QED
        BY <4>4 DEF v
    <3> QED
      BY <3>2, <3>3
  <2>2. CASE ~(Ordinal(o.start) <= Ordinal(last))
    <3>1. Ordinal(from) <= Ordinal(o.start) /\ Ordinal(from) <= Ordinal(o.end)
      BY <1>1, <1>2, <1>3, <2>2
    <3>2. more = OfMonths(o, a, f, t)
      BY <1>3, <1>7, <3>1 DEF Recognize, Touches
    <3>3. f <= o.start.month
      BY <1>1, <1>3, <3>1, MonthsInOrder
    <3>4. OfMonths(o, a, FirstMonth, t) = OfMonths(o, a, f, t)
      <4>1. CASE FirstMonth <= f
        <5> DEFINE before == f - 1
        <5>1. before \in Int /\ before + 1 = f /\ FirstMonth <= before + 1 /\ before <= t /\ before < o.start.month
          <6> HIDE DEF f, t
          <6> QED
            BY <1>1, <1>2, <1>3, <1>5, <3>3, <4>1
        <5> HIDE DEF before, f, t
        <5>2. OfMonths(o, a, FirstMonth, t) = OfMonths(o, a, FirstMonth, before) + OfMonths(o, a, before + 1, t)
          BY <1>2, <5>1, MonthsSplit
        <5>3. OfMonths(o, a, FirstMonth, before) = 0
          BY <1>2, <5>1, MonthsOutside
        <5>4. OfMonths(o, a, f, t) \in Nat
          BY <1>1, <1>2, OfMonthsIs
        <5> QED
          BY <5>1, <5>2, <5>3, <5>4
      <4>2. CASE f < FirstMonth
        <5> DEFINE before == FirstMonth - 1
        <5>1. before \in Int /\ before + 1 = FirstMonth /\ f <= before + 1 /\ before <= t /\ before < o.start.month
          <6>1. before <= t
            BY <1>1, <1>2, <1>5
          <6> HIDE DEF f, t
          <6> QED
            BY <1>1, <1>2, <1>3, <4>2, <6>1
        <5> HIDE DEF before, f, t
        <5>2. OfMonths(o, a, f, t) = OfMonths(o, a, f, before) + OfMonths(o, a, before + 1, t)
          BY <1>1, <1>2, <5>1, MonthsSplit
        <5>3. OfMonths(o, a, f, before) = 0
          BY <1>1, <1>2, <5>1, MonthsOutside
        <5>4. OfMonths(o, a, FirstMonth, t) \in Nat
          BY <1>1, <1>2, OfMonthsIs
        <5> QED
          BY <5>1, <5>2, <5>3, <5>4
      <4> QED
        BY <1>1, <1>2, <4>1, <4>2
    <3> DEFINE v == OfMonths(o, a, FirstMonth, t)
    <3>5. v = more
      BY <3>2, <3>4
    <3> HIDE DEF v, more
    <3>6. v <= got + more
      BY <1>6, <3>5
    <3> QED
      BY <3>6 DEF v
  <2> QED
    BY <2>1, <2>2
<1>8. ASSUME ~o.overTime, Ordinal(o.end) <= Ordinal(day)
      PROVE  a <= got + more
  <2>1. CASE Ordinal(o.end) <= Ordinal(last)
    <3>1. a <= got
      BY <1>8, <2>1 DEF Least
    <3> HIDE DEF more
    <3> QED
      BY <1>6, <3>1
  <2>2. CASE ~(Ordinal(o.end) <= Ordinal(last))
    <3>1. Ordinal(from) <= Ordinal(o.end)
      BY <1>1, <1>2, <1>3, <2>2
    <3>2. more = a
      BY <1>3, <1>8, <3>1 DEF Recognize, EndsWithin
    <3> QED
      BY <3>2
  <2> QED
    BY <2>1, <2>2
<1> QED
  BY <1>7, <1>8 DEF Least

\* What has been recognised of each obligation with an end, at least.
AtLeast ==
  \A k \in DOMAIN recognized :
    Obligation(k).end # Perpetual => Least(Obligation(k), Allocated(contract, k), closed, recognized[k])

LEMMA AtLeastBegins ==
  ASSUME Init, RevenueInv
  PROVE  AtLeast
<1> SUFFICES ASSUME NEW k \in DOMAIN recognized, Obligation(k).end # Perpetual
             PROVE  Least(Obligation(k), Allocated(contract, k), closed, recognized[k])
  BY DEF AtLeast
<1> DEFINE o == Obligation(k)
<1>1. k \in DOMAIN contract.obligations /\ IsContract(contract) /\ IsDate(closed)
  BY RevenueAssumption DEF RevenueInv
<1>2. Ends(o)
  BY <1>1 DEF IsContract, Ends, Obligation
<1>3. closed = MonthEnd(FirstMonth - 1) /\ FirstMonth \in Int
  BY RevenueAssumption DEF Init, RevenueInit
<1>4. /\ IsDate(o.start) /\ IsDate(o.end) /\ Ordinal(o.start) <= Ordinal(o.end)
      /\ o.start.month \in Int /\ FirstMonth <= o.start.month
      /\ Ordinal(o.start) \in Int /\ Ordinal(o.end) \in Int /\ Ordinal(closed) \in Int
  BY <1>1, <1>2, EndsIs, DateIs
<1>5. closed.month = FirstMonth - 1
  BY <1>3, MonthBounds
<1>6. ~(Ordinal(o.start) <= Ordinal(closed))
  <2>1. ~(o.start.month <= closed.month)
    BY <1>3, <1>4, <1>5
  <2> QED
    BY <1>1, <1>4, <2>1, MonthsInOrder
<1>7. ~(Ordinal(o.end) <= Ordinal(closed))
  BY <1>4, <1>6
<1> QED
  BY <1>6, <1>7 DEF Least

LEMMA AtLeastStep ==
  ASSUME RevenueInv, AtLeast, NEW day, IsDate(day), ClosePeriod(day)
  PROVE  AtLeast'
<1>1. /\ IsContract(contract) /\ IsDate(closed) /\ closed.month \in FirstMonth - 1..LastMonth
      /\ recognized \in [DOMAIN contract.obligations -> Nat]
  BY RevenueAssumption DEF RevenueInv
<1>2. /\ closed' = day /\ contract' = contract /\ Ordinal(DayAfter(closed)) < Ordinal(day)
      /\ recognized' = [k \in DOMAIN recognized |->
           recognized[k] + Recognize(contract.obligations[k], Allocated(contract, k), DayAfter(closed), day)]
  BY DEF ClosePeriod
<1>3. FirstMonth - 1 <= closed.month
  <2>1. FirstMonth \in Int /\ LastMonth \in Int
    BY RevenueAssumption
  <2> QED
    BY <1>1, <2>1
<1>4. ASSUME NEW k \in DOMAIN recognized, Obligation(k).end # Perpetual
      PROVE  Least(Obligation(k), Allocated(contract, k), day, recognized'[k])
  <2> DEFINE o == contract.obligations[k]
             a == Allocated(contract, k)
             got == recognized[k]
             more == Recognize(o, a, DayAfter(closed), day)
  <2>1. k \in DOMAIN contract.obligations
    BY <1>1
  <2>2. Ends(o) /\ a \in Nat /\ got \in Nat
    BY <1>1, <1>4, <2>1, AllocatedIs DEF IsContract, Ends, Obligation
  <2>3. Least(o, a, closed, got)
    BY <1>4 DEF AtLeast, Obligation
  <2>4. Least(o, a, day, got + more)
    BY <1>1, <1>2, <1>3, <2>2, <2>3, LeastIsKept
  <2>5. recognized'[k] = got + more
    BY <1>2
  <2> QED
    BY <2>4, <2>5 DEF Obligation
<1>5. DOMAIN recognized' = DOMAIN recognized /\ (\A k : Obligation(k)' = Obligation(k)) /\ closed' = day
  BY <1>2 DEF Obligation
<1>6. \A k : Allocated(contract, k)' = Allocated(contract, k)
  BY <1>2
<1> QED
  BY <1>4, <1>5, <1>6 DEF AtLeast

\* An obligation that is over, by what has been recognised of it: as much as was allocated, up
\* to half a cent for each month and what its stub months lack; and no more than that, when
\* no month was recognised twice.
LEMMA OverIsRecognized ==
  ASSUME RevenueInv, AtLeast, NEW k \in DOMAIN recognized, Over(Obligation(k), closed)
  PROVE  LET o == Obligation(k)
             a == Allocated(contract, k)
             lost == IF o.overTime THEN Stubs(o) * Monthly(o, a) ELSE 0
         IN /\ a \in Nat /\ recognized[k] \in Nat /\ Counted(o) \in Nat /\ lost \in Nat
            /\ 2 * a <= 2 * recognized[k] + Counted(o) + 2 * lost
            /\ whole => 2 * recognized[k] <= 2 * a + Counted(o)
<1> DEFINE o == Obligation(k)
           a == Allocated(contract, k)
           got == recognized[k]
           lost == IF o.overTime THEN Stubs(o) * Monthly(o, a) ELSE 0
           m == closed.month
<1>1. /\ k \in DOMAIN contract.obligations /\ IsContract(contract) /\ IsDate(closed)
      /\ got \in Nat /\ m \in Int
  BY RevenueAssumption, DateIs DEF RevenueInv
<1>2. Ends(o) /\ o.overTime \in BOOLEAN /\ Ordinal(o.end) <= Ordinal(closed)
  BY <1>1 DEF IsContract, IsObligation, Ends, Obligation, Over
<1>3. a \in Nat
  BY <1>1, AllocatedIs
<1>4. /\ IsDate(o.start) /\ IsDate(o.end) /\ Ordinal(o.start) <= Ordinal(o.end)
      /\ o.start.month \in Int /\ o.end.month \in Int /\ o.start.month <= o.end.month
      /\ FirstMonth <= o.start.month /\ FirstMonth \in Int
      /\ Ordinal(o.start) \in Int /\ Ordinal(o.end) \in Int /\ Ordinal(closed) \in Int
      /\ Months(o) \in Nat \ {0}
  BY <1>1, <1>2, EndsIs, DateIs, RevenueAssumption
<1>5. o.end.month <= m
  BY <1>1, <1>2, <1>4, MonthsInOrder
<1>6. Least(o, a, closed, got)
  BY <1>2 DEF AtLeast, Ends
<1>7. whole => got = EarnedBy(o, a, m)
  BY DEF RevenueInv
<1> HIDE DEF o, a, got, m
<1>8. CASE o.overTime
  <2> DEFINE all == OfMonths(o, a, o.start.month, o.end.month)
             stubs == Cardinality(StubMonths(o))
             q == Monthly(o, a)
  <2>1. /\ all \in Nat /\ stubs \in Nat
        /\ 2 * all <= 2 * a + Months(o)
        /\ 2 * a <= 2 * all + Months(o) + 2 * (stubs * q)
    BY <1>2, <1>3, MonthsMakeAmount
  <2>2. q \in Nat
    BY <1>2, <1>3, MonthlyIs
  <2>3. Stubs(o) = stubs /\ Counted(o) = Months(o) /\ lost = stubs * q
    BY <1>8 DEF Stubs, StubMonths, Counted
  <2>4. OfMonths(o, a, FirstMonth, m) = all
    <3> DEFINE before == o.start.month - 1
    <3>1. /\ before \in Int /\ before + 1 = o.start.month /\ FirstMonth <= before + 1 /\ before <= m
          /\ before < o.start.month
      BY <1>1, <1>4, <1>5
    <3> HIDE DEF before
    <3>2. OfMonths(o, a, FirstMonth, m) = OfMonths(o, a, FirstMonth, before) + OfMonths(o, a, before + 1, m)
      BY <1>1, <1>2, <1>3, <1>4, <3>1, MonthsSplit
    <3>3. OfMonths(o, a, FirstMonth, before) = 0
      BY <1>2, <1>3, <1>4, <3>1, MonthsOutside
    <3>4. OfMonths(o, a, o.start.month, m)
            = OfMonths(o, a, o.start.month, o.end.month) + OfMonths(o, a, o.end.month + 1, m)
      <4>1. o.start.month <= o.end.month + 1
        BY <1>4
      <4> QED
        BY <1>1, <1>2, <1>3, <1>4, <1>5, <4>1, MonthsSplit
    <3>5. OfMonths(o, a, o.end.month + 1, m) = 0
      <4>1. o.end.month + 1 \in Int /\ o.end.month < o.end.month + 1
        BY <1>4
      <4> QED
        BY <1>1, <1>2, <1>3, <4>1, MonthsOutside
    <3> QED
      BY <2>1, <3>1, <3>2, <3>3, <3>4, <3>5
  <2>5. all <= got
    <3>1. Ordinal(o.start) <= Ordinal(closed)
      BY <1>2, <1>4
    <3> QED
      BY <1>6, <1>8, <2>4, <3>1 DEF Least, m
  <2>6. whole => got = all
    BY <1>2, <1>7, <1>8, <2>4 DEF EarnedBy, Ends
  <2> DEFINE R == stubs * q
             C == Counted(o)
  <2>7. R \in Nat /\ lost = R /\ C = Months(o)
    BY <2>1, <2>2, <2>3
  <2>8. 2 * a <= 2 * all + C + 2 * R /\ 2 * all <= 2 * a + C
    BY <2>1, <2>7
  <2> HIDE DEF all, R, C, lost
  <2>9. C \in Nat /\ lost \in Nat /\ 2 * a <= 2 * got + C + 2 * lost
    BY <1>1, <1>3, <1>4, <2>1, <2>5, <2>7, <2>8
  <2>10. whole => 2 * got <= 2 * a + C
    BY <2>6, <2>8
  <2> QED
    BY <1>1, <1>3, <2>9, <2>10 DEF C, lost, o, a, got
<1>9. CASE ~o.overTime
  <2>1. a <= got
    BY <1>2, <1>6, <1>9 DEF Least
  <2>2. whole => got = a
    BY <1>2, <1>5, <1>7, <1>9 DEF EarnedBy, Ends
  <2>3. Counted(o) = 0 /\ lost = 0
    BY <1>9 DEF Counted
  <2> HIDE DEF lost
  <2>4. 0 \in Nat /\ 2 * a <= 2 * got + 0 + 2 * 0
    BY <1>1, <1>3, <2>1
  <2>5. whole => 2 * got <= 2 * a + 0
    BY <1>3, <2>2
  <2> QED
    BY <1>1, <1>3, <2>3, <2>4, <2>5 DEF lost, o, a, got
<1> QED
  BY <1>2, <1>8, <1>9

LEMMA AlwaysRecognized ==
  ASSUME RevenueInv, AtLeast
  PROVE  PriceRecognized
<1> DEFINE D == DOMAIN contract.obligations
           n == Len(contract.obligations)
           counted == [k \in D |-> Counted(contract.obligations[k])]
           lost == [k \in D |-> IF contract.obligations[k].overTime
                                THEN Stubs(contract.obligations[k]) * Monthly(contract.obligations[k], Allocated(contract, k))
                                ELSE 0]
           given == [k \in D |-> Allocated(contract, k)]
           none == [k \in D |-> 0]
           got == Total(recognized)
           p == contract.price
<1> SUFFICES ASSUME Standalone(contract) > 0, \A k \in DOMAIN recognized : Over(Obligation(k), closed)
             PROVE  /\ whole => 2 * (got - p) <= n + Total(counted)
                    /\ 2 * (p - got) <= n + Total(counted) + 2 * Total(lost)
  BY DEF PriceRecognized
<1>1. /\ IsContract(contract) /\ DOMAIN recognized = D /\ IsFiniteSet(D) /\ n \in Nat \ {0}
      /\ p \in Nat
  BY RevenueAssumption, ObligationsAre DEF RevenueInv
<1>2. /\ Total(counted) = SumFunctionOnSet(counted, D)
      /\ Total(lost) = SumFunctionOnSet(lost, D)
      /\ got = SumFunctionOnSet(recognized, D)
  <2>1. DOMAIN counted = D /\ DOMAIN lost = D /\ DOMAIN recognized = D
    BY <1>1
  <2> HIDE DEF counted, lost, D
  <2> QED
    BY <2>1, Zenon DEF Total, SumFunction
<1>3. \A k \in D : /\ given[k] \in Int /\ recognized[k] \in Int /\ counted[k] \in Int /\ lost[k] \in Int
                   /\ given[k] = Allocated(contract, k) /\ none[k] = 0 /\ none[k] \in Int
                   /\ 2 * given[k] <= 2 * recognized[k] + counted[k] + 2 * lost[k]
                   /\ whole => 2 * recognized[k] <= 2 * given[k] + counted[k] + 2 * none[k]
  <2> TAKE k \in D
  <2> DEFINE o == Obligation(k)
             a == Allocated(contract, k)
             less == IF o.overTime THEN Stubs(o) * Monthly(o, a) ELSE 0
  <2>1. k \in DOMAIN recognized /\ Over(Obligation(k), closed)
    BY <1>1
  <2>2. /\ a \in Nat /\ recognized[k] \in Nat /\ Counted(o) \in Nat /\ less \in Nat
        /\ 2 * a <= 2 * recognized[k] + Counted(o) + 2 * less
        /\ whole => 2 * recognized[k] <= 2 * a + Counted(o)
    BY <2>1, OverIsRecognized
  <2>3. given[k] = a /\ counted[k] = Counted(o) /\ lost[k] = less /\ none[k] = 0
    BY DEF Obligation
  <2> HIDE DEF given, counted, lost, none, less
  <2>4. whole => 2 * recognized[k] <= 2 * given[k] + counted[k] + 2 * none[k]
    BY <2>2, <2>3
  <2>5. 2 * given[k] <= 2 * recognized[k] + counted[k] + 2 * lost[k]
    BY <2>2, <2>3
  <2> QED
    BY <2>2, <2>3, <2>4, <2>5
<1> HIDE DEF counted, lost, given, none, got, p
<1> DEFINE sum == SumFunctionOnSet(given, D)
<1>4. sum \in Int /\ 2 * sum <= 2 * p + n /\ 2 * p <= 2 * sum + n
  BY <1>1, <1>3, AllocatedAddUp DEF p
<1>5. Total(counted) \in Int /\ Total(lost) \in Int /\ got \in Int
  <2>1. SumFunctionOnSet(counted, D) \in Int
    BY <1>1, <1>3, SumType
  <2>2. SumFunctionOnSet(lost, D) \in Int
    BY <1>1, <1>3, SumType
  <2>3. SumFunctionOnSet(recognized, D) \in Int
    BY <1>1, <1>3, SumType
  <2> QED
    BY <1>2, <2>1, <2>2, <2>3
<1>6. 2 * sum <= 2 * got + Total(counted) + 2 * Total(lost)
  <2>1. 2 * sum <= 2 * SumFunctionOnSet(recognized, D) + SumFunctionOnSet(counted, D) + 2 * SumFunctionOnSet(lost, D)
    BY <1>1, <1>3, SumsDiffer
  <2> QED
    BY <1>2, <2>1
<1>7. whole => 2 * got <= 2 * sum + Total(counted)
  <2> SUFFICES ASSUME whole PROVE 2 * got <= 2 * sum + Total(counted)
    OBVIOUS
  <2>1. 2 * SumFunctionOnSet(recognized, D) <= 2 * sum + SumFunctionOnSet(counted, D) + 2 * SumFunctionOnSet(none, D)
    BY <1>1, <1>3, SumsDiffer
  <2>2. SumFunctionOnSet(none, D) = 0
    BY <1>1, <1>3, SumZero
  <2> QED
    BY <1>2, <1>4, <1>5, <2>1, <2>2
<1> DEFINE C == Total(counted)
           L == Total(lost)
<1> HIDE DEF sum, n, C, L
<1>8. /\ n \in Int /\ p \in Int /\ got \in Int /\ sum \in Int /\ C \in Int /\ L \in Int
      /\ 2 * sum <= 2 * p + n /\ 2 * p <= 2 * sum + n
      /\ 2 * sum <= 2 * got + C + 2 * L
      /\ whole => 2 * got <= 2 * sum + C
  BY <1>1, <1>4, <1>5, <1>6, <1>7 DEF C, L
<1>9. whole => 2 * (got - p) <= n + C
  BY <1>8
<1>10. 2 * (p - got) <= n + C + 2 * L
  BY <1>8
<1> QED
  BY <1>9, <1>10 DEF C, L

\* Whatever the contract and the periods: the shares of its price miss it by half a cent
\* for each obligation at most, and once every obligation is over, what was recognised
\* lacks half a cent for each obligation and month and what stub months leave at most, and
\* exceeds the price by those half cents at most while whole months are closed.
THEOREM PriceAlwaysAccountedFor == Spec => []PriceAccountedFor
<1> DEFINE Inv == RevenueInv /\ AtLeast
<1>1. Init => Inv
  BY RevenueBegins, AtLeastBegins
<1>2. Inv /\ [Next]_vars => Inv'
  <2> SUFFICES ASSUME Inv, [Next]_vars PROVE Inv'
    OBVIOUS
  <2>1. CASE UNCHANGED revenueVars
    BY <2>1 DEF revenueVars, RevenueInv, AtLeast, Obligation
  <2>2. CASE RevenueNext
    <3>1. PICK day : IsDate(day) /\ day.month \in FirstMonth..LastMonth /\ ClosePeriod(day)
      BY <2>2, ClosingDay
    <3> QED
      BY <3>1, PeriodClosed, AtLeastStep
  <2> QED
    BY <2>1, <2>2 DEF Next, vars
<1>3. Inv => PriceAccountedFor
  BY AlwaysDivided, AlwaysRecognized DEF PriceAccountedFor, RevenueInv
<1> QED
  BY <1>1, <1>2, <1>3, PTL DEF Spec

(***************************************************************************)
(* Sums over sequences                                                     *)
(***************************************************************************)

\* The sum of what a function makes of each element.
SeqSum(F, s) == SumFunctionOnSet([k \in DOMAIN s |-> F[s[k]]], DOMAIN s)

LEMMA SeqSumType ==
  ASSUME NEW S, NEW F, \A x \in S : F[x] \in Int, NEW s \in Seq(S)
  PROVE  /\ SeqSum(F, s) \in Int
         /\ Len(s) \in Nat /\ DOMAIN s = 1..Len(s) /\ IsFiniteSet(DOMAIN s)
         /\ \A k \in DOMAIN s : s[k] \in S /\ F[s[k]] \in Int
<1>1. Len(s) \in Nat /\ DOMAIN s = 1..Len(s) /\ \A k \in DOMAIN s : s[k] \in S
  <2>1. Len(s) \in Nat /\ DOMAIN s = 1..Len(s) /\ s \in [1..Len(s) -> S]
    BY LenProperties, Zenon
  <2> QED
    BY <2>1, Zenon
<1>2. IsFiniteSet(DOMAIN s)
  <2> DEFINE n == Len(s)
  <2>1. n \in Int /\ 1 \in Int /\ DOMAIN s = 1..n
    BY <1>1
  <2> HIDE DEF n
  <2>2. IsFiniteSet(1..n)
    BY <2>1, FS_Interval
  <2> QED
    BY <2>1, <2>2, Zenon
<1> DEFINE f == [k \in DOMAIN s |-> F[s[k]]]
<1>3. \A k \in DOMAIN s : f[k] \in Int
  BY <1>1
<1> HIDE DEF f
<1>4. SumFunctionOnSet(f, DOMAIN s) \in Int
  BY <1>2, <1>3, SumType
<1> QED
  BY <1>1, <1>2, <1>4 DEF SeqSum, f

LEMMA SeqSumEmpty ==
  ASSUME NEW F
  PROVE  SeqSum(F, <<>>) = 0
<1>1. DOMAIN <<>> = {}
  OBVIOUS
<1>2. SeqSum(F, <<>>) = SumFunctionOnSet([k \in DOMAIN <<>> |-> F[<<>>[k]]], {})
  BY <1>1 DEF SeqSum
<1> QED
  BY <1>2, SumEmpty

LEMMA SeqSumOne ==
  ASSUME NEW F, NEW x, F[x] \in Int
  PROVE  SeqSum(F, <<x>>) = F[x]
<1> DEFINE f == [k \in DOMAIN <<x>> |-> F[<<x>>[k]]]
<1>1. DOMAIN <<x>> = {1} /\ f[1] = F[x]
  OBVIOUS
<1>2. SeqSum(F, <<x>>) = SumFunctionOnSet(f, {1})
  BY <1>1, Zenon DEF SeqSum
<1> HIDE DEF f
<1> QED
  BY <1>1, <1>2, SumSingle

\* The same values, so many places further.
Shifted(f, g, m, n) == \A i \in 1..n : g[i] \in Int /\ f[m + i] = g[i]

LEMMA SumShifted ==
  ASSUME NEW f, NEW g, NEW m \in Nat, NEW n \in Nat, Shifted(f, g, m, n)
  PROVE  SumFunctionOnSet(f, (m + 1)..(m + n)) = SumFunctionOnSet(g, 1..n)
<1> DEFINE Good(j) == SumFunctionOnSet(f, (m + 1)..(m + j)) = SumFunctionOnSet(g, 1..j)
           Bad == {j \in 0..n : ~Good(j)}
<1>0. \A i \in 1..n : g[i] \in Int /\ f[m + i] = g[i]
  BY Zenon DEF Shifted
<1>1. Bad = {}
  <2> SUFFICES ASSUME Bad # {} PROVE FALSE
    OBVIOUS
  <2>1. Bad \in SUBSET Nat
    OBVIOUS
  <2> HIDE DEF Bad
  <2>2. PICK j \in Bad : \A i \in Bad : j <= i
    BY <2>1, LeastNat
  <2> USE DEF Bad
  <2>3. j \in 0..n /\ ~Good(j)
    BY <2>2
  <2>4. Good(0)
    <3>1. (m + 1)..(m + 0) = {} /\ 1..0 = {}
      OBVIOUS
    <3> QED
      BY <3>1, SumEmpty, Zenon
  <2> DEFINE p == j - 1
  <2>5. j # 0
    BY <2>3, <2>4
  <2>6. p \in 0..n /\ p \in Nat /\ p + 1 = j /\ p < j /\ j \in 1..n
    BY <2>3, <2>5
  <2>7. Good(p)
    <3>1. p \notin Bad
      <4> HIDE DEF Bad
      <4> QED
        BY <2>2, <2>3, <2>6
    <3> QED
      BY <2>6, <3>1
  <2> HIDE DEF Bad, p
  <2>8. /\ (m + 1)..(m + j) = ((m + 1)..(m + p)) \cup {m + j} /\ m + j \notin (m + 1)..(m + p)
        /\ 1..j = (1..p) \cup {j} /\ j \notin 1..p
        /\ IsFiniteSet((m + 1)..(m + p)) /\ IsFiniteSet(1..p)
    <3>1. m + 1 \in Int /\ m + p \in Int
      BY <2>6
    <3>2. IsFiniteSet((m + 1)..(m + p)) /\ IsFiniteSet(1..p)
      BY <2>6, <3>1, FS_Interval
    <3> QED
      BY <2>6, <3>2
  <2>9. \A y \in ((m + 1)..(m + p)) \cup {m + j} : f[y] \in Int
    <3> TAKE y \in ((m + 1)..(m + p)) \cup {m + j}
    <3> DEFINE i == y - m
    <3>1. i \in 1..n /\ y = m + i
      BY <2>3, <2>6
    <3> HIDE DEF i
    <3> QED
      BY <1>0, <3>1
  <2>10. \A y \in (1..p) \cup {j} : g[y] \in Int
    BY <1>0, <2>3, <2>6
  <2>11. SumFunctionOnSet(f, ((m + 1)..(m + p)) \cup {m + j}) = SumFunctionOnSet(f, (m + 1)..(m + p)) + f[m + j]
    BY <2>8, <2>9, SumAdd
  <2>12. SumFunctionOnSet(g, (1..p) \cup {j}) = SumFunctionOnSet(g, 1..p) + g[j]
    BY <2>8, <2>10, SumAdd
  <2>13. f[m + j] = g[j]
    BY <1>0, <2>6
  <2>14. SumFunctionOnSet(f, (m + 1)..(m + j)) = SumFunctionOnSet(g, 1..j)
    BY <2>7, <2>8, <2>11, <2>12, <2>13, Zenon
  <2> QED
    BY <2>3, <2>14
<1>2. n \in 0..n
  OBVIOUS
<1>3. Good(n)
  BY <1>1, <1>2
<1> QED
  BY <1>3

LEMMA SeqSumConcat ==
  ASSUME NEW S, NEW F, \A x \in S : F[x] \in Int, NEW s \in Seq(S), NEW t \in Seq(S)
  PROVE  /\ s \o t \in Seq(S)
         /\ SeqSum(F, s \o t) = SeqSum(F, s) + SeqSum(F, t)
<1> DEFINE m == Len(s)
           n == Len(t)
           all == s \o t
           f == [k \in DOMAIN all |-> F[all[k]]]
           first == [k \in DOMAIN s |-> F[s[k]]]
           second == [k \in DOMAIN t |-> F[t[k]]]
<1>1. /\ m \in Nat /\ DOMAIN s = 1..m /\ \A k \in 1..m : s[k] \in S
      /\ n \in Nat /\ DOMAIN t = 1..n /\ \A k \in 1..n : t[k] \in S
  <2>1. /\ m \in Nat /\ DOMAIN s = 1..m /\ s \in [1..m -> S]
        /\ n \in Nat /\ DOMAIN t = 1..n /\ t \in [1..n -> S]
    BY LenProperties, Zenon
  <2> QED
    BY <2>1, Zenon
<1>2. /\ all \in Seq(S) /\ Len(all) = m + n
      /\ \A i \in 1..(m + n) : all[i] = IF i <= m THEN s[i] ELSE t[i - m]
  BY ConcatProperties
<1>3. DOMAIN all = 1..(m + n)
  BY <1>2, LenProperties
<1> HIDE DEF all, m, n
<1>4. \A k \in 1..m : first[k] = F[s[k]] /\ first[k] \in Int /\ f[k] = first[k]
  <2> TAKE k \in 1..m
  <2>1. k \in 1..(m + n) /\ k <= m
    BY <1>1
  <2> QED
    BY <1>1, <1>2, <1>3, <2>1
<1>5. \A i \in 1..n : second[i] \in Int /\ f[m + i] = second[i]
  <2> TAKE i \in 1..n
  <2>1. m + i \in 1..(m + n) /\ ~(m + i <= m) /\ (m + i) - m = i
    BY <1>1
  <2>2. all[m + i] = t[i]
    BY <1>2, <2>1
  <2> QED
    BY <1>1, <1>3, <2>1, <2>2
<1> HIDE DEF f, first, second
<1>6. /\ IsFiniteSet(1..m) /\ IsFiniteSet((m + 1)..(m + n))
      /\ (1..m) \cap ((m + 1)..(m + n)) = {} /\ 1..(m + n) = (1..m) \cup ((m + 1)..(m + n))
  <2>1. m + 1 \in Int /\ m + n \in Int
    BY <1>1
  <2>2. IsFiniteSet(1..m) /\ IsFiniteSet((m + 1)..(m + n))
    BY <1>1, <2>1, FS_Interval
  <2> QED
    BY <1>1, <2>2
<1>7. \A k \in (1..m) \cup ((m + 1)..(m + n)) : f[k] \in Int
  <2> TAKE k \in (1..m) \cup ((m + 1)..(m + n))
  <2>1. CASE k \in 1..m
    BY <1>4, <2>1
  <2>2. CASE k \in (m + 1)..(m + n)
    <3> DEFINE i == k - m
    <3>1. i \in 1..n /\ k = m + i
      BY <1>1, <2>2
    <3> HIDE DEF i
    <3> QED
      BY <1>5, <3>1
  <2> QED
    BY <2>1, <2>2
<1>8. SumFunctionOnSet(f, (1..m) \cup ((m + 1)..(m + n))) = SumFunctionOnSet(f, 1..m) + SumFunctionOnSet(f, (m + 1)..(m + n))
  BY <1>6, <1>7, SumDisjoint
<1>9. SumFunctionOnSet(first, 1..m) = SumFunctionOnSet(f, 1..m)
  <2>1. \A k \in 1..m : first[k] \in Int /\ first[k] = f[k]
    BY <1>4
  <2>2. IsFiniteSet(1..m)
    BY <1>6
  <2> QED
    BY <2>1, <2>2, SumEqual, Zenon
<1>10. SumFunctionOnSet(f, (m + 1)..(m + n)) = SumFunctionOnSet(second, 1..n)
  <2>1. m \in Nat /\ n \in Nat
    BY <1>1
  <2>2. Shifted(f, second, m, n)
    BY <1>5, Zenon DEF Shifted
  <2> QED
    BY <2>1, <2>2, SumShifted
<1>11. /\ SeqSum(F, all) = SumFunctionOnSet(f, 1..(m + n))
       /\ SeqSum(F, s) = SumFunctionOnSet(first, 1..m)
       /\ SeqSum(F, t) = SumFunctionOnSet(second, 1..n)
  BY <1>1, <1>3, Zenon DEF SeqSum, f, first, second
<1> QED
  BY <1>2, <1>6, <1>8, <1>9, <1>10, <1>11, Zenon DEF all

\* FlattenSeq, which is recursive: what the function in it is, and that there is one.
Flattens(g, seqs, n) == g = [i \in 1..n |-> IF i = 1 THEN seqs[i] ELSE g[i - 1] \o seqs[i]]

LEMMA FlattenIsChosen ==
  ASSUME NEW seqs, Len(seqs) # 0
  PROVE  FlattenSeq(seqs) = (CHOOSE g : Flattens(g, seqs, Len(seqs)))[Len(seqs)]
BY Zenon DEF FlattenSeq, Flattens

LEMMA FlattenExists ==
  ASSUME NEW seqs, NEW n \in Nat
  PROVE  \E g : Flattens(g, seqs, n)
<1> DEFINE Bad == {j \in Nat : ~ \E g : Flattens(g, seqs, j)}
<1> SUFFICES ASSUME Bad # {} PROVE FALSE
  OBVIOUS
<1>1. Bad \in SUBSET Nat
  OBVIOUS
<1> HIDE DEF Bad
<1>2. PICK j \in Bad : \A i \in Bad : j <= i
  BY <1>1, LeastNat
<1> USE DEF Bad
<1>3. j \in Nat /\ ~ \E g : Flattens(g, seqs, j)
  BY <1>2
<1>4. j # 0
  <2> SUFFICES ASSUME j = 0 PROVE FALSE
    OBVIOUS
  <2> DEFINE g == [i \in 1..0 |-> 0]
  <2>1. Flattens(g, seqs, 0)
    BY DEF Flattens
  <2> QED
    BY <1>3, <2>1
<1> DEFINE p == j - 1
<1>5. p \in Nat /\ p < j /\ p + 1 = j
  BY <1>3, <1>4
<1>6. PICK g : Flattens(g, seqs, p)
  <2>1. p \notin Bad
    <3> HIDE DEF Bad
    <3> QED
      BY <1>2, <1>3, <1>5
  <2> QED
    BY <1>5, <2>1
<1> HIDE DEF Bad, p
<1> DEFINE h == [i \in 1..j |-> IF i = j THEN (IF j = 1 THEN seqs[j] ELSE g[p] \o seqs[j]) ELSE g[i]]
<1>7. \A i \in 1..p : g[i] = IF i = 1 THEN seqs[i] ELSE g[i - 1] \o seqs[i]
  BY <1>6 DEF Flattens
<1>8. ASSUME NEW i \in 1..j
      PROVE  h[i] = IF i = 1 THEN seqs[i] ELSE h[i - 1] \o seqs[i]
  <2>1. CASE i = j
    <3>1. j # 1 => j - 1 \in 1..j /\ j - 1 # j /\ j - 1 = p
      BY <1>3, <1>4, <1>5
    <3>2. j # 1 => h[j - 1] = g[p]
      BY <3>1
    <3> QED
      BY <2>1, <3>2
  <2>2. CASE i # j
    <3>1. i \in 1..p /\ (i # 1 => i - 1 \in 1..j /\ i - 1 # j)
      BY <1>3, <1>5, <2>2
    <3>2. h[i] = g[i] /\ (i # 1 => h[i - 1] = g[i - 1])
      BY <2>2, <3>1
    <3>3. g[i] = IF i = 1 THEN seqs[i] ELSE g[i - 1] \o seqs[i]
      BY <1>7, <3>1
    <3> HIDE DEF h
    <3> QED
      BY <3>2, <3>3
  <2> QED
    BY <2>1, <2>2
<1>9. h = [i \in 1..j |-> h[i]]
  OBVIOUS
<1> HIDE DEF h
<1>10. Flattens(h, seqs, j)
  BY <1>8, <1>9 DEF Flattens
<1> QED
  BY <1>3, <1>10

\* Lists of what is in a set, at least one.
Lists(seqs, S) ==
  /\ Len(seqs) \in Nat \ {0} /\ DOMAIN seqs = 1..Len(seqs)
  /\ \A k \in 1..Len(seqs) : seqs[k] \in Seq(S)

LEMMA FlattenIsSeq ==
  ASSUME NEW S, NEW seqs, Lists(seqs, S)
  PROVE  FlattenSeq(seqs) \in Seq(S)
<1> DEFINE n == Len(seqs)
           g == CHOOSE g : Flattens(g, seqs, n)
<1>0. n \in Nat \ {0} /\ \A k \in 1..n : seqs[k] \in Seq(S)
  BY DEF Lists
<1>1. Flattens(g, seqs, n) /\ FlattenSeq(seqs) = g[n]
  <2>1. \E h : Flattens(h, seqs, n)
    BY <1>0, FlattenExists
  <2>2. Flattens(g, seqs, n)
    BY <2>1, Zenon
  <2>3. Len(seqs) # 0
    BY <1>0
  <2>4. FlattenSeq(seqs) = (CHOOSE h : Flattens(h, seqs, Len(seqs)))[Len(seqs)]
    BY <2>3, FlattenIsChosen, Zenon
  <2>5. FlattenSeq(seqs) = g[n]
    BY <2>4, Zenon
  <2> QED
    BY <2>2, <2>5
<1> HIDE DEF g, n
<1>2. \A i \in 1..n : g[i] = IF i = 1 THEN seqs[i] ELSE g[i - 1] \o seqs[i]
  BY <1>1 DEF Flattens
<1> DEFINE Bad == {i \in 1..n : g[i] \notin Seq(S)}
<1>3. Bad = {}
  <2> SUFFICES ASSUME Bad # {} PROVE FALSE
    OBVIOUS
  <2>1. Bad \in SUBSET Nat
    OBVIOUS
  <2> HIDE DEF Bad
  <2>2. PICK j \in Bad : \A i \in Bad : j <= i
    BY <2>1, LeastNat
  <2> USE DEF Bad
  <2>3. j \in 1..n /\ g[j] \notin Seq(S) /\ seqs[j] \in Seq(S)
    BY <1>0, <2>2
  <2>4. j # 1
    BY <1>2, <2>3
  <2> DEFINE p == j - 1
  <2>5. p \in 1..n /\ p < j /\ p \in Nat
    BY <1>0, <2>3, <2>4
  <2>6. g[p] \in Seq(S)
    <3>1. p \notin Bad
      <4> HIDE DEF Bad
      <4> QED
        BY <2>2, <2>3, <2>5
    <3> QED
      BY <2>5, <3>1
  <2>7. g[j] = g[p] \o seqs[j]
    BY <1>2, <2>3, <2>4
  <2> QED
    BY <2>3, <2>6, <2>7, ConcatProperties
<1> QED
  BY <1>0, <1>1, <1>3

\* A sum over what is flattened is the sum of the sums.
SumOfSums(F, seqs) == SumFunctionOnSet([k \in DOMAIN seqs |-> SeqSum(F, seqs[k])], DOMAIN seqs)

LEMMA SeqSumFlatten ==
  ASSUME NEW S, NEW F, \A x \in S : F[x] \in Int, NEW seqs, Lists(seqs, S)
  PROVE  SeqSum(F, FlattenSeq(seqs)) = SumOfSums(F, seqs)
<1> DEFINE n == Len(seqs)
           g == CHOOSE g : Flattens(g, seqs, n)
           sums == [k \in 1..n |-> SeqSum(F, seqs[k])]
<1>0. n \in Nat \ {0} /\ DOMAIN seqs = 1..n /\ \A k \in 1..n : seqs[k] \in Seq(S) /\ sums[k] = SeqSum(F, seqs[k])
  BY DEF Lists
<1>1. Flattens(g, seqs, n) /\ FlattenSeq(seqs) = g[n]
  <2>1. \E h : Flattens(h, seqs, n)
    BY <1>0, FlattenExists
  <2>2. Flattens(g, seqs, n)
    BY <2>1, Zenon
  <2>3. Len(seqs) # 0
    BY <1>0
  <2>4. FlattenSeq(seqs) = (CHOOSE h : Flattens(h, seqs, Len(seqs)))[Len(seqs)]
    BY <2>3, FlattenIsChosen, Zenon
  <2>5. FlattenSeq(seqs) = g[n]
    BY <2>4, Zenon
  <2> QED
    BY <2>2, <2>5
<1> HIDE DEF g, n, sums
<1>2. \A i \in 1..n : g[i] = IF i = 1 THEN seqs[i] ELSE g[i - 1] \o seqs[i]
  BY <1>1 DEF Flattens
<1>3. \A k \in 1..n : sums[k] \in Int
  <2> TAKE k \in 1..n
  <2>1. seqs[k] \in Seq(S)
    BY <1>0
  <2>2. SeqSum(F, seqs[k]) \in Int
    BY <2>1, SeqSumType
  <2> QED
    BY <1>0, <2>2
<1> DEFINE Good(i) == g[i] \in Seq(S) /\ SeqSum(F, g[i]) = SumFunctionOnSet(sums, 1..i)
           Bad == {i \in 1..n : ~Good(i)}
<1>4. Bad = {}
  <2> SUFFICES ASSUME Bad # {} PROVE FALSE
    OBVIOUS
  <2>1. Bad \in SUBSET Nat
    OBVIOUS
  <2> HIDE DEF Bad
  <2>2. PICK j \in Bad : \A i \in Bad : j <= i
    BY <2>1, LeastNat
  <2> USE DEF Bad
  <2>3. j \in 1..n /\ ~Good(j)
    BY <2>2
  <2>4. CASE j = 1
    <3>1. g[1] = seqs[1] /\ 1..1 = {1} /\ 1 \in 1..n /\ seqs[1] \in Seq(S) /\ sums[1] = SeqSum(F, seqs[1])
      BY <1>0, <1>2, <2>3, <2>4
    <3>2. SumFunctionOnSet(sums, {1}) = sums[1]
      BY <1>3, <3>1, SumSingle
    <3>3. Good(1)
      BY <3>1, <3>2
    <3> QED
      BY <2>3, <2>4, <3>3
  <2>5. CASE j # 1
    <3> DEFINE p == j - 1
    <3>1. p \in 1..n /\ p < j /\ p \in Nat /\ p + 1 = j
      BY <1>0, <2>3, <2>5
    <3>2. Good(p)
      <4>1. p \notin Bad
        <5> HIDE DEF Bad
        <5> QED
          BY <2>2, <2>3, <3>1
      <4> QED
        BY <3>1, <4>1
    <3>3. g[j] = g[p] \o seqs[j]
      BY <1>2, <2>3, <2>5
    <3> HIDE DEF Bad, p
    <3>4. seqs[j] \in Seq(S) /\ sums[j] = SeqSum(F, seqs[j])
      BY <1>0, <2>3
    <3>5. g[p] \o seqs[j] \in Seq(S) /\ SeqSum(F, g[p] \o seqs[j]) = SeqSum(F, g[p]) + SeqSum(F, seqs[j])
      BY <3>2, <3>4, SeqSumConcat
    <3>6. 1..j = (1..p) \cup {j} /\ j \notin 1..p /\ IsFiniteSet(1..p)
      <4>1. IsFiniteSet(1..p)
        BY <3>1, FS_Interval
      <4> QED
        BY <3>1, <4>1
    <3>7. \A y \in (1..p) \cup {j} : sums[y] \in Int
      <4>1. (1..p) \cup {j} \subseteq 1..n
        BY <1>0, <2>3, <3>1
      <4> QED
        BY <1>3, <4>1
    <3>8. SumFunctionOnSet(sums, (1..p) \cup {j}) = SumFunctionOnSet(sums, 1..p) + sums[j]
      BY <3>6, <3>7, SumAdd
    <3>9. SeqSum(F, g[j]) = SumFunctionOnSet(sums, 1..j)
      BY <3>2, <3>3, <3>4, <3>5, <3>6, <3>8, Zenon
    <3>10. Good(j)
      BY <3>3, <3>5, <3>9
    <3> QED
      BY <2>3, <3>10
  <2> QED
    BY <2>4, <2>5
<1>5. Good(n)
  <2>1. n \in 1..n
    BY <1>0
  <2> QED
    BY <1>4, <2>1
<1>6. SumOfSums(F, seqs) = SumFunctionOnSet(sums, 1..n)
  BY <1>0, Zenon DEF SumOfSums, sums
<1> QED
  BY <1>1, <1>5, <1>6

LEMMA SumsOfSums ==
  ASSUME NEW F, NEW seqs, NEW I, IsFiniteSet(I), DOMAIN seqs = I,
         NEW sums, \A k \in I : sums[k] \in Int /\ sums[k] = SeqSum(F, seqs[k])
  PROVE  SumOfSums(F, seqs) = SumFunctionOnSet(sums, I)
<1> DEFINE f == [k \in I |-> SeqSum(F, seqs[k])]
<1>1. \A k \in I : f[k] \in Int /\ f[k] = sums[k]
  OBVIOUS
<1>2. SumOfSums(F, seqs) = SumFunctionOnSet(f, I)
  BY Zenon DEF SumOfSums
<1> HIDE DEF f
<1> QED
  BY <1>1, <1>2, SumEqual

(***************************************************************************)
(* Taxes                                                                   *)
(***************************************************************************)

LineType == [amount : Int, code : Code \cup {NoCode}, isTax : BOOLEAN]

\* What a line adds to the taxes of a code, to its charges, and to the number of these.
TaxOf(c) == [l \in LineType |-> IF l.code = c /\ l.isTax THEN l.amount ELSE 0]

ChargeOf(c) == [l \in LineType |-> IF l.code = c /\ ~l.isTax THEN l.amount ELSE 0]

OneOf(c) == [l \in LineType |-> IF l.code = c /\ ~l.isTax THEN 1 ELSE 0]

\* Taxes of some charges, each of which was taxed so many times at a rate.
Fits(taxes, charges, size, rate, times) ==
  Nearly(2 * (RateUnit * taxes), 2 * (times * (rate * charges)), RateUnit * (times * size))

\* The taxes of a code fit its charges.
Settled(c) ==
  Fits(SeqSum(TaxOf(c), lines), SeqSum(ChargeOf(c), lines), SeqSum(OneOf(c), lines), Rate[c], standing[c])

TaxesInv ==
  /\ lines \in Seq(LineType)
  /\ standing \in [Code -> Nat]
  /\ taxings \in 0..MaxTaxings /\ credits \in 0..MaxTaxings
  /\ \A c \in Code : Settled(c)

LEMMA AddsAre ==
  ASSUME NEW c
  PROVE  \A l \in LineType : /\ TaxOf(c)[l] \in Int /\ ChargeOf(c)[l] \in Int /\ OneOf(c)[l] \in Int
                             /\ l.amount \in Int /\ l.code \in Code \cup {NoCode} /\ l.isTax \in BOOLEAN
BY DEF TaxOf, ChargeOf, OneOf, LineType

LEMMA LineIs ==
  ASSUME NEW amount \in Int, NEW code \in Code \cup {NoCode}, NEW isTax \in BOOLEAN
  PROVE  LET l == Line(amount, code, isTax) IN
         l \in LineType /\ l.amount = amount /\ l.code = code /\ l.isTax = isTax
BY DEF Line, LineType

\* One tax is its charge's amount at the rate, up to half a cent, by either rounding.
LEMMA OneTaxFits ==
  ASSUME NEW l \in LineType, l.code \in Code
  PROVE  /\ RoundedTax(l) \in Int /\ Fits(RoundedTax(l), l.amount, 1, Rate[l.code], 1)
         /\ ComputeTax(l) \in Int /\ Fits(ComputeTax(l), l.amount, 1, Rate[l.code], 1)
<1> DEFINE U == RateUnit
           R == Rate[l.code]
           a == l.amount
           n == a * R
<1>1. U \in Nat \ {0} /\ R \in Int /\ a \in Int /\ n \in Int /\ R * a = n
  <2>1. U \in Nat \ {0} /\ R \in Int /\ a \in Int
    BY TaxesAssumption DEF LineType
  <2> HIDE DEF R, a, U
  <2> QED
    BY <2>1
<1>2. ASSUME NEW q \in Int, 2 * (U * q) <= 2 * n + U, 2 * n <= 2 * (U * q) + U
      PROVE  Fits(q, a, 1, R, 1)
  <2> HIDE DEF U, R, a, n
  <2>1. 1 * (R * a) = n /\ U * (1 * 1) = U
    BY <1>1
  <2>2. Nearly(2 * (U * q), 2 * (1 * (R * a)), U * (1 * 1))
    BY <1>2, <2>1 DEF Nearly
  <2> QED
    BY <2>2 DEF Fits, U
<1>3. ComputeTax(l) \in Int /\ 2 * (U * ComputeTax(l)) <= 2 * n + U /\ 2 * n <= 2 * (U * ComputeTax(l)) + U
  <2> DEFINE q == HalfEven(n, U)
  <2>1. ComputeTax(l) = q
    BY DEF ComputeTax
  <2> HIDE DEF U, n
  <2>2. q \in Int /\ 2 * (U * q) <= 2 * n + U /\ 2 * n <= 2 * (U * q) + U
    BY <1>1, EvenIs
  <2> HIDE DEF q
  <2> QED
    BY <2>1, <2>2
<1>4. RoundedTax(l) \in Int /\ 2 * (U * RoundedTax(l)) <= 2 * n + U /\ 2 * n <= 2 * (U * RoundedTax(l)) + U
  <2> DEFINE q == HalfUp(n, U)
  <2>1. RoundedTax(l) = q
    BY DEF RoundedTax
  <2> HIDE DEF U, n
  <2>2. q \in Int /\ 2 * (U * q) <= 2 * n + U /\ 2 * n <= 2 * (U * q) + U
    <3>1. CASE n >= 0
      BY <1>1, <3>1, RoundedIs
    <3>2. CASE n < 0
      <4> DEFINE m == -n
                 p == HalfUp(m, U)
      <4>1. m \in Nat /\ ~(m < 0)
        BY <1>1, <3>2
      <4>2. p \in Nat /\ 2 * (U * p) <= 2 * m + U /\ 2 * m <= 2 * (U * p) + U
        <5> HIDE DEF m
        <5> QED
          BY <1>1, <4>1, RoundedIs
      <4>3. q = -p
        BY <3>2, <4>1 DEF HalfUp
      <4> HIDE DEF p, q
      <4>4. U * q = -(U * p) /\ U * p \in Int
        BY <1>1, <4>2, <4>3
      <4> DEFINE P == U * p
      <4>5. P \in Int /\ U * q = -P /\ 2 * P <= 2 * m + U /\ 2 * m <= 2 * P + U
        BY <4>2, <4>4
      <4> HIDE DEF P
      <4> QED
        BY <1>1, <4>2, <4>3, <4>5
    <3> QED
      BY <1>1, <3>1, <3>2
  <2> HIDE DEF q
  <2> QED
    BY <2>1, <2>2
<1> QED
  BY <1>2, <1>3, <1>4

\* Taxes that fit one by one fit together.
LEMMA TaxesFitTogether ==
  ASSUME NEW S, IsFiniteSet(S), NEW x, NEW a, NEW n, NEW rate \in Int,
         \A k \in S : x[k] \in Int /\ a[k] \in Int /\ n[k] \in Int /\ Fits(x[k], a[k], n[k], rate, 1)
  PROVE  Fits(SumFunctionOnSet(x, S), SumFunctionOnSet(a, S), SumFunctionOnSet(n, S), rate, 1)
<1> DEFINE U == RateUnit
           f == [k \in S |-> U * x[k]]
           g == [k \in S |-> rate * a[k]]
           c == [k \in S |-> U * n[k]]
           none == [k \in S |-> 0]
<1>1. U \in Int /\ rate \in Int
  BY TaxesAssumption
<1>2. \A k \in S : /\ x[k] \in Int /\ a[k] \in Int /\ n[k] \in Int
                   /\ f[k] = U * x[k] /\ g[k] = rate * a[k] /\ c[k] = U * n[k] /\ none[k] = 0
                   /\ f[k] \in Int /\ g[k] \in Int /\ c[k] \in Int /\ none[k] \in Int
  BY <1>1
<1>3. \A k \in S : f[k] <= f[k] /\ 2 * f[k] <= 2 * g[k] + c[k] + 2 * none[k] /\ 2 * g[k] <= 2 * f[k] + c[k] + 2 * none[k]
  <2> TAKE k \in S
  <2>1. Nearly(2 * (U * x[k]), 2 * (1 * (rate * a[k])), U * (1 * n[k]))
    BY DEF Fits
  <2> HIDE DEF U, f, g, c, none
  <2>2. 1 * (rate * a[k]) = rate * a[k] /\ 1 * n[k] = n[k]
    BY <1>1, <1>2
  <2>3. 2 * f[k] <= 2 * g[k] + c[k] /\ 2 * g[k] <= 2 * f[k] + c[k]
    BY <1>2, <2>1, <2>2 DEF Nearly
  <2> QED
    BY <1>2, <2>3
<1> HIDE DEF U, f, g, c, none
<1>4. /\ SumFunctionOnSet(f, S) = U * SumFunctionOnSet(x, S)
      /\ SumFunctionOnSet(g, S) = rate * SumFunctionOnSet(a, S)
      /\ SumFunctionOnSet(c, S) = U * SumFunctionOnSet(n, S)
  <2>1. SumFunctionOnSet(f, S) = U * SumFunctionOnSet(x, S)
    BY <1>1, <1>2, SumScaled
  <2>2. SumFunctionOnSet(g, S) = rate * SumFunctionOnSet(a, S)
    BY <1>1, <1>2, SumScaled
  <2>3. SumFunctionOnSet(c, S) = U * SumFunctionOnSet(n, S)
    BY <1>1, <1>2, SumScaled
  <2> QED
    BY <2>1, <2>2, <2>3
<1>5. SumFunctionOnSet(none, S) = 0
  BY <1>2, SumZero
<1>6. 2 * SumFunctionOnSet(f, S) <= 2 * SumFunctionOnSet(g, S) + SumFunctionOnSet(c, S) + 2 * SumFunctionOnSet(none, S)
  BY <1>2, <1>3, SumsDiffer
<1>7. 2 * SumFunctionOnSet(g, S) <= 2 * SumFunctionOnSet(f, S) + SumFunctionOnSet(c, S) + 2 * SumFunctionOnSet(none, S)
  BY <1>2, <1>3, SumsDiffer
<1> DEFINE X == SumFunctionOnSet(x, S)
           A == SumFunctionOnSet(a, S)
           N == SumFunctionOnSet(n, S)
<1>8. X \in Int /\ A \in Int /\ N \in Int
  BY <1>2, SumType
<1>9. /\ 2 * (U * X) <= 2 * (rate * A) + U * N + 2 * 0
      /\ 2 * (rate * A) <= 2 * (U * X) + U * N + 2 * 0
  BY <1>4, <1>5, <1>6, <1>7
<1> HIDE DEF X, A, N
<1>10. 1 * (rate * A) = rate * A /\ 1 * N = N /\ U * X \in Int /\ rate * A \in Int /\ U * N \in Int
  BY <1>1, <1>8
<1>11. Nearly(2 * (U * X), 2 * (1 * (rate * A)), U * (1 * N))
  BY <1>9, <1>10 DEF Nearly
<1> QED
  BY <1>11 DEF Fits, U, X, A, N

\* Charges that are taxed once more.
LEMMA FitsOnceMore ==
  ASSUME NEW T \in Int, NEW X \in Int, NEW A \in Int, NEW N \in Int, NEW rate \in Int, NEW times \in Nat,
         Fits(T, A, N, rate, times), Fits(X, A, N, rate, 1)
  PROVE  Fits(T + X, A, N, rate, times + 1)
<1> DEFINE U == RateUnit
           P == rate * A
<1>1. U \in Int /\ P \in Int
  BY TaxesAssumption
<1>2. /\ Nearly(2 * (U * T), 2 * (times * P), U * (times * N))
      /\ Nearly(2 * (U * X), 2 * (1 * P), U * (1 * N))
  BY DEF Fits
<1> HIDE DEF U, P
<1>3. /\ U * (T + X) = U * T + U * X /\ (times + 1) * P = times * P + 1 * P
      /\ U * ((times + 1) * N) = U * (times * N) + U * (1 * N)
      /\ U * T \in Int /\ U * X \in Int /\ times * P \in Int /\ 1 * P \in Int
      /\ U * (times * N) \in Int /\ U * (1 * N) \in Int
  <2>1. (times + 1) * N = times * N + 1 * N /\ times * N \in Int /\ 1 * N \in Int
    OBVIOUS
  <2>2. U * (times * N + 1 * N) = U * (times * N) + U * (1 * N)
    <3> DEFINE y == times * N
               z == 1 * N
    <3>1. y \in Int /\ z \in Int
      OBVIOUS
    <3> HIDE DEF y, z
    <3>2. U * (y + z) = U * y + U * z
      BY <1>1, <3>1
    <3> QED
      BY <3>2 DEF y, z
  <2>3. U * (T + X) = U * T + U * X /\ (times + 1) * P = times * P + 1 * P
    BY <1>1
  <2>4. U * T \in Int /\ U * X \in Int /\ times * P \in Int /\ 1 * P \in Int
    BY <1>1
  <2>5. U * (times * N) \in Int /\ U * (1 * N) \in Int
    BY <1>1, <2>1
  <2> QED
    BY <2>1, <2>2, <2>3, <2>4, <2>5
<1> DEFINE a == U * T
           b == U * X
           c == times * P
           d == 1 * P
           e == U * (times * N)
           f == U * (1 * N)
<1>4. /\ a \in Int /\ b \in Int /\ c \in Int /\ d \in Int /\ e \in Int /\ f \in Int
      /\ Nearly(2 * a, 2 * c, e) /\ Nearly(2 * b, 2 * d, f)
      /\ U * (T + X) = a + b /\ (times + 1) * P = c + d /\ U * ((times + 1) * N) = e + f
  BY <1>2, <1>3
<1> HIDE DEF a, b, c, d, e, f
<1>5. Nearly(2 * (a + b), 2 * (c + d), e + f)
  BY <1>4 DEF Nearly
<1>6. Nearly(2 * (U * (T + X)), 2 * ((times + 1) * P), U * ((times + 1) * N))
  BY <1>4, <1>5
<1> QED
  BY <1>6 DEF Fits, U, P

\* No taxes fit no charges, and any charges that were never taxed.
LEMMA NothingFits ==
  ASSUME NEW A \in Int, NEW N \in Int, NEW rate \in Int, NEW times \in Nat, times = 0 \/ (A = 0 /\ N = 0)
  PROVE  Fits(0, A, N, rate, times)
<1> DEFINE U == RateUnit
           P == rate * A
<1>1. U \in Int /\ P \in Int
  BY TaxesAssumption
<1>2. times * P = 0 /\ times * N = 0
  <2>1. CASE times = 0
    <3> HIDE DEF P
    <3> QED
      BY <1>1, <2>1
  <2>2. CASE A = 0 /\ N = 0
    <3>1. P = 0
      BY <2>2
    <3> HIDE DEF P
    <3> QED
      BY <2>2, <3>1
  <2> QED
    BY <2>1, <2>2
<1> HIDE DEF U, P
<1>3. U * 0 = 0
  BY <1>1
<1>4. Nearly(2 * (U * 0), 2 * (times * P), U * (times * N))
  BY <1>2, <1>3 DEF Nearly
<1> QED
  BY <1>4 DEF Fits, U, P

\* A line of a code without a rate adds nothing, and one of a code adds where it belongs.
LEMMA LineAdds ==
  ASSUME NEW c, NEW l \in LineType
  PROVE  /\ l.code # c => TaxOf(c)[l] = 0 /\ ChargeOf(c)[l] = 0 /\ OneOf(c)[l] = 0
         /\ l.code = c /\ l.isTax => TaxOf(c)[l] = l.amount /\ ChargeOf(c)[l] = 0 /\ OneOf(c)[l] = 0
         /\ l.code = c /\ ~l.isTax => TaxOf(c)[l] = 0 /\ ChargeOf(c)[l] = l.amount /\ OneOf(c)[l] = 1
BY DEF TaxOf, ChargeOf, OneOf

\* What is behind a sum over lines.
LEMMA SumsOfLines ==
  ASSUME NEW c, NEW s \in Seq(LineType)
  PROVE  /\ SeqSum(TaxOf(c), s) \in Int /\ SeqSum(ChargeOf(c), s) \in Int /\ SeqSum(OneOf(c), s) \in Int
         /\ Len(s) \in Nat /\ DOMAIN s = 1..Len(s) /\ IsFiniteSet(DOMAIN s)
         /\ \A k \in DOMAIN s : s[k] \in LineType
<1>1. \A l \in LineType : TaxOf(c)[l] \in Int /\ ChargeOf(c)[l] \in Int /\ OneOf(c)[l] \in Int
  BY AddsAre
<1>2. SeqSum(TaxOf(c), s) \in Int
  BY <1>1, SeqSumType
<1>3. SeqSum(ChargeOf(c), s) \in Int
  BY <1>1, SeqSumType
<1>4. /\ SeqSum(OneOf(c), s) \in Int
      /\ Len(s) \in Nat /\ DOMAIN s = 1..Len(s) /\ IsFiniteSet(DOMAIN s)
      /\ \A k \in DOMAIN s : s[k] \in LineType
  BY <1>1, SeqSumType
<1> QED
  BY <1>2, <1>3, <1>4

\* What one line of an invoice adds.
LEMMA SumsOfOneLine ==
  ASSUME NEW c, NEW l \in LineType
  PROVE  /\ <<l>> \in Seq(LineType)
         /\ SeqSum(TaxOf(c), <<l>>) = TaxOf(c)[l]
         /\ SeqSum(ChargeOf(c), <<l>>) = ChargeOf(c)[l]
         /\ SeqSum(OneOf(c), <<l>>) = OneOf(c)[l]
BY AddsAre, SeqSumOne

\* What two lists of lines add together.
LEMMA SumsOfBoth ==
  ASSUME NEW c, NEW s \in Seq(LineType), NEW t \in Seq(LineType)
  PROVE  /\ s \o t \in Seq(LineType)
         /\ SeqSum(TaxOf(c), s \o t) = SeqSum(TaxOf(c), s) + SeqSum(TaxOf(c), t)
         /\ SeqSum(ChargeOf(c), s \o t) = SeqSum(ChargeOf(c), s) + SeqSum(ChargeOf(c), t)
         /\ SeqSum(OneOf(c), s \o t) = SeqSum(OneOf(c), s) + SeqSum(OneOf(c), t)
<1>1. \A l \in LineType : TaxOf(c)[l] \in Int /\ ChargeOf(c)[l] \in Int /\ OneOf(c)[l] \in Int
  BY AddsAre
<1>2. s \o t \in Seq(LineType) /\ SeqSum(TaxOf(c), s \o t) = SeqSum(TaxOf(c), s) + SeqSum(TaxOf(c), t)
  BY <1>1, SeqSumConcat
<1>3. SeqSum(ChargeOf(c), s \o t) = SeqSum(ChargeOf(c), s) + SeqSum(ChargeOf(c), t)
  BY <1>1, SeqSumConcat
<1>4. SeqSum(OneOf(c), s \o t) = SeqSum(OneOf(c), s) + SeqSum(OneOf(c), t)
  BY <1>1, SeqSumConcat
<1> QED
  BY <1>2, <1>3, <1>4

\* Sums of what is the same for every line.
LEMMA SumsAreEqual ==
  ASSUME NEW F, NEW s \in Seq(LineType), NEW fun,
         \A k \in DOMAIN s : fun[k] \in Int /\ F[s[k]] = fun[k]
  PROVE  SeqSum(F, s) = SumFunctionOnSet(fun, DOMAIN s)
<1> DEFINE f == [k \in DOMAIN s |-> F[s[k]]]
<1>1. \A k \in DOMAIN s : f[k] \in Int /\ f[k] = fun[k]
  OBVIOUS
<1>2. IsFiniteSet(DOMAIN s)
  BY SumsOfLines
<1> HIDE DEF f
<1>3. SumFunctionOnSet(f, DOMAIN s) = SumFunctionOnSet(fun, DOMAIN s)
  BY <1>1, <1>2, SumEqual
<1> QED
  BY <1>3 DEF SeqSum, f

LEMMA SumsAreZero ==
  ASSUME NEW F, NEW s \in Seq(LineType), \A k \in DOMAIN s : F[s[k]] = 0
  PROVE  SeqSum(F, s) = 0
<1> DEFINE f == [k \in DOMAIN s |-> F[s[k]]]
<1>1. \A k \in DOMAIN s : f[k] = 0
  OBVIOUS
<1>2. IsFiniteSet(DOMAIN s)
  BY SumsOfLines
<1> HIDE DEF f
<1>3. SumFunctionOnSet(f, DOMAIN s) = 0
  BY <1>1, <1>2, SumZero
<1> QED
  BY <1>3 DEF SeqSum, f

\* Charges taxed one by one, and the sums of what that adds.
LEMMA AllTaxed ==
  ASSUME NEW c \in Code, NEW s \in Seq(LineType), NEW x,
         \A k \in DOMAIN s : x[k] \in Int /\ Fits(x[k], ChargeOf(c)[s[k]], OneOf(c)[s[k]], Rate[c], 1)
  PROVE  /\ SumFunctionOnSet(x, DOMAIN s) \in Int
         /\ Fits(SumFunctionOnSet(x, DOMAIN s), SeqSum(ChargeOf(c), s), SeqSum(OneOf(c), s), Rate[c], 1)
<1> DEFINE D == DOMAIN s
           a == [k \in DOMAIN s |-> ChargeOf(c)[s[k]]]
           n == [k \in DOMAIN s |-> OneOf(c)[s[k]]]
           rate == Rate[c]
<1>1. IsFiniteSet(D) /\ \A k \in D : s[k] \in LineType
  BY SumsOfLines
<1>2. \A k \in D : ChargeOf(c)[s[k]] \in Int /\ OneOf(c)[s[k]] \in Int
  BY <1>1, AddsAre
<1>3. \A k \in D : x[k] \in Int /\ a[k] \in Int /\ n[k] \in Int /\ Fits(x[k], a[k], n[k], rate, 1)
  BY <1>2
<1>4. rate \in Int
  BY TaxesAssumption
<1>5. SeqSum(ChargeOf(c), s) = SumFunctionOnSet(a, D) /\ SeqSum(OneOf(c), s) = SumFunctionOnSet(n, D)
  BY DEF SeqSum
<1> HIDE DEF a, n, D, rate
<1>6. Fits(SumFunctionOnSet(x, D), SumFunctionOnSet(a, D), SumFunctionOnSet(n, D), rate, 1)
  BY <1>1, <1>3, <1>4, TaxesFitTogether
<1>7. SumFunctionOnSet(x, D) \in Int
  BY <1>1, <1>3, SumType
<1>8. Fits(SumFunctionOnSet(x, D), SeqSum(ChargeOf(c), s), SeqSum(OneOf(c), s), rate, 1)
  BY <1>5, <1>6
<1> QED
  BY <1>7, <1>8 DEF D, rate

\* An exempt rate makes no tax of a charge.
LEMMA ExemptFits ==
  ASSUME NEW a \in Int
  PROVE  Fits(0, a, 1, 0, 1)
<1> DEFINE U == RateUnit
<1>1. U \in Nat
  BY TaxesAssumption
<1> HIDE DEF U
<1>2. U * 0 = 0 /\ 1 * (0 * a) = 0 /\ U * (1 * 1) = U
  BY <1>1
<1>3. Nearly(2 * (U * 0), 2 * (1 * (0 * a)), U * (1 * 1))
  BY <1>1, <1>2 DEF Nearly
<1> QED
  BY <1>3 DEF Fits, U

LEMMA TaxesBegin == TaxesInit => TaxesInv
<1> SUFFICES ASSUME TaxesInit PROVE TaxesInv
  OBVIOUS
<1>1. lines = <<>> /\ taxings = 0 /\ credits = 0 /\ standing = [c \in Code |-> 0]
  BY DEF TaxesInit
<1>2. lines \in Seq(LineType)
  BY <1>1, EmptySeq
<1>3. standing \in [Code -> Nat] /\ taxings \in 0..MaxTaxings /\ credits \in 0..MaxTaxings
  <2>1. MaxTaxings \in Nat
    BY TaxesAssumption, Zenon
  <2> QED
    BY <1>1, <2>1
<1>4. ASSUME NEW c \in Code PROVE Settled(c)
  <2>1. SeqSum(TaxOf(c), lines) = 0 /\ SeqSum(ChargeOf(c), lines) = 0 /\ SeqSum(OneOf(c), lines) = 0
    BY <1>1, SeqSumEmpty
  <2>2. standing[c] = 0 /\ Rate[c] \in Int /\ 0 \in Int /\ 0 \in Nat
    BY <1>1, TaxesAssumption
  <2>3. Fits(0, 0, 0, Rate[c], 0)
    BY <2>2, NothingFits, Zenon
  <2> QED
    BY <2>1, <2>2, <2>3 DEF Settled
<1> QED
  BY <1>2, <1>3, <1>4 DEF TaxesInv

\* What calculate_tax adds for one line.
AddedTax(c, l) == IF l.code = c /\ ~l.isTax /\ Rate[c] # 0 THEN RoundedTax(l) ELSE 0

LEMMA AddedFits ==
  ASSUME NEW c \in Code, NEW l \in LineType
  PROVE  /\ AddedTax(c, l) \in Int
         /\ Fits(AddedTax(c, l), ChargeOf(c)[l], OneOf(c)[l], Rate[c], 1)
<1>0. Rate[c] \in Int /\ l.amount \in Int
  BY TaxesAssumption DEF LineType
<1>1. CASE l.code = c /\ ~l.isTax /\ Rate[c] # 0
  <2>1. AddedTax(c, l) = RoundedTax(l) /\ ChargeOf(c)[l] = l.amount /\ OneOf(c)[l] = 1
    BY <1>1, LineAdds DEF AddedTax
  <2>2. RoundedTax(l) \in Int /\ Fits(RoundedTax(l), l.amount, 1, Rate[c], 1)
    BY <1>1, OneTaxFits
  <2> QED
    BY <2>1, <2>2
<1>2. CASE l.code = c /\ ~l.isTax /\ Rate[c] = 0
  <2>1. AddedTax(c, l) = 0 /\ ChargeOf(c)[l] = l.amount /\ OneOf(c)[l] = 1
    BY <1>2, LineAdds DEF AddedTax
  <2>2. Fits(0, l.amount, 1, Rate[c], 1)
    BY <1>0, <1>2, ExemptFits
  <2> QED
    BY <2>1, <2>2
<1>3. CASE ~(l.code = c /\ ~l.isTax)
  <2>1. AddedTax(c, l) = 0
    BY <1>3 DEF AddedTax
  <2>2. ChargeOf(c)[l] = 0 /\ OneOf(c)[l] = 0
    BY <1>3, LineAdds, AddsAre
  <2>3. Fits(0, 0, 0, Rate[c], 1)
    BY <1>0, NothingFits
  <2> QED
    BY <2>1, <2>2, <2>3
<1> QED
  BY <1>1, <1>2, <1>3

LEMMA WithTaxAdds ==
  ASSUME NEW l \in LineType
  PROVE  /\ WithTax(l) \in Seq(LineType)
         /\ \A c \in Code : /\ SeqSum(TaxOf(c), WithTax(l)) = TaxOf(c)[l] + AddedTax(c, l)
                            /\ SeqSum(ChargeOf(c), WithTax(l)) = ChargeOf(c)[l]
                            /\ SeqSum(OneOf(c), WithTax(l)) = OneOf(c)[l]
<1>1. CASE Taxable(l) /\ ~Exempted(l.code)
  <2> DEFINE t == Line(RoundedTax(l), l.code, TRUE)
  <2>1. WithTax(l) = <<l>> \o <<t>>
    <3>1. WithTax(l) = IF Taxable(l) /\ ~Exempted(l.code) THEN <<l, t>> ELSE <<l>>
      BY DEF WithTax
    <3> HIDE DEF t
    <3>2. <<l, t>> = <<l>> \o <<t>>
      OBVIOUS
    <3> QED
      BY <1>1, <3>1, <3>2
  <2>2. l.code \in Code /\ ~l.isTax /\ Rate[l.code] # 0
    BY <1>1 DEF Taxable, Exempted
  <2>3. RoundedTax(l) \in Int
    BY <2>2, OneTaxFits
  <2>4. t \in LineType /\ t.amount = RoundedTax(l) /\ t.code = l.code /\ t.isTax = TRUE
    BY <2>2, <2>3, LineIs
  <2> HIDE DEF t
  <2>5. <<l>> \in Seq(LineType) /\ <<t>> \in Seq(LineType)
    BY <2>4
  <2>6. WithTax(l) \in Seq(LineType)
    BY <2>1, <2>5, ConcatProperties
  <2>7. ASSUME NEW c \in Code
        PROVE  /\ SeqSum(TaxOf(c), WithTax(l)) = TaxOf(c)[l] + AddedTax(c, l)
               /\ SeqSum(ChargeOf(c), WithTax(l)) = ChargeOf(c)[l]
               /\ SeqSum(OneOf(c), WithTax(l)) = OneOf(c)[l]
    <3>1. /\ SeqSum(TaxOf(c), WithTax(l)) = SeqSum(TaxOf(c), <<l>>) + SeqSum(TaxOf(c), <<t>>)
          /\ SeqSum(ChargeOf(c), WithTax(l)) = SeqSum(ChargeOf(c), <<l>>) + SeqSum(ChargeOf(c), <<t>>)
          /\ SeqSum(OneOf(c), WithTax(l)) = SeqSum(OneOf(c), <<l>>) + SeqSum(OneOf(c), <<t>>)
      BY <2>1, <2>5, SumsOfBoth
    <3>2. /\ SeqSum(TaxOf(c), <<l>>) = TaxOf(c)[l] /\ SeqSum(ChargeOf(c), <<l>>) = ChargeOf(c)[l]
          /\ SeqSum(OneOf(c), <<l>>) = OneOf(c)[l]
      BY SumsOfOneLine
    <3>3. /\ SeqSum(TaxOf(c), <<t>>) = TaxOf(c)[t] /\ SeqSum(ChargeOf(c), <<t>>) = ChargeOf(c)[t]
          /\ SeqSum(OneOf(c), <<t>>) = OneOf(c)[t]
      BY <2>4, SumsOfOneLine
    <3>4. TaxOf(c)[t] = AddedTax(c, l) /\ ChargeOf(c)[t] = 0 /\ OneOf(c)[t] = 0
      <4>1. CASE l.code = c
        BY <2>2, <2>4, <4>1, LineAdds DEF AddedTax
      <4>2. CASE l.code # c
        BY <2>4, <4>2, LineAdds DEF AddedTax
      <4> QED
        BY <4>1, <4>2
    <3>5. ChargeOf(c)[l] \in Int /\ OneOf(c)[l] \in Int
      BY AddsAre
    <3> QED
      BY <3>1, <3>2, <3>3, <3>4, <3>5
  <2> QED
    BY <2>6, <2>7
<1>2. CASE ~(Taxable(l) /\ ~Exempted(l.code))
  <2>1. WithTax(l) = <<l>>
    BY <1>2, Zenon DEF WithTax
  <2>2. ASSUME NEW c \in Code
        PROVE  /\ SeqSum(TaxOf(c), WithTax(l)) = TaxOf(c)[l] + AddedTax(c, l)
               /\ SeqSum(ChargeOf(c), WithTax(l)) = ChargeOf(c)[l]
               /\ SeqSum(OneOf(c), WithTax(l)) = OneOf(c)[l]
    <3>1. AddedTax(c, l) = 0
      BY <1>2 DEF AddedTax, Taxable, Exempted
    <3>2. TaxOf(c)[l] \in Int
      BY AddsAre
    <3>3. /\ SeqSum(TaxOf(c), <<l>>) = TaxOf(c)[l] /\ SeqSum(ChargeOf(c), <<l>>) = ChargeOf(c)[l]
          /\ SeqSum(OneOf(c), <<l>>) = OneOf(c)[l]
      BY SumsOfOneLine
    <3> QED
      BY <2>1, <3>1, <3>2, <3>3
  <2> QED
    BY <2>1, <2>2, SumsOfOneLine
<1> QED
  BY <1>1, <1>2

LEMMA CalculateTaxStep ==
  ASSUME TaxesInv, CalculateTax
  PROVE  TaxesInv'
<1> DEFINE n == Len(lines)
           seqs == [k \in DOMAIN lines |-> WithTax(lines[k])]
<1>1. /\ lines \in Seq(LineType) /\ lines # <<>>
      /\ standing \in [Code -> Nat] /\ credits \in 0..MaxTaxings
      /\ taxings \in 0..MaxTaxings /\ taxings < MaxTaxings /\ taxings' = taxings + 1
      /\ lines' = FlattenSeq(seqs)
      /\ standing' = [c \in Code |-> standing[c] + 1] /\ credits' = credits
  BY DEF TaxesInv, CalculateTax
<1>2. n \in Nat \ {0} /\ DOMAIN lines = 1..n /\ \A k \in 1..n : lines[k] \in LineType
  BY <1>1, LenProperties, EmptySeq
<1>3. Len(seqs) = n /\ DOMAIN seqs = 1..n /\ \A k \in 1..n : seqs[k] = WithTax(lines[k])
  BY <1>2
<1> HIDE DEF n, seqs
<1>4. Lists(seqs, LineType)
  BY <1>2, <1>3, WithTaxAdds DEF Lists
<1>5. lines' \in Seq(LineType)
  BY <1>1, <1>4, FlattenIsSeq
<1>6. ASSUME NEW c \in Code PROVE Settled(c)'
  <2> DEFINE x == [k \in 1..n |-> AddedTax(c, lines[k])]
             t == [k \in 1..n |-> TaxOf(c)[lines[k]]]
             both == [k \in 1..n |-> SeqSum(TaxOf(c), seqs[k])]
             a == [k \in 1..n |-> ChargeOf(c)[lines[k]]]
             o == [k \in 1..n |-> OneOf(c)[lines[k]]]
             X == SumFunctionOnSet(x, 1..n)
  <2>1. \A l \in LineType : TaxOf(c)[l] \in Int /\ ChargeOf(c)[l] \in Int /\ OneOf(c)[l] \in Int
    BY AddsAre
  <2>2. \A k \in 1..n : /\ x[k] = AddedTax(c, lines[k]) /\ x[k] \in Int
                        /\ Fits(x[k], ChargeOf(c)[lines[k]], OneOf(c)[lines[k]], Rate[c], 1)
    BY <1>2, AddedFits
  <2>3. \A k \in 1..n : /\ t[k] = TaxOf(c)[lines[k]] /\ t[k] \in Int
                        /\ a[k] = ChargeOf(c)[lines[k]] /\ a[k] \in Int
                        /\ o[k] = OneOf(c)[lines[k]] /\ o[k] \in Int
    BY <1>2, <2>1
  <2>4. \A k \in 1..n : /\ both[k] = SeqSum(TaxOf(c), seqs[k]) /\ both[k] = t[k] + x[k]
                        /\ a[k] = SeqSum(ChargeOf(c), seqs[k])
                        /\ o[k] = SeqSum(OneOf(c), seqs[k])
    BY <1>2, <1>3, WithTaxAdds
  <2> HIDE DEF x, t, both, a, o
  <2>5. SeqSum(TaxOf(c), lines') = SumFunctionOnSet(both, 1..n)
    <3>1. \A l \in LineType : TaxOf(c)[l] \in Int
      BY <2>1
    <3>2. SeqSum(TaxOf(c), FlattenSeq(seqs)) = SumOfSums(TaxOf(c), seqs)
      BY <1>4, <3>1, SeqSumFlatten
    <3> DEFINE I == 1..n
    <3>3. IsFiniteSet(I) /\ DOMAIN seqs = I
      BY <1>2, <1>3, FS_Interval
    <3>4. \A k \in I : both[k] \in Int /\ both[k] = SeqSum(TaxOf(c), seqs[k])
      BY <2>2, <2>3, <2>4
    <3> HIDE DEF I
    <3>5. SumOfSums(TaxOf(c), seqs) = SumFunctionOnSet(both, I)
      BY <3>3, <3>4, SumsOfSums
    <3> QED
      BY <1>1, <3>2, <3>5 DEF I
  <2>6. SeqSum(ChargeOf(c), lines') = SumFunctionOnSet(a, 1..n)
    <3>1. \A l \in LineType : ChargeOf(c)[l] \in Int
      BY <2>1
    <3>2. SeqSum(ChargeOf(c), FlattenSeq(seqs)) = SumOfSums(ChargeOf(c), seqs)
      BY <1>4, <3>1, SeqSumFlatten
    <3> DEFINE I == 1..n
    <3>3. IsFiniteSet(I) /\ DOMAIN seqs = I
      BY <1>2, <1>3, FS_Interval
    <3>4. \A k \in I : a[k] \in Int /\ a[k] = SeqSum(ChargeOf(c), seqs[k])
      BY <2>2, <2>3, <2>4
    <3> HIDE DEF I
    <3>5. SumOfSums(ChargeOf(c), seqs) = SumFunctionOnSet(a, I)
      BY <3>3, <3>4, SumsOfSums
    <3> QED
      BY <1>1, <3>2, <3>5 DEF I
  <2>7. SeqSum(OneOf(c), lines') = SumFunctionOnSet(o, 1..n)
    <3>1. \A l \in LineType : OneOf(c)[l] \in Int
      BY <2>1
    <3>2. SeqSum(OneOf(c), FlattenSeq(seqs)) = SumOfSums(OneOf(c), seqs)
      BY <1>4, <3>1, SeqSumFlatten
    <3> DEFINE I == 1..n
    <3>3. IsFiniteSet(I) /\ DOMAIN seqs = I
      BY <1>2, <1>3, FS_Interval
    <3>4. \A k \in I : o[k] \in Int /\ o[k] = SeqSum(OneOf(c), seqs[k])
      BY <2>2, <2>3, <2>4
    <3> HIDE DEF I
    <3>5. SumOfSums(OneOf(c), seqs) = SumFunctionOnSet(o, I)
      BY <3>3, <3>4, SumsOfSums
    <3> QED
      BY <1>1, <3>2, <3>5 DEF I
  <2>8. SeqSum(TaxOf(c), lines) = SumFunctionOnSet(t, 1..n)
    BY <1>1, <1>2, <2>3, SumsAreEqual
  <2>9. SeqSum(ChargeOf(c), lines) = SumFunctionOnSet(a, 1..n)
    BY <1>1, <1>2, <2>3, SumsAreEqual
  <2>10. SeqSum(OneOf(c), lines) = SumFunctionOnSet(o, 1..n)
    BY <1>1, <1>2, <2>3, SumsAreEqual
  <2>11. SumFunctionOnSet(both, 1..n) = SumFunctionOnSet(t, 1..n) + X
    <3> DEFINE I == 1..n
    <3>1. IsFiniteSet(I)
      BY <1>2, FS_Interval
    <3>2. \A k \in I : t[k] \in Int /\ x[k] \in Int /\ both[k] = t[k] + x[k]
      BY <2>2, <2>3, <2>4
    <3> HIDE DEF I
    <3>3. SumFunctionOnSet(both, I) = SumFunctionOnSet(t, I) + SumFunctionOnSet(x, I)
      BY <3>1, <3>2, SumPlus
    <3> QED
      BY <3>3 DEF I
  <2>12. X \in Int /\ Fits(X, SeqSum(ChargeOf(c), lines), SeqSum(OneOf(c), lines), Rate[c], 1)
    BY <1>1, <1>2, <2>2, AllTaxed
  <2>13. Settled(c)
    BY DEF TaxesInv
  <2>14. /\ SeqSum(TaxOf(c), lines) \in Int /\ SeqSum(ChargeOf(c), lines) \in Int /\ SeqSum(OneOf(c), lines) \in Int
    BY <1>1, SumsOfLines
  <2>15. standing[c] \in Nat /\ standing'[c] = standing[c] + 1 /\ Rate[c] \in Int
    BY <1>1, TaxesAssumption
  <2> HIDE DEF X
  <2>16. Fits(SeqSum(TaxOf(c), lines) + X, SeqSum(ChargeOf(c), lines), SeqSum(OneOf(c), lines), Rate[c], standing[c] + 1)
    BY <2>12, <2>13, <2>14, <2>15, FitsOnceMore DEF Settled
  <2>17. Fits(SeqSum(TaxOf(c), lines'), SeqSum(ChargeOf(c), lines'), SeqSum(OneOf(c), lines'), Rate[c], standing'[c])
    BY <2>5, <2>6, <2>7, <2>8, <2>9, <2>10, <2>11, <2>15, <2>16
  <2> QED
    BY <2>17 DEF Settled
<1>7. standing' \in [Code -> Nat] /\ taxings' \in 0..MaxTaxings /\ credits' \in 0..MaxTaxings
  BY <1>1, TaxesAssumption
<1> QED
  BY <1>5, <1>6, <1>7 DEF TaxesInv

LEMMA ApplyExemptionStep ==
  ASSUME TaxesInv, ApplyExemption
  PROVE  TaxesInv'
<1> DEFINE zeroed(l) == IF l.isTax THEN [l EXCEPT !.amount = 0] ELSE l
<1>1. /\ lines \in Seq(LineType) /\ standing \in [Code -> Nat]
      /\ lines' = [k \in DOMAIN lines |-> zeroed(lines[k])]
      /\ standing' = [c \in Code |-> 0]
      /\ taxings' = taxings /\ credits' = credits
      /\ taxings \in 0..MaxTaxings /\ credits \in 0..MaxTaxings
  BY DEF TaxesInv, ApplyExemption
<1>2. DOMAIN lines = 1..Len(lines) /\ Len(lines) \in Nat /\ \A k \in DOMAIN lines : lines[k] \in LineType
  BY <1>1, SumsOfLines
<1>3. \A l \in LineType : /\ zeroed(l) \in LineType /\ zeroed(l).code = l.code /\ zeroed(l).isTax = l.isTax
                          /\ zeroed(l).isTax => zeroed(l).amount = 0
  BY DEF LineType
<1> HIDE DEF zeroed
<1>4. DOMAIN lines' = DOMAIN lines /\ \A k \in DOMAIN lines' : lines'[k] = zeroed(lines[k]) /\ lines'[k] \in LineType
  BY <1>1, <1>2, <1>3
<1>5. lines' \in Seq(LineType)
  <2>1. lines' \in [1..Len(lines) -> LineType]
    BY <1>1, <1>2, <1>4
  <2> QED
    BY <1>2, <2>1
<1>6. ASSUME NEW c \in Code PROVE Settled(c)'
  <2>1. \A k \in DOMAIN lines' : TaxOf(c)[lines'[k]] = 0
    <3> TAKE k \in DOMAIN lines'
    <3>1. lines'[k] \in LineType /\ (lines'[k].isTax => lines'[k].amount = 0)
      BY <1>2, <1>3, <1>4
    <3> QED
      BY <3>1 DEF TaxOf
  <2>2. SeqSum(TaxOf(c), lines') = 0
    BY <1>5, <2>1, SumsAreZero
  <2>3. SeqSum(ChargeOf(c), lines') \in Int /\ SeqSum(OneOf(c), lines') \in Int
    BY <1>5, SumsOfLines
  <2>4. standing'[c] = 0 /\ Rate[c] \in Int
    BY <1>1, TaxesAssumption
  <2>5. Fits(0, SeqSum(ChargeOf(c), lines'), SeqSum(OneOf(c), lines'), Rate[c], 0)
    BY <2>3, <2>4, NothingFits
  <2>6. Fits(SeqSum(TaxOf(c), lines'), SeqSum(ChargeOf(c), lines'), SeqSum(OneOf(c), lines'), Rate[c], standing'[c])
    BY <2>2, <2>4, <2>5
  <2> QED
    BY <2>6 DEF Settled
<1>7. standing' \in [Code -> Nat]
  BY <1>1
<1> QED
  BY <1>1, <1>5, <1>6, <1>7 DEF TaxesInv

LEMMA AdjustStep ==
  ASSUME TaxesInv, NEW amount \in BasePrice, Adjust(amount)
  PROVE  TaxesInv'
<1> DEFINE l == Line(-amount, NoCode, FALSE)
<1>1. /\ lines \in Seq(LineType) /\ standing \in [Code -> Nat]
      /\ lines' = Append(lines, l) /\ credits' = credits + 1 /\ credits < MaxTaxings
      /\ taxings' = taxings /\ standing' = standing
      /\ taxings \in 0..MaxTaxings /\ credits \in 0..MaxTaxings
  BY DEF TaxesInv, Adjust
<1>2. l \in LineType /\ l.code = NoCode
  <2>1. amount \in Int
    BY TaxesAssumption, Zenon
  <2>2. -amount \in Int
    BY <2>1
  <2>3. NoCode \in Code \cup {NoCode} /\ FALSE \in BOOLEAN
    OBVIOUS
  <2> QED
    BY <2>2, <2>3, LineIs, Zenon
<1> HIDE DEF l
<1>3. <<l>> \in Seq(LineType)
  BY <1>2
<1>4. lines' = lines \o <<l>>
  BY <1>1, <1>2, AppendIsConcat
<1>5. lines' \in Seq(LineType)
  BY <1>1, <1>3, <1>4, ConcatProperties
<1>6. ASSUME NEW c \in Code PROVE Settled(c)'
  <2>1. c # NoCode
    BY TaxesAssumption
  <2>2. TaxOf(c)[l] = 0 /\ ChargeOf(c)[l] = 0 /\ OneOf(c)[l] = 0
    BY <1>2, <2>1, LineAdds
  <2>3. SeqSum(TaxOf(c), <<l>>) = 0 /\ SeqSum(ChargeOf(c), <<l>>) = 0 /\ SeqSum(OneOf(c), <<l>>) = 0
    BY <1>2, <2>2, SumsOfOneLine
  <2>4. /\ SeqSum(TaxOf(c), lines') = SeqSum(TaxOf(c), lines) + SeqSum(TaxOf(c), <<l>>)
        /\ SeqSum(ChargeOf(c), lines') = SeqSum(ChargeOf(c), lines) + SeqSum(ChargeOf(c), <<l>>)
        /\ SeqSum(OneOf(c), lines') = SeqSum(OneOf(c), lines) + SeqSum(OneOf(c), <<l>>)
    <3>1. /\ SeqSum(TaxOf(c), lines \o <<l>>) = SeqSum(TaxOf(c), lines) + SeqSum(TaxOf(c), <<l>>)
          /\ SeqSum(ChargeOf(c), lines \o <<l>>) = SeqSum(ChargeOf(c), lines) + SeqSum(ChargeOf(c), <<l>>)
          /\ SeqSum(OneOf(c), lines \o <<l>>) = SeqSum(OneOf(c), lines) + SeqSum(OneOf(c), <<l>>)
      BY <1>1, <1>3, SumsOfBoth
    <3> QED
      BY <1>4, <3>1, Zenon
  <2>5. /\ SeqSum(TaxOf(c), lines) \in Int /\ SeqSum(ChargeOf(c), lines) \in Int /\ SeqSum(OneOf(c), lines) \in Int
    BY <1>1, SumsOfLines
  <2>6. /\ SeqSum(TaxOf(c), lines') = SeqSum(TaxOf(c), lines)
        /\ SeqSum(ChargeOf(c), lines') = SeqSum(ChargeOf(c), lines)
        /\ SeqSum(OneOf(c), lines') = SeqSum(OneOf(c), lines)
    BY <2>3, <2>4, <2>5
  <2>7. Settled(c)
    BY DEF TaxesInv
  <2>8. Fits(SeqSum(TaxOf(c), lines'), SeqSum(ChargeOf(c), lines'), SeqSum(OneOf(c), lines'), Rate[c], standing'[c])
    BY <1>1, <2>6, <2>7 DEF Settled
  <2> QED
    BY <2>8 DEF Settled
<1>7. credits' \in 0..MaxTaxings
  BY <1>1, TaxesAssumption
<1> QED
  BY <1>1, <1>5, <1>6, <1>7 DEF TaxesInv

\* The charges of an invoice have one code, and none is a tax.
ChargesWith(code) == {l \in LineType : l.code = code /\ ~l.isTax}

LEMMA ChargesAre ==
  ASSUME NEW price \in Int, NEW seats \in 1..3, NEW fee \in Int, NEW code \in Code \cup {NoCode}
  PROVE  /\ Charges(price, seats, fee, code) \in Seq(LineType)
         /\ Len(Charges(price, seats, fee, code)) \in Nat \ {0}
         /\ \A k \in DOMAIN Charges(price, seats, fee, code) :
              Charges(price, seats, fee, code)[k].code = code /\ ~Charges(price, seats, fee, code)[k].isTax
<1> DEFINE S == ChargesWith(code)
           p == Line(price, code, FALSE)
           s == Line(price * (seats - 1), code, FALSE)
           f == Line(fee, code, FALSE)
           s2 == IF seats > 1 THEN <<s>> ELSE <<>>
           s3 == IF fee > 0 THEN <<f>> ELSE <<>>
           all == Charges(price, seats, fee, code)
<1>1. p \in S /\ f \in S
  BY LineIs DEF ChargesWith
<1>2. s \in S
  <2>1. price * (seats - 1) \in Int
    OBVIOUS
  <2> QED
    BY <2>1, LineIs DEF ChargesWith
<1>3. all = (<<p>> \o s2) \o s3
  BY DEF Charges
<1> HIDE DEF p, s, f, S, all
<1>4. <<p>> \in Seq(S) /\ Len(<<p>>) = 1
  BY <1>1
<1>5. s2 \in Seq(S) /\ s3 \in Seq(S)
  <2>1. <<s>> \in Seq(S) /\ <<f>> \in Seq(S) /\ <<>> \in Seq(S)
    BY <1>1, <1>2, EmptySeq
  <2> QED
    BY <2>1
<1> HIDE DEF s2, s3
<1>6. <<p>> \o s2 \in Seq(S) /\ Len(<<p>> \o s2) = 1 + Len(s2) /\ Len(s2) \in Nat /\ Len(s3) \in Nat
  BY <1>4, <1>5, ConcatProperties, LenProperties
<1>7. all \in Seq(S) /\ Len(all) = (1 + Len(s2)) + Len(s3)
  BY <1>3, <1>5, <1>6, ConcatProperties
<1>8. DOMAIN all = 1..Len(all) /\ Len(all) \in Nat \ {0} /\ \A k \in DOMAIN all : all[k] \in S
  BY <1>6, <1>7, LenProperties
<1>9. \A k \in DOMAIN all : all[k] \in LineType /\ all[k].code = code /\ ~all[k].isTax
  BY <1>8 DEF S, ChargesWith
<1>10. all \in Seq(LineType)
  <2>1. S \subseteq LineType
    BY DEF S, ChargesWith
  <2> QED
    BY <1>7, <2>1, SeqMonotonic
<1> QED
  BY <1>8, <1>9, <1>10 DEF all

\* What generate_invoice taxes of one charge.
FirstTax(c, l) == IF l.code = c /\ ~l.isTax THEN ComputeTax(l) ELSE 0

LEMMA FirstFits ==
  ASSUME NEW c \in Code, NEW l \in LineType
  PROVE  /\ FirstTax(c, l) \in Int
         /\ Fits(FirstTax(c, l), ChargeOf(c)[l], OneOf(c)[l], Rate[c], 1)
<1>1. CASE l.code = c /\ ~l.isTax
  <2>1. FirstTax(c, l) = ComputeTax(l) /\ ChargeOf(c)[l] = l.amount /\ OneOf(c)[l] = 1
    BY <1>1, LineAdds DEF FirstTax
  <2>2. ComputeTax(l) \in Int /\ Fits(ComputeTax(l), l.amount, 1, Rate[c], 1)
    BY <1>1, OneTaxFits
  <2> QED
    BY <2>1, <2>2
<1>2. CASE ~(l.code = c /\ ~l.isTax)
  <2>1. FirstTax(c, l) = 0
    BY <1>2 DEF FirstTax
  <2>2. ChargeOf(c)[l] = 0 /\ OneOf(c)[l] = 0
    BY <1>2, LineAdds, AddsAre
  <2>3. Rate[c] \in Int
    BY TaxesAssumption
  <2>4. Fits(0, 0, 0, Rate[c], 1)
    BY <2>3, NothingFits
  <2> QED
    BY <2>1, <2>2, <2>4
<1> QED
  BY <1>1, <1>2

LEMMA TaxLineAdds ==
  ASSUME NEW l \in LineType
  PROVE  /\ TaxLine(l) \in Seq(LineType)
         /\ \A c \in Code : /\ SeqSum(TaxOf(c), TaxLine(l)) = FirstTax(c, l)
                            /\ SeqSum(ChargeOf(c), TaxLine(l)) = 0
                            /\ SeqSum(OneOf(c), TaxLine(l)) = 0
<1> DEFINE t == Line(ComputeTax(l), l.code, TRUE)
<1>1. TaxLine(l) = IF Taxable(l) /\ ComputeTax(l) # 0 THEN <<t>> ELSE <<>>
  BY DEF TaxLine
<1>2. CASE Taxable(l) /\ ComputeTax(l) # 0
  <2>1. TaxLine(l) = <<t>> /\ l.code \in Code /\ ~l.isTax
    BY <1>1, <1>2 DEF Taxable
  <2>2. ComputeTax(l) \in Int
    BY <2>1, OneTaxFits
  <2>3. t \in LineType /\ t.amount = ComputeTax(l) /\ t.code = l.code /\ t.isTax = TRUE
    BY <2>1, <2>2, LineIs
  <2> HIDE DEF t
  <2>4. ASSUME NEW c \in Code
        PROVE  /\ SeqSum(TaxOf(c), TaxLine(l)) = FirstTax(c, l)
               /\ SeqSum(ChargeOf(c), TaxLine(l)) = 0
               /\ SeqSum(OneOf(c), TaxLine(l)) = 0
    <3>1. TaxOf(c)[t] = FirstTax(c, l) /\ ChargeOf(c)[t] = 0 /\ OneOf(c)[t] = 0
      <4>1. CASE l.code = c
        BY <2>1, <2>3, <4>1, LineAdds DEF FirstTax
      <4>2. CASE l.code # c
        BY <2>3, <4>2, LineAdds DEF FirstTax
      <4> QED
        BY <4>1, <4>2
    <3>2. /\ SeqSum(TaxOf(c), <<t>>) = TaxOf(c)[t] /\ SeqSum(ChargeOf(c), <<t>>) = ChargeOf(c)[t]
          /\ SeqSum(OneOf(c), <<t>>) = OneOf(c)[t]
      BY <2>3, SumsOfOneLine
    <3> QED
      BY <2>1, <3>1, <3>2
  <2>5. TaxLine(l) \in Seq(LineType)
    BY <2>1, <2>3, SumsOfOneLine
  <2> QED
    BY <2>4, <2>5
<1>3. CASE ~(Taxable(l) /\ ComputeTax(l) # 0)
  <2>1. TaxLine(l) = <<>>
    BY <1>1, <1>3
  <2>2. ASSUME NEW c \in Code PROVE FirstTax(c, l) = 0
    BY <1>3 DEF FirstTax, Taxable
  <2> QED
    BY <2>1, <2>2, SeqSumEmpty, EmptySeq
<1> QED
  BY <1>2, <1>3

LEMMA GenerateStep ==
  ASSUME TaxesInv,
         NEW price \in BasePrice, NEW seats \in 1..3, NEW fee \in SetupFee, NEW code \in Code \cup {NoCode},
         Generate(price, seats, fee, code)
  PROVE  TaxesInv'
<1> DEFINE charges == Charges(price, seats, fee, code)
           n == Len(charges)
           seqs == [k \in DOMAIN charges |-> TaxLine(charges[k])]
           taxes == FlattenSeq(seqs)
<1>1. /\ lines' = charges \o taxes
      /\ standing' = [c \in Code |-> IF c = code THEN 1 ELSE 0]
      /\ taxings' = taxings /\ credits' = credits
      /\ taxings \in 0..MaxTaxings /\ credits \in 0..MaxTaxings
  BY DEF TaxesInv, Generate
<1>2. /\ charges \in Seq(LineType) /\ n \in Nat \ {0}
      /\ \A k \in DOMAIN charges : charges[k].code = code /\ ~charges[k].isTax
  <2>1. price \in Int /\ fee \in Int
    BY TaxesAssumption
  <2> QED
    BY <2>1, ChargesAre
<1> HIDE DEF charges
<1>3. DOMAIN charges = 1..n /\ \A k \in 1..n : charges[k] \in LineType
  BY <1>2, SumsOfLines
<1>4. Len(seqs) = n /\ DOMAIN seqs = 1..n /\ \A k \in 1..n : seqs[k] = TaxLine(charges[k])
  BY <1>2, <1>3
<1> HIDE DEF n, seqs
<1>5. Lists(seqs, LineType)
  BY <1>2, <1>3, <1>4, TaxLineAdds DEF Lists
<1>6. taxes \in Seq(LineType)
  BY <1>5, FlattenIsSeq
<1>7. ASSUME NEW c \in Code PROVE Settled(c)'
  <2> DEFINE x == [k \in 1..n |-> FirstTax(c, charges[k])]
             none == [k \in 1..n |-> 0]
             X == SumFunctionOnSet(x, 1..n)
             A == SeqSum(ChargeOf(c), charges)
             N == SeqSum(OneOf(c), charges)
  <2>1. \A l \in LineType : TaxOf(c)[l] \in Int /\ ChargeOf(c)[l] \in Int /\ OneOf(c)[l] \in Int
    BY AddsAre
  <2>2. \A k \in 1..n : /\ x[k] = FirstTax(c, charges[k]) /\ x[k] \in Int
                        /\ Fits(x[k], ChargeOf(c)[charges[k]], OneOf(c)[charges[k]], Rate[c], 1)
    BY <1>3, FirstFits
  <2>3. \A k \in 1..n : none[k] = 0 /\ none[k] \in Int
    OBVIOUS
  <2> HIDE DEF x, none
  <2>4. \A k \in 1..n : /\ x[k] = SeqSum(TaxOf(c), seqs[k])
                        /\ none[k] = SeqSum(ChargeOf(c), seqs[k])
                        /\ none[k] = SeqSum(OneOf(c), seqs[k])
    BY <1>3, <1>4, <2>2, <2>3, TaxLineAdds
  <2>5. SeqSum(TaxOf(c), taxes) = X
    <3>1. \A l \in LineType : TaxOf(c)[l] \in Int
      BY <2>1
    <3>2. SeqSum(TaxOf(c), FlattenSeq(seqs)) = SumOfSums(TaxOf(c), seqs)
      BY <1>5, <3>1, SeqSumFlatten
    <3> DEFINE I == 1..n
    <3>3. IsFiniteSet(I) /\ DOMAIN seqs = I
      BY <1>2, <1>4, FS_Interval
    <3>4. \A k \in I : x[k] \in Int /\ x[k] = SeqSum(TaxOf(c), seqs[k])
      BY <2>2, <2>3, <2>4
    <3> HIDE DEF I
    <3>5. SumOfSums(TaxOf(c), seqs) = SumFunctionOnSet(x, I)
      BY <3>3, <3>4, SumsOfSums
    <3> QED
      BY <3>2, <3>5 DEF I, X
  <2>6. SeqSum(ChargeOf(c), taxes) = SumFunctionOnSet(none, 1..n)
    <3>1. \A l \in LineType : ChargeOf(c)[l] \in Int
      BY <2>1
    <3>2. SeqSum(ChargeOf(c), FlattenSeq(seqs)) = SumOfSums(ChargeOf(c), seqs)
      BY <1>5, <3>1, SeqSumFlatten
    <3> DEFINE I == 1..n
    <3>3. IsFiniteSet(I) /\ DOMAIN seqs = I
      BY <1>2, <1>4, FS_Interval
    <3>4. \A k \in I : none[k] \in Int /\ none[k] = SeqSum(ChargeOf(c), seqs[k])
      BY <2>2, <2>3, <2>4
    <3> HIDE DEF I
    <3>5. SumOfSums(ChargeOf(c), seqs) = SumFunctionOnSet(none, I)
      BY <3>3, <3>4, SumsOfSums
    <3> QED
      BY <3>2, <3>5 DEF I
  <2>7. SeqSum(OneOf(c), taxes) = SumFunctionOnSet(none, 1..n)
    <3>1. \A l \in LineType : OneOf(c)[l] \in Int
      BY <2>1
    <3>2. SeqSum(OneOf(c), FlattenSeq(seqs)) = SumOfSums(OneOf(c), seqs)
      BY <1>5, <3>1, SeqSumFlatten
    <3> DEFINE I == 1..n
    <3>3. IsFiniteSet(I) /\ DOMAIN seqs = I
      BY <1>2, <1>4, FS_Interval
    <3>4. \A k \in I : none[k] \in Int /\ none[k] = SeqSum(OneOf(c), seqs[k])
      BY <2>2, <2>3, <2>4
    <3> HIDE DEF I
    <3>5. SumOfSums(OneOf(c), seqs) = SumFunctionOnSet(none, I)
      BY <3>3, <3>4, SumsOfSums
    <3> QED
      BY <3>2, <3>5 DEF I
  <2>8. SumFunctionOnSet(none, 1..n) = 0
    <3> DEFINE I == 1..n
    <3>1. IsFiniteSet(I) /\ \A k \in I : none[k] = 0
      BY <1>2, <2>3, FS_Interval
    <3> HIDE DEF I
    <3>2. SumFunctionOnSet(none, I) = 0
      BY <3>1, SumZero
    <3> QED
      BY <3>2 DEF I
  <2>9. SeqSum(TaxOf(c), charges) = 0
    <3>1. \A k \in DOMAIN charges : TaxOf(c)[charges[k]] = 0
      BY <1>2, <1>3 DEF TaxOf
    <3> QED
      BY <1>2, <3>1, SumsAreZero
  <2>10. X \in Int /\ Fits(X, A, N, Rate[c], 1)
    BY <1>2, <1>3, <2>2, AllTaxed
  <2>11. A \in Int /\ N \in Int
    BY <1>2, SumsOfLines
  <2>12. /\ SeqSum(TaxOf(c), charges \o taxes) = 0 + X
         /\ SeqSum(ChargeOf(c), charges \o taxes) = A + 0
         /\ SeqSum(OneOf(c), charges \o taxes) = N + 0
    <3> HIDE DEF taxes, X, A, N
    <3>1. /\ SeqSum(TaxOf(c), charges \o taxes) = SeqSum(TaxOf(c), charges) + SeqSum(TaxOf(c), taxes)
          /\ SeqSum(ChargeOf(c), charges \o taxes) = SeqSum(ChargeOf(c), charges) + SeqSum(ChargeOf(c), taxes)
          /\ SeqSum(OneOf(c), charges \o taxes) = SeqSum(OneOf(c), charges) + SeqSum(OneOf(c), taxes)
      BY <1>2, <1>6, SumsOfBoth
    <3> QED
      BY <2>5, <2>6, <2>7, <2>8, <2>9, <3>1 DEF A, N
  <2> HIDE DEF taxes, X, A, N
  <2>13. /\ SeqSum(TaxOf(c), lines') = X
         /\ SeqSum(ChargeOf(c), lines') = A
         /\ SeqSum(OneOf(c), lines') = N
    BY <1>1, <2>10, <2>11, <2>12
  <2>14. Rate[c] \in Int
    BY TaxesAssumption
  <2>15. Fits(X, A, N, Rate[c], standing'[c])
    <3>1. CASE c = code
      BY <1>1, <2>10, <3>1
    <3>2. CASE c # code
      <4>1. \A k \in DOMAIN charges : x[k] = 0 /\ ChargeOf(c)[charges[k]] = 0 /\ OneOf(c)[charges[k]] = 0
        BY <1>2, <1>3, <2>2, <3>2, LineAdds DEF FirstTax
      <4>2. A = 0
        BY <1>2, <4>1, SumsAreZero DEF A
      <4>3. N = 0
        BY <1>2, <4>1, SumsAreZero DEF N
      <4>4. X = 0
        <5> DEFINE I == 1..n
        <5>1. IsFiniteSet(I)
          BY <1>2, FS_Interval
        <5>2. \A k \in I : x[k] = 0
          BY <1>3, <4>1
        <5> HIDE DEF I
        <5>3. SumFunctionOnSet(x, I) = 0
          BY <5>1, <5>2, SumZero
        <5> QED
          BY <5>3 DEF I, X
      <4>5. standing'[c] = 0
        BY <1>1, <3>2
      <4>6. Fits(0, 0, 0, Rate[c], 0)
        BY <2>14, NothingFits
      <4> QED
        BY <4>2, <4>3, <4>4, <4>5, <4>6
    <3> QED
      BY <3>1, <3>2
  <2>16. Fits(SeqSum(TaxOf(c), lines'), SeqSum(ChargeOf(c), lines'), SeqSum(OneOf(c), lines'), Rate[c], standing'[c])
    BY <2>13, <2>15
  <2> QED
    BY <2>16 DEF Settled
<1>8. standing' \in [Code -> Nat]
  BY <1>1
<1>9. lines' \in Seq(LineType)
  <2> HIDE DEF taxes
  <2> QED
    BY <1>1, <1>2, <1>6, SumsOfBoth
<1> QED
  BY <1>1, <1>7, <1>8, <1>9 DEF TaxesInv

LEMMA TaxesStep ==
  ASSUME TaxesInv, TaxesNext
  PROVE  TaxesInv'
<1>1. ASSUME NEW price \in BasePrice, NEW seats \in 1..3, NEW fee \in SetupFee, NEW code \in Code \cup {NoCode},
             Generate(price, seats, fee, code)
      PROVE  TaxesInv'
  BY <1>1, GenerateStep
<1>2. CASE CalculateTax
  BY <1>2, CalculateTaxStep
<1>3. CASE ApplyExemption
  BY <1>3, ApplyExemptionStep
<1>4. ASSUME NEW amount \in BasePrice, Adjust(amount)
      PROVE  TaxesInv'
  BY <1>4, AdjustStep
<1> QED
  BY <1>1, <1>2, <1>3, <1>4 DEF TaxesNext

LEMMA TaxesKept ==
  ASSUME TaxesInv, UNCHANGED taxesVars
  PROVE  TaxesInv'
BY DEF TaxesInv, taxesVars, Settled

\* A sum over some places is one over all of them with nothing at the others.
LEMMA SumOfPart ==
  ASSUME NEW D, IsFiniteSet(D), NEW T \in SUBSET D, NEW f, NEW g,
         \A k \in T : f[k] \in Int /\ g[k] = f[k], \A k \in D \ T : g[k] = 0
  PROVE  SumFunctionOnSet(g, D) = SumFunctionOnSet(f, T)
<1>1. IsFiniteSet(T) /\ IsFiniteSet(D \ T) /\ T \cap (D \ T) = {} /\ D = T \cup (D \ T)
  BY FS_Subset
<1> DEFINE R == D \ T
<1>2. IsFiniteSet(R) /\ T \cap R = {} /\ D = T \cup R /\ \A k \in R : g[k] = 0 /\ g[k] \in Int
  BY <1>1
<1>3. \A k \in T : g[k] \in Int /\ f[k] \in Int /\ f[k] = g[k]
  OBVIOUS
<1> HIDE DEF R
<1>4. SumFunctionOnSet(g, T \cup R) = SumFunctionOnSet(g, T) + SumFunctionOnSet(g, R)
  BY <1>1, <1>2, <1>3, SumDisjoint
<1>5. SumFunctionOnSet(g, R) = 0
  BY <1>2, SumZero
<1>6. SumFunctionOnSet(f, T) = SumFunctionOnSet(g, T)
  BY <1>1, <1>3, SumEqual
<1>7. SumFunctionOnSet(g, T) \in Int
  BY <1>1, <1>3, SumType
<1> QED
  BY <1>2, <1>4, <1>5, <1>6, <1>7

\* The taxes, the charges and their number of a code, over the whole invoice.
LEMMA SummaryIs ==
  ASSUME lines \in Seq(LineType), NEW c
  PROVE  /\ Summary(c) = SeqSum(TaxOf(c), lines)
         /\ Amount({k \in OfCode(c) : ~lines[k].isTax}) = SeqSum(ChargeOf(c), lines)
         /\ Cardinality({k \in OfCode(c) : ~lines[k].isTax}) = SeqSum(OneOf(c), lines)
<1> DEFINE D == DOMAIN lines
           taxes == {k \in OfCode(c) : lines[k].isTax}
           charges == {k \in OfCode(c) : ~lines[k].isTax}
           t == [k \in D |-> TaxOf(c)[lines[k]]]
           a == [k \in D |-> ChargeOf(c)[lines[k]]]
           n == [k \in D |-> OneOf(c)[lines[k]]]
           f == [k \in taxes |-> lines[k].amount]
           g == [k \in charges |-> lines[k].amount]
<1>1. IsFiniteSet(D) /\ \A k \in D : lines[k] \in LineType
  BY SumsOfLines
<1>2. taxes \in SUBSET D /\ charges \in SUBSET D
  BY DEF OfCode
<1>3. \A k \in D : /\ lines[k].amount \in Int
                   /\ k \in taxes <=> lines[k].code = c /\ lines[k].isTax
                   /\ k \in charges <=> lines[k].code = c /\ ~lines[k].isTax
                   /\ t[k] = TaxOf(c)[lines[k]] /\ a[k] = ChargeOf(c)[lines[k]] /\ n[k] = OneOf(c)[lines[k]]
  BY <1>1 DEF OfCode, LineType
<1>4. (\A k \in taxes : f[k] = lines[k].amount) /\ \A k \in charges : g[k] = lines[k].amount
  OBVIOUS
<1>5. /\ SeqSum(TaxOf(c), lines) = SumFunctionOnSet(t, D)
      /\ SeqSum(ChargeOf(c), lines) = SumFunctionOnSet(a, D)
      /\ SeqSum(OneOf(c), lines) = SumFunctionOnSet(n, D)
  BY DEF SeqSum
<1>6. Summary(c) = SumFunctionOnSet(f, taxes) /\ Amount(charges) = SumFunctionOnSet(g, charges)
  BY Zenon DEF Summary, Amount, Total, SumFunction
<1> HIDE DEF D, taxes, charges, t, a, n, f, g
<1>7. /\ \A k \in taxes : f[k] \in Int /\ t[k] = f[k]
      /\ \A k \in D \ taxes : t[k] = 0
  BY <1>1, <1>2, <1>3, <1>4 DEF TaxOf
<1>8. /\ \A k \in charges : g[k] \in Int /\ a[k] = g[k]
      /\ \A k \in D \ charges : a[k] = 0
  BY <1>1, <1>2, <1>3, <1>4 DEF ChargeOf
<1>9. /\ \A k \in charges : n[k] = 1
      /\ \A k \in D \ charges : n[k] = 0
  BY <1>1, <1>2, <1>3 DEF OneOf
<1>10. SumFunctionOnSet(t, D) = SumFunctionOnSet(f, taxes)
  BY <1>1, <1>2, <1>7, SumOfPart
<1>11. SumFunctionOnSet(a, D) = SumFunctionOnSet(g, charges)
  BY <1>1, <1>2, <1>8, SumOfPart
<1>12. SumFunctionOnSet(n, D) = 1 * Cardinality(charges)
  BY <1>1, <1>2, <1>9, SumIndicator
<1>13. Cardinality(charges) \in Nat
  BY <1>1, <1>2, FS_Subset, FS_CardinalityType
<1> QED
  BY <1>5, <1>6, <1>10, <1>11, <1>12, <1>13 DEF charges

\* Fitting taxes are as far from the exact ones as half a cent for each charge and time.
LEMMA FitsIs ==
  ASSUME NEW T \in Int, NEW A \in Int, NEW N \in Int, NEW rate \in Int, NEW times \in Nat,
         Fits(T, A, N, rate, times)
  PROVE  2 * Magnitude(RateUnit * T - times * rate * A) <= RateUnit * times * N
<1> DEFINE U == RateUnit
           s == U * T
           p == times * (rate * A)
           n == U * (times * N)
<1>1. U \in Int
  BY TaxesAssumption
<1>2. Nearly(2 * s, 2 * p, n)
  BY DEF Fits
<1> HIDE DEF U
<1>3. s \in Int /\ p \in Int /\ n \in Int /\ times * rate * A = p /\ U * times * N = n
  BY <1>1
<1> HIDE DEF s, p, n
<1>4. 2 * Magnitude(s - p) <= n
  BY <1>2, <1>3, MagnitudeIs DEF Nearly
<1> QED
  BY <1>3, <1>4 DEF U, s

\* The taxes of an invoice are their rate of its charges for each time these were taxed
\* since an exemption, up to half a cent for each, for any codes, rates, prices and fees,
\* and for calls of calculate_tax, apply_exemption and apply_adjustment in any order.
THEOREM TaxesAlwaysSettle == Spec => []TaxesSettle
<1>1. Init => TaxesInv
  BY TaxesBegin DEF Init
<1>2. TaxesInv /\ [Next]_vars => TaxesInv'
  BY TaxesStep, TaxesKept DEF Next, vars
<1>3. TaxesInv => TaxesSettle
  <2> SUFFICES ASSUME TaxesInv, NEW c \in Code
               PROVE  LET charges == {k \in OfCode(c) : ~lines[k].isTax}
                          exact == standing[c] * Rate[c] * Amount(charges)
                      IN 2 * Magnitude(RateUnit * Summary(c) - exact) <= RateUnit * standing[c] * Cardinality(charges)
    BY DEF TaxesSettle
  <2> DEFINE charges == {k \in OfCode(c) : ~lines[k].isTax}
             T == SeqSum(TaxOf(c), lines)
             A == SeqSum(ChargeOf(c), lines)
             N == SeqSum(OneOf(c), lines)
             times == standing[c]
             rate == Rate[c]
  <2>1. lines \in Seq(LineType) /\ times \in Nat /\ rate \in Int /\ Fits(T, A, N, rate, times)
    BY TaxesAssumption DEF TaxesInv, Settled
  <2>2. T \in Int /\ A \in Int /\ N \in Int
    BY <2>1, SumsOfLines
  <2>3. Summary(c) = T /\ Amount(charges) = A /\ Cardinality(charges) = N
    BY <2>1, SummaryIs
  <2> HIDE DEF charges, T, A, N, times, rate
  <2>4. 2 * Magnitude(RateUnit * T - times * rate * A) <= RateUnit * times * N
    BY <2>1, <2>2, FitsIs
  <2> QED
    BY <2>3, <2>4 DEF charges, times, rate
<1> QED
  BY <1>1, <1>2, <1>3, PTL DEF Spec

(***************************************************************************)
(* Types                                                                   *)
(***************************************************************************)

\* What the desks' types need beside the invariants above.
BoundsInv ==
  /\ desk \in Desk
  /\ anchor \in FirstDay /\ number \in 0..MaxPeriods
  /\ aged >= -1 /\ fresh \subseteq Held(list)
  /\ published \in 0..MaxQuotes

LEMMA BoundsBegin ==
  ASSUME Init
  PROVE  BoundsInv
<1>1. anchor \in FirstDay /\ number = 0 /\ MaxPeriods \in Nat
  BY PeriodsAssumption DEF Init, Choice, PeriodsInit
<1>2. aged = -1 /\ fresh = {}
  BY DEF Init, ReceivablesInit
<1>3. published = 0 /\ MaxQuotes \in Nat
  BY ExchangeAssumption DEF Init, ExchangeInit
<1>4. desk \in Desk
  BY DEF Init
<1>5. number \in 0..MaxPeriods /\ published \in 0..MaxQuotes /\ aged >= -1
  BY <1>1, <1>2, <1>3
<1>6. fresh \subseteq Held(list)
  BY <1>2
<1> QED
  BY <1>1, <1>4, <1>5, <1>6 DEF BoundsInv

\* The AgingJob changes no invoice into none, and counts only those it holds.
LEMMA FreshAreHeld ==
  ASSUME ReceivablesInv, ReceivablesNext, aged >= -1, fresh \subseteq Held(list)
  PROVE  aged' >= -1 /\ fresh' \subseteq Held(list)'
<1>1. ASSUME NEW i \in InvoiceId, NEW amount \in Charge, NEW term \in Term, Issue(i, amount, term)
      PROVE  aged' >= -1 /\ fresh' \subseteq Held(list)'
  BY <1>1 DEF Issue, Held
<1>2. ASSUME NEW i \in InvoiceId, NEW status \in {"PARTIALLY_PAID", "PAID"}, Move(i, status)
      PROVE  aged' >= -1 /\ fresh' \subseteq Held(list)'
  BY <1>2 DEF Move, Held
<1>3. ASSUME NEW days \in Pass, DaysPass(days)
      PROVE  aged' >= -1 /\ fresh' \subseteq Held(list)'
  BY <1>3 DEF DaysPass, Held
<1>4. ASSUME Configure
      PROVE  aged' >= -1 /\ fresh' \subseteq Held(list)'
  BY <1>4 DEF Configure, Held, WithStatus
<1>5. ASSUME RunScheduled
      PROVE  aged' >= -1 /\ fresh' \subseteq Held(list)'
  <2>1. /\ list' = Overdue(list, Transitions(list)) /\ aged' = today
        /\ fresh' = fresh \ Transitions(list)
    BY <1>5 DEF RunScheduled
  <2>2. \A i \in Held(list) : i \in InvoiceId /\ list'[i] # Absent
    <3> TAKE i \in Held(list)
    <3>1. i \in InvoiceId /\ list[i] # Absent /\ list[i] \in InvoiceRecord
      BY DEF Held, ReceivablesInv
    <3>2. [list[i] EXCEPT !.status = "OVERDUE"] \in InvoiceRecord
      BY <3>1 DEF InvoiceRecord
    <3>3. list'[i] = [list[i] EXCEPT !.status = "OVERDUE"] \/ list'[i] = list[i]
      BY <2>1, <3>1 DEF Overdue
    <3> QED
      BY <3>1, <3>2, <3>3, ReceivablesAssumption
  <2>3. today \in Nat
    BY DEF ReceivablesInv
  <2>4. fresh' \subseteq Held(list)'
    BY <2>1, <2>2 DEF Held
  <2> QED
    BY <2>1, <2>3, <2>4
<1>6. ASSUME RunAndStore
      PROVE  aged' >= -1 /\ fresh' \subseteq Held(list)'
  BY <1>6 DEF RunAndStore, Held
<1> QED
  BY <1>1, <1>2, <1>3, <1>4, <1>5, <1>6 DEF ReceivablesNext

LEMMA BoundsStep ==
  ASSUME BoundsInv, ReceivablesInv, [Next]_vars
  PROVE  BoundsInv'
<1>1. desk' = desk
  BY DEF Next, vars, Works
<1>2. anchor' \in FirstDay /\ number' \in 0..MaxPeriods
  <2>1. CASE UNCHANGED periodVars
    BY <2>1 DEF periodVars, BoundsInv
  <2>2. CASE PeriodsNext
    BY <2>2, PeriodsAssumption DEF PeriodsNext, BoundsInv
  <2> QED
    BY <2>1, <2>2 DEF Next, vars
<1>3. aged' >= -1 /\ fresh' \subseteq Held(list)'
  <2>1. CASE UNCHANGED receivablesVars
    BY <2>1 DEF receivablesVars, BoundsInv, Held
  <2>2. CASE ReceivablesNext
    BY <2>2, FreshAreHeld DEF BoundsInv
  <2> QED
    BY <2>1, <2>2 DEF Next, vars
<1>4. published' \in 0..MaxQuotes
  <2>1. CASE UNCHANGED exchangeVars
    BY <2>1 DEF exchangeVars, BoundsInv
  <2>2. CASE ExchangeNext
    BY <2>2, ExchangeAssumption DEF ExchangeNext, Publish, UpdateRates, BoundsInv
  <2> QED
    BY <2>1, <2>2 DEF Next, vars
<1> QED
  BY <1>1, <1>2, <1>3, <1>4 DEF BoundsInv

\* All desks at once: what each theorem above keeps of its own.
DesksInv ==
  /\ RevenueInv /\ PeriodsInv /\ ReceivablesInv /\ ReconciliationInv
  /\ ExchangeInv /\ TaxesInv /\ QueriesInv

LEMMA DesksBegin ==
  ASSUME Init
  PROVE  DesksInv
<1>1. ReconciliationInv
  BY ReconciliationBegin, ReconciliationAssumption DEF Init, Choice
<1>2. ReceivablesInv
  BY ReceivablesBegin DEF Init
<1>3. ExchangeInv /\ TaxesInv
  BY ExchangeBegins, TaxesBegin DEF Init
<1> QED
  BY <1>1, <1>2, <1>3, RevenueBegins, PeriodsBegin, QueriesBegin DEF DesksInv

LEMMA DesksStep ==
  ASSUME DesksInv, [Next]_vars
  PROVE  DesksInv'
<1>1. RevenueInv'
  <2>1. CASE UNCHANGED revenueVars
    BY <2>1 DEF DesksInv, revenueVars, RevenueInv, Obligation
  <2>2. CASE RevenueNext
    <3>1. PICK day : IsDate(day) /\ day.month \in FirstMonth..LastMonth /\ ClosePeriod(day)
      BY <2>2, ClosingDay
    <3> QED
      BY <3>1, PeriodClosed DEF DesksInv
  <2> QED
    BY <2>1, <2>2 DEF Next, vars
<1>2. PeriodsInv'
  <2>1. CASE UNCHANGED periodVars
    BY <2>1 DEF DesksInv, periodVars, PeriodsInv, Promised
  <2> QED
    BY <2>1, PeriodsStep DEF DesksInv, Next, vars
<1>3. ReceivablesInv'
  BY ReceivablesStep, ReceivablesKept DEF DesksInv, Next, vars
<1>4. ReconciliationInv'
  <2>1. CASE UNCHANGED reconciliationVars
    BY <2>1 DEF DesksInv, reconciliationVars, ReconciliationInv, Pairs, Near, Distance
  <2> QED
    BY <2>1, ClaimStep DEF DesksInv, Next, vars
<1>5. ExchangeInv'
  <2>1. CASE UNCHANGED exchangeVars
    BY <2>1 DEF DesksInv, exchangeVars, ExchangeInv
  <2> QED
    BY <2>1, ExchangeStep DEF DesksInv, Next, vars
<1>6. TaxesInv'
  BY TaxesStep, TaxesKept DEF DesksInv, Next, vars
<1>7. QueriesInv'
  <2>1. CASE UNCHANGED queriesVars
    BY <2>1 DEF DesksInv, queriesVars, QueriesInv, Values, Stored
  <2> QED
    BY <2>1, QueriesStep DEF DesksInv, Next, vars
<1> QED
  BY <1>1, <1>2, <1>3, <1>4, <1>5, <1>6, <1>7 DEF DesksInv

\* Every desk's state has the values it should, for any constants.
THEOREM AlwaysTyped == Spec => []TypeOK
<1> DEFINE Inv == DesksInv /\ BoundsInv
<1>1. Init => Inv
  BY DesksBegin, BoundsBegin
<1>2. Inv /\ [Next]_vars => Inv'
  <2>1. DesksInv => ReceivablesInv
    BY DEF DesksInv
  <2> QED
    BY <2>1, DesksStep, BoundsStep
<1>3. Inv => TypeOK
  <2> SUFFICES ASSUME Inv PROVE TypeOK
    OBVIOUS
  <2>1. RevenueTypeOK
    <3>1. /\ contract \in Contract /\ IsDate(closed) /\ closed.month \in FirstMonth - 1..LastMonth
          /\ recognized \in [DOMAIN contract.obligations -> Nat] /\ balance \in Int /\ whole \in BOOLEAN
      BY DEF DesksInv, RevenueInv
    <3>2. \A k \in DOMAIN recognized : recognized[k] \in Nat
      BY <3>1
    <3> QED
      BY <3>1, <3>2 DEF RevenueTypeOK, IsDate
  <2>2. PeriodsTypeOK
    <3>1. start.day \in 1..Length(start.month)
      <4>1. /\ start \in [month : Int, day : Int] /\ anchor \in [month : Int, day : Int] /\ anchor.day \in 1..31
            /\ start.day <= Length(start.month) /\ (start.day = anchor.day \/ start.day >= 28)
        BY DEF DesksInv, PeriodsInv
      <4>2. Length(start.month) \in 28..31
        BY <4>1, LengthIs
      <4> QED
        BY <4>1, <4>2
    <3> QED
      BY <3>1 DEF PeriodsTypeOK, DesksInv, PeriodsInv, BoundsInv
  <2>3. ReceivablesTypeOK
    <3>1. /\ invoices \in [InvoiceId -> InvoiceRecord \cup {Absent}] /\ list \in [InvoiceId -> InvoiceRecord \cup {Absent}]
          /\ today \in Nat /\ aged \in Int /\ aged <= today
          /\ aged >= -1 /\ fresh \subseteq Held(list)
      BY DEF DesksInv, ReceivablesInv, BoundsInv
    <3>2. aged \in -1..today
      BY <3>1
    <3> QED
      BY <3>1, <3>2 DEF ReceivablesTypeOK
  <2>4. ReconciliationTypeOK
    BY DEF DesksInv, ReconciliationInv, ReconciliationTypeOK
  <2>5. ExchangeTypeOK
    BY DEF DesksInv, ExchangeInv, BoundsInv, ExchangeTypeOK
  <2>6. TaxesTypeOK
    <3>1. lines \in Seq(LineType) /\ taxings \in 0..MaxTaxings /\ credits \in 0..MaxTaxings
      BY DEF DesksInv, TaxesInv
    <3>2. \A k \in DOMAIN lines : lines[k] \in LineType
      BY <3>1, SumsOfLines
    <3> QED
      BY <3>1, <3>2 DEF TaxesTypeOK, LineType
  <2>7. QueriesTypeOK
    <3>1. /\ column \in Column
          /\ memory \in Seq([key : RowKey, value : Values])
          /\ database \in Seq([key : RowKey, value : {Stored(v) : v \in Values}])
      BY DEF DesksInv, QueriesInv
    <3>2. \A k \in DOMAIN memory : memory[k] \in [key : RowKey, value : Values]
      BY <3>1, LenProperties
    <3>3. \A k \in DOMAIN database : database[k] \in [key : RowKey, value : {Stored(v) : v \in Values}]
      BY <3>1, LenProperties
    <3> QED
      BY <3>1, <3>2, <3>3 DEF QueriesTypeOK
  <2> QED
    BY <2>1, <2>2, <2>3, <2>4, <2>5, <2>6, <2>7 DEF TypeOK, BoundsInv
<1> QED
  BY <1>1, <1>2, <1>3, PTL DEF Spec

=============================================================================
