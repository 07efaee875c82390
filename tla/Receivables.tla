---------------------------- MODULE Receivables ----------------------------
(***************************************************************************)
(* The receivables of one customer, day by day: invoices that the billing  *)
(* cycle stores, payments, voids, the AgingJob with the list it was        *)
(* configured with, and the aging report and the ledger over the invoices. *)
(* Nothing asks check_credit before an invoice is stored.                  *)
(***************************************************************************)
EXTENDS Amounts, FiniteSetsExt

CONSTANTS
  Charge,     \* the totals of invoices, of any sign
  Term,       \* days an invoice may leave for its payment
  Pass,       \* days that may pass at once
  Absent,     \* an id without an invoice
  MaxIssued,  \* bound: invoices
  MaxPasses   \* bound: times at which days pass

InvoiceId == 1..MaxIssued

\* What the sums and the jobs look at.
InvoiceRecord ==
  [status : {"OPEN", "OVERDUE", "PARTIALLY_PAID", "PAID"}, total : Charge, issued : Nat, due : Nat]

ASSUME ReceivablesAssumption ==
  /\ Absent \notin InvoiceRecord /\ Term \subseteq Nat /\ Pass \subseteq Nat
  /\ Charge \subseteq Int /\ MaxIssued \in Nat

VARIABLES
  invoices,    \* the invoice repository
  today,
  passes,      \* times at which days have passed
  list,        \* the job's own list: copies of invoices
  aged,        \* the day on which the job ran over that list, or -1
  fresh        \* history: invoices of that list that the job was given as open, and has
               \* not counted as newly overdue since

receivablesVars == <<invoices, today, passes, list, aged, fresh>>

NoInvoices == [i \in InvoiceId |-> Absent]

ReceivablesInit ==
  /\ invoices = NoInvoices /\ list = NoInvoices
  /\ today = 0 /\ passes = 0 /\ aged = -1
  /\ fresh = {}

Held(inv) == {i \in InvoiceId : inv[i] # Absent}

WithStatus(inv, status) == {i \in Held(inv) : inv[i].status \in status}

Totals(inv, ids) == SumFunction([i \in ids |-> inv[i].total])

(***************************************************************************)
(* Charges                                                                 *)
(***************************************************************************)

\* run_billing_cycle stores an open invoice, whatever the customer owes.
Issue(i, amount, term) ==
  /\ invoices[i] = Absent
  /\ \A j \in 1..i - 1 : invoices[j] # Absent
  /\ invoices' = [invoices EXCEPT ![i] =
                    [status |-> "OPEN", total |-> amount, issued |-> today, due |-> today + term]]
  /\ UNCHANGED <<today, passes, list, aged, fresh>>

(***************************************************************************)
(* What else happens to invoices                                           *)
(***************************************************************************)

\* process_payment, by what an allocation covers.  An invoice that is voided is left out
\* of the same sums as one that is paid.
Move(i, status) ==
  /\ i \in WithStatus(invoices, {"OPEN", "OVERDUE", "PARTIALLY_PAID"})
  /\ invoices[i].status # status
  /\ invoices' = [invoices EXCEPT ![i].status = status]
  /\ UNCHANGED <<today, passes, list, aged, fresh>>

DaysPass(days) ==
  /\ passes < MaxPasses
  /\ passes' = passes + 1
  /\ today' = today + days
  /\ UNCHANGED <<invoices, list, aged, fresh>>

(***************************************************************************)
(* AgingJob                                                                *)
(***************************************************************************)

\* configure copies the list; its invoices are values.
Configure ==
  /\ list' = invoices
  /\ aged' = -1
  /\ fresh' = WithStatus(invoices, {"OPEN"})
  /\ list # invoices
  /\ UNCHANGED <<invoices, today, passes>>

DueToday(inv) == inv.due <= today

PastDue(inv) == inv.due < today

Transitions(inv) == {i \in WithStatus(inv, {"OPEN"}) : PastDue(inv[i])}

Overdue(inv, ids) == [i \in InvoiceId |-> IF i \in ids THEN [inv[i] EXCEPT !.status = "OVERDUE"] ELSE inv[i]]

\* The scheduler calls the job, which keeps the updated list for its next run.
RunScheduled ==
  /\ list' = Overdue(list, Transitions(list))
  /\ aged' = today
  /\ fresh' = fresh \ Transitions(list)
  /\ aged # today
  /\ UNCHANGED <<invoices, today, passes>>

\* A program runs the job over the repository's invoices and stores what it returns.
RunAndStore ==
  /\ Transitions(invoices) # {}
  /\ invoices' = Overdue(invoices, Transitions(invoices))
  /\ UNCHANGED <<today, passes, list, aged, fresh>>

ReceivablesNext ==
  \/ \E i \in InvoiceId, amount \in Charge, term \in Term : Issue(i, amount, term)
  \/ \E i \in InvoiceId, status \in {"PARTIALLY_PAID", "PAID"} : Move(i, status)
  \/ \E days \in Pass : DaysPass(days)
  \/ Configure \/ RunScheduled \/ RunAndStore

(***************************************************************************)
(* Reports                                                                 *)
(***************************************************************************)

\* The bucket of the aging report, and of the ledger: 0 is current, 4 more than 90 days.
Bucket(days) ==
  CASE days < 1 -> 0
    [] days \in 1..30 -> 1
    [] days \in 31..60 -> 2
    [] days \in 61..90 -> 3
    [] days > 90 -> 4

\* aging_report: what is not finally settled, by the days past its due date, but an
\* invoice paid in part is left out.
Reportable(inv) == WithStatus(inv, {"OPEN", "DRAFT", "OVERDUE"})

\* What check_credit holds against the customer's limit, with a sum of its own over the
\* statuses it names; no stored invoice is a draft.
Outstanding(inv) == Totals(inv, WithStatus(inv, {"OPEN", "OVERDUE"}))

ReportBucket(inv, i) == Bucket(today - inv[i].due)

LedgerBucketFromTomorrow(inv, i) == Bucket(today - inv[i].issued - 1)

\* customer_ledger has a debit for every invoice, dated when it was issued, whatever its
\* status; aging_buckets classifies those.
LedgerBucket(inv, i) == Bucket(today - inv[i].issued)

LedgerBuckets(inv) ==
  [k \in 0..4 |-> Totals(inv, {i \in Held(inv) : LedgerBucket(inv, i) = k})]

ReportBuckets(inv) ==
  [k \in 0..4 |-> Totals(inv, {i \in Reportable(inv) : ReportBucket(inv, i) = k})]

(***************************************************************************)
(* Properties                                                              *)
(***************************************************************************)

ReceivablesTypeOK ==
  /\ \A inv \in {invoices, list} : \A i \in InvoiceId : inv[i] \in InvoiceRecord \cup {Absent}
  /\ today \in Nat /\ aged \in -1..today
  /\ fresh \subseteq Held(list)

\* On a day the job has run, its list and the aging report have the same idea of late:
\* an open invoice is current in the report, an overdue one in one of its other buckets.
AgingAgrees ==
  aged = today =>
    \A i \in Reportable(list) : (list[i].status = "OVERDUE") = (ReportBucket(list, i) > 0)

\* The job counts an invoice as newly overdue once at most for each list in which it was
\* given it as open, however many days it runs on: what it would count today it has not
\* counted before.  It does not see that an invoice was paid since.
OverdueCountedOnce == Transitions(list) \subseteq fresh

\* From bucket k on, an invoice is in the ledger and not in the report.
OnlyInLedger(k) ==
  {i \in Held(invoices) :
     LedgerBucket(invoices, i) >= k /\ ~(i \in Reportable(invoices) /\ ReportBucket(invoices, i) >= k)}

\* The two agings of a customer add up.  From any bucket on, the ledger has all that the
\* report has; and besides, exactly the invoices that are settled or paid in part, and
\* those that are this old by their issue date but not by their due date.
ReportInLedger ==
  \A k \in 0..4 :
    LET beyond(buckets) == SumFunctionOnSet(buckets, k..4)
    IN beyond(LedgerBuckets(invoices)) = beyond(ReportBuckets(invoices)) + Totals(invoices, OnlyInLedger(k))

\* The credit check and the aging report have one idea of what a customer owes, whatever
\* happened to the invoices: the buckets add up to what the check counts.  Both leave out
\* an invoice that is paid in part, with all of its total.
ReportIsOutstanding == SumFunctionOnSet(ReportBuckets(invoices), 0..4) = Outstanding(invoices)

=============================================================================
