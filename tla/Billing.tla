------------------------------ MODULE Billing ------------------------------
(***************************************************************************)
(* dinarledger.services.billing_service over two MemoryRepository stores,  *)
(* called by concurrent threads.  Every repository call holds the          *)
(* repository's lock, so it is one step; a service method is a sequence of *)
(* such steps with nothing held between them, so the copy of an invoice    *)
(* that was read may be stale when it is written back.                     *)
(*                                                                         *)
(* Amounts are integers in minor units.  The line items of an invoice are  *)
(* abstracted to their total and currency; an invoice whose lines are in   *)
(* several currencies has currency Mixed, and reading its total raises.    *)
(***************************************************************************)
EXTENDS PaymentAllocation, FiniteSets, Functions

CONSTANTS
  Thread,         \* the callers of the service
  Invoice,        \* invoice ids
  Ghost,          \* ids of invoices a caller holds that were never persisted
  Currency,       \* currency codes
  Mixed,          \* the currency of an invoice with lines in several currencies
  NoInvoice,      \* an id the invoice repository does not hold
  NoPayment,      \* a key the payment repository does not hold
  Due,            \* due date of each invoice
  Charge,         \* totals an invoice may be issued with
  PayAmount,      \* amounts of a payment that passes validation
  CreditAmount,   \* amounts of a credit note
  SeedStatus,     \* statuses of the invoices in the repository at the start
  Subscription,   \* the subscription copies run_billing_cycle may be given
  MaxList,        \* bound: invoices per payment, subscriptions per cycle
  MaxCalls        \* bound: calls of the service that change the repositories

OutstandingStatus == {"DRAFT", "OPEN", "OVERDUE", "PARTIALLY_PAID"}
InvoiceStatus == OutstandingStatus \cup {"PAID", "VOIDED"}
AnyCurrency == Currency \cup {Mixed}

InvoiceRecord == [status : InvoiceStatus, total : Int, cur : AnyCurrency]
PaymentRecord == [id : Nat, inv : Invoice, amount : Int, cur : Currency]
ListEntry == [inv : Invoice, total : Int, due : Int, cur : AnyCurrency]
Allocation == [inv : Invoice, amount : Int]
SubscriptionCopy == [status : {"TRIAL", "ACTIVE", "PAST_DUE", "CANCELLED", "EXPIRED"},
                     lapsed : BOOLEAN, seats : Nat, price : Int, cur : Currency]

Paying == [id : Nat, key : Invoice, cur : Currency]
Applied == [id : Nat, key : Invoice, amount : Int]
Bill == [inv : Invoice, sub : Subscription]
Pending == [inv : Invoice, read : InvoiceRecord, write : InvoiceRecord,
            by : {"payment", "void", "credit"}, amount : Int]

ASSUME BillingAssumption ==
  /\ Ghost \subseteq Invoice
  /\ Mixed \notin Currency
  /\ NoInvoice \notin InvoiceRecord \cup Pending
  /\ NoPayment \notin PaymentRecord \cup Paying
  /\ Due \in [Invoice -> Int]
  /\ Charge \subseteq Int /\ PayAmount \subseteq Nat /\ CreditAmount \subseteq Int
  /\ SeedStatus \subseteq {"DRAFT", "OPEN", "OVERDUE"}
  /\ Subscription \subseteq SubscriptionCopy
  /\ MaxList \in Nat /\ MaxCalls \in Nat

VARIABLES
  invoices,   \* the invoice repository: id -> invoice
  payments,   \* the payment repository: key -> payment
  pc,         \* where each thread is in its call
  list,       \* the invoice copies a caller fetched to pay
  paying,     \* the payment being applied: its id, key and currency
  todo,       \* allocations of that payment still to apply
  pending,    \* the invoice read, and what is about to be written over it
  bills,      \* subscriptions a billing cycle has still to invoice
  nextCall,   \* number of the next call, and id of the payment it records (uuid4 in the code)
  applied,    \* history: allocations written to each invoice
  charged,    \* history: the total each invoice was issued with
  credited,   \* history: credit notes accepted for each invoice
  clobbered   \* history: invoices on which a write lost another write

store == <<invoices, payments>>
calls == <<pc, list, paying, todo, pending, bills, nextCall>>
history == <<applied, charged, credited, clobbered>>
vars == <<invoices, payments, pc, list, paying, todo, pending, bills, nextCall,
          applied, charged, credited, clobbered>>

PC == {"idle", "listed", "apply", "write", "cycle"}

Outstanding(i) == invoices[i] # NoInvoice /\ invoices[i].status \in OutstandingStatus

\* Sequences of at most MaxList distinct elements of S.
Lists(S) == {s \in UNION {[1..n -> S] : n \in 1..MaxList} :
               \A j, k \in DOMAIN s : s[j] = s[k] => j = k}

Init ==
  /\ invoices \in [Invoice -> {NoInvoice} \cup
                     [status : SeedStatus, total : Charge, cur : Currency]]
  /\ \A i \in Ghost : invoices[i] = NoInvoice
  /\ payments = [i \in Invoice |-> NoPayment]
  /\ pc = [t \in Thread |-> "idle"]
  /\ list = [t \in Thread |-> <<>>]
  /\ paying = [t \in Thread |-> NoPayment]
  /\ todo = [t \in Thread |-> <<>>]
  /\ pending = [t \in Thread |-> NoInvoice]
  /\ bills = [t \in Thread |-> <<>>]
  /\ nextCall = 1
  /\ applied = [i \in Invoice |-> {}]
  /\ charged = [i \in Invoice |-> IF invoices[i] = NoInvoice THEN 0 ELSE invoices[i].total]
  /\ credited = [i \in Invoice |-> 0]
  /\ clobbered = {}

\* A call the bound still allows; calls that change nothing are not counted.
CountCall == nextCall <= MaxCalls /\ nextCall' = nextCall + 1

(***************************************************************************)
(* run_billing_cycle                                                       *)
(***************************************************************************)

\* generate_invoice returns None for any other subscription.
Billable(sub) == sub.status = "ACTIVE" /\ ~sub.lapsed

\* A line for the plan, one for its further seats and one for each tax on them: price
\* stands for what a seat costs with its taxes.
InvoiceTotal(sub) == sub.price * sub.seats

\* Ids no invoice has and no running cycle will use: uuid4 never repeats one.
FreshIds ==
  {i \in Invoice \ Ghost :
     /\ invoices[i] = NoInvoice
     /\ \A t \in Thread : \A k \in DOMAIN bills[t] : bills[t][k].inv # i}

RunBillingCycle(t) ==
  /\ pc[t] = "idle"
  /\ CountCall
  /\ \E ids \in Lists(FreshIds) : \E subs \in [DOMAIN ids -> Subscription] :
       bills' = [bills EXCEPT ![t] = [k \in DOMAIN ids |-> [inv |-> ids[k], sub |-> subs[k]]]]
  /\ pc' = [pc EXCEPT ![t] = "cycle"]
  /\ UNCHANGED <<store, list, paying, todo, pending, history>>

\* The loop body: an invoice, DRAFT turned OPEN, is added for a billable one.
BillNext(t) ==
  /\ pc[t] = "cycle"
  /\ LET bill == Head(bills[t])
         sub == bill.sub
     IN  IF Billable(sub)
         THEN /\ invoices' = [invoices EXCEPT ![bill.inv] =
                    [status |-> "OPEN", total |-> InvoiceTotal(sub), cur |-> sub.cur]]
              /\ charged' = [charged EXCEPT ![bill.inv] = InvoiceTotal(sub)]
         ELSE UNCHANGED <<invoices, charged>>
  /\ bills' = [bills EXCEPT ![t] = Tail(bills[t])]
  /\ pc' = [pc EXCEPT ![t] = IF Len(bills[t]) = 1 THEN "idle" ELSE "cycle"]
  /\ UNCHANGED <<payments, list, paying, todo, pending, nextCall,
                 applied, credited, clobbered>>

(***************************************************************************)
(* process_payment                                                         *)
(***************************************************************************)

\* What a caller holds of invoice i: the stored copy, or one never persisted.
Copy(i, draft) ==
  LET inv == IF invoices[i] = NoInvoice THEN draft ELSE invoices[i]
  IN  [inv |-> i, total |-> inv.total, due |-> Due[i], cur |-> inv.cur]

\* The caller, not the service, reads the invoices it wants paid.
FetchInvoices(t) ==
  /\ pc[t] = "idle"
  /\ \E ids \in Lists({i \in Invoice : i \in Ghost \/ Outstanding(i)}),
        draft \in [total : Charge, cur : Currency] :
       list' = [list EXCEPT ![t] = [k \in DOMAIN ids |-> Copy(ids[k], draft)]]
  /\ pc' = [pc EXCEPT ![t] = "listed"]
  /\ UNCHANGED <<store, paying, todo, pending, bills, nextCall, history>>

\* A non-positive amount, or a copy whose total cannot be read: nothing is stored.
RejectPayment(t) ==
  /\ pc[t] = "listed"
  /\ list' = [list EXCEPT ![t] = <<>>]
  /\ pc' = [pc EXCEPT ![t] = "idle"]
  /\ UNCHANGED <<store, paying, todo, pending, bills, nextCall, history>>

\* The payment repository files an entity under its first id-like attribute,
\* and Payment.invoice_id comes before Payment.payment_id.
PaymentKey(payment) == payment.inv

KeepFirstPayment(key, payment) ==
  IF payments[key] = NoPayment THEN [payments EXCEPT ![key] = payment] ELSE payments

\* MemoryRepository.add stores the entity whether or not its key is taken.
AddPayment(key, payment) == [payments EXCEPT ![key] = payment]

\* A total in several currencies raises; oldest_first reads only the totals it
\* reaches before the money is spent, highest_first sorts by all of them.
TotalsRead(amount, sorted, strategy) ==
  \A k \in DOMAIN sorted :
    sorted[k].cur = Mixed =>
      strategy = "oldest_first" /\ Remaining(amount, sorted)[k-1] <= 0

\* Validation, allocation over the copies, and payments.add.
RecordPayment(t) ==
  /\ pc[t] = "listed"
  /\ CountCall
  /\ \E amount \in PayAmount, cur \in Currency, strategy \in Strategy :
     \E order \in SortOrders(list[t], strategy) :
       LET payment == [id |-> nextCall, inv |-> list[t][1].inv, amount |-> amount, cur |-> cur]
           key == PaymentKey(payment)
           sorted == Sorted(list[t], order)
       IN  /\ TotalsRead(amount, sorted, strategy)
           /\ payments' = AddPayment(key, payment)
           /\ paying' = [paying EXCEPT ![t] = [id |-> nextCall, key |-> key, cur |-> cur]]
           /\ todo' = [todo EXCEPT ![t] = Allocations(amount, sorted)]
  /\ list' = [list EXCEPT ![t] = <<>>]
  /\ pc' = [pc EXCEPT ![t] = "apply"]
  /\ UNCHANGED <<invoices, pending, bills, history>>

\* The call goes on with the allocations that are left, or returns.
Continue(t, rest) ==
  /\ pc' = [pc EXCEPT ![t] = IF rest = <<>> THEN "idle" ELSE "apply"]
  /\ paying' = [paying EXCEPT ![t] = IF rest = <<>> THEN NoPayment ELSE @]

SkippedIfZero(alloc) == alloc.amount = 0

\* A zero allocation, or one for an invoice the repository does not hold.
Skipped(alloc) == alloc.amount = 0 \/ invoices[alloc.inv] = NoInvoice

SkipAllocation(t) ==
  /\ pc[t] = "apply"
  /\ Skipped(Head(todo[t]))
  /\ todo' = [todo EXCEPT ![t] = Tail(todo[t])]
  /\ Continue(t, Tail(todo[t]))
  /\ UNCHANGED <<store, list, pending, bills, nextCall, history>>

SettlesIfPositive(amount, inv) == amount > 0

Settles(amount, inv) == amount >= inv.total

\* invoices.get, and the status the invoice is to be given.
ReadForPayment(t) ==
  /\ pc[t] = "apply"
  /\ LET alloc == Head(todo[t])
         inv == invoices[alloc.inv]
     IN  /\ ~(alloc.amount = 0 \/ inv = NoInvoice)
         /\ inv.cur = paying[t].cur
         /\ pending' = [pending EXCEPT ![t] =
              [inv |-> alloc.inv, read |-> inv, by |-> "payment", amount |-> alloc.amount,
               write |-> [inv EXCEPT !.status =
                            IF Settles(alloc.amount, inv) THEN "PAID" ELSE "PARTIALLY_PAID"]]]
  /\ todo' = [todo EXCEPT ![t] = Tail(todo[t])]
  /\ pc' = [pc EXCEPT ![t] = "write"]
  /\ UNCHANGED <<store, list, paying, bills, nextCall, history>>

\* Comparing amounts of two currencies raises: the call ends with its payment
\* recorded and the rest of its allocations not applied.
AbortPayment(t) ==
  /\ pc[t] = "apply"
  /\ LET inv == invoices[Head(todo[t]).inv]
     IN  /\ ~(Head(todo[t]).amount = 0 \/ inv = NoInvoice)
         /\ inv.cur # paying[t].cur
  /\ todo' = [todo EXCEPT ![t] = <<>>]
  /\ Continue(t, <<>>)
  /\ UNCHANGED <<store, list, pending, bills, nextCall, history>>

(***************************************************************************)
(* void_invoice and apply_credit_note.  A call that raises InvoiceError    *)
(* changes nothing and is no step.                                         *)
(***************************************************************************)

VoidableUnlessVoided(inv) == inv.status # "VOIDED"

Voidable(inv) == inv.status \notin {"PAID", "VOIDED"}

VoidedAsCancelled(inv) == [inv EXCEPT !.status = "CANCELLED"]

Voided(inv) == [inv EXCEPT !.status = "VOIDED"]

ReadForVoid(t, i) ==
  /\ pc[t] = "idle"
  /\ CountCall
  /\ invoices[i] # NoInvoice
  /\ Voidable(invoices[i])
  /\ pending' = [pending EXCEPT ![t] =
       [inv |-> i, read |-> invoices[i], by |-> "void", amount |-> 0,
        write |-> Voided(invoices[i])]]
  /\ pc' = [pc EXCEPT ![t] = "write"]
  /\ UNCHANGED <<store, list, paying, todo, bills, history>>

Creditable(inv) == inv.status \in {"OPEN", "PARTIALLY_PAID"}

WithCharge(inv, amount, cur) ==
  [status |-> inv.status, total |-> inv.total + amount,
   cur |-> IF inv.cur = cur THEN cur ELSE Mixed]

\* The invoice with one more line, of -amount; the line's currency is not checked.
WithCredit(inv, amount, cur) ==
  [status |-> inv.status, total |-> inv.total - amount,
   cur |-> IF inv.cur = cur THEN cur ELSE Mixed]

ReadForCredit(t, i) ==
  /\ pc[t] = "idle"
  /\ CountCall
  /\ invoices[i] # NoInvoice
  /\ Creditable(invoices[i])
  /\ \E amount \in CreditAmount, cur \in Currency :
       pending' = [pending EXCEPT ![t] =
         [inv |-> i, read |-> invoices[i], by |-> "credit", amount |-> amount,
          write |-> WithCredit(invoices[i], amount, cur)]]
  /\ pc' = [pc EXCEPT ![t] = "write"]
  /\ UNCHANGED <<store, list, paying, todo, bills, history>>

(***************************************************************************)
(* invoices.update, the last step of each of these calls                   *)
(***************************************************************************)

\* Whether writing thread t's pending invoice would overwrite another version
\* than the one it was computed from.
Stale(t) == invoices[pending[t].inv] # pending[t].read

Update(t) ==
  /\ pc[t] = "write"
  /\ LET p == pending[t]
     IN  /\ invoices[p.inv] # NoInvoice
         /\ invoices' = [invoices EXCEPT ![p.inv] = p.write]
         /\ applied' = IF p.by = "payment"
              THEN [applied EXCEPT ![p.inv] = @ \cup
                      {[id |-> paying[t].id, key |-> paying[t].key, amount |-> p.amount]}]
              ELSE applied
         /\ credited' = IF p.by = "credit"
              THEN [credited EXCEPT ![p.inv] = @ + p.amount] ELSE credited
         /\ clobbered' = IF Stale(t) THEN clobbered \cup {p.inv} ELSE clobbered
  /\ Continue(t, todo[t])
  /\ pending' = [pending EXCEPT ![t] = NoInvoice]
  /\ UNCHANGED <<payments, list, todo, bills, nextCall, charged>>

\* The steps of a call already made; the others start one.
InCall(t) ==
  \/ BillNext(t)
  \/ SkipAllocation(t)
  \/ ReadForPayment(t)
  \/ AbortPayment(t)
  \/ Update(t)

Next ==
  \E t \in Thread :
    \/ RunBillingCycle(t)
    \/ FetchInvoices(t)
    \/ RejectPayment(t)
    \/ RecordPayment(t)
    \/ \E i \in Invoice : ReadForVoid(t, i)
    \/ \E i \in Invoice : ReadForCredit(t, i)
    \/ InCall(t)

Spec == Init /\ [][Next]_vars

\* The operating system schedules every thread, and no lock is held between steps.
FairSpec == Spec /\ \A t \in Thread : WF_vars(InCall(t))

(***************************************************************************)
(* Properties                                                              *)
(***************************************************************************)

TypeOK ==
  /\ invoices \in [Invoice -> InvoiceRecord \cup {NoInvoice}]
  /\ payments \in [Invoice -> PaymentRecord \cup {NoPayment}]
  /\ pc \in [Thread -> PC]
  /\ list \in [Thread -> Seq(ListEntry)]
  /\ paying \in [Thread -> Paying \cup {NoPayment}]
  /\ todo \in [Thread -> Seq(Allocation)]
  /\ pending \in [Thread -> Pending \cup {NoInvoice}]
  /\ bills \in [Thread -> Seq(Bill)]
  /\ nextCall \in Nat
  /\ applied \in [Invoice -> SUBSET Applied]
  /\ charged \in [Invoice -> Int]
  /\ credited \in [Invoice -> Int]
  /\ clobbered \in SUBSET Invoice

\* An invoice shown as PAID was settled: one allocation written to it is at least
\* its total.  Threads may overwrite each other's status and credit notes, but no
\* interleaving shows an invoice as PAID that no payment covered.
PaidIsCovered ==
  \A i \in Invoice :
    invoices[i] # NoInvoice /\ invoices[i].status = "PAID"
      => \E a \in applied[i] : a.amount >= invoices[i].total

\* process_payment stores the payment before it touches an invoice, so whatever
\* stops it later an invoice shown as (partly) paid has its payment in the payment
\* repository, or a later payment filed under the same key.
PaymentBeforeStatus ==
  \A i \in Invoice :
    invoices[i] # NoInvoice /\ invoices[i].status \in {"PAID", "PARTIALLY_PAID"}
      => /\ applied[i] # {}
         /\ \A a \in applied[i] :
              payments[a.key] # NoPayment /\ payments[a.key].id >= a.id

\* Every accepted credit note is in the invoice's balance, and nothing else is,
\* unless a write computed from a stale copy was made to that invoice.
CreditsAddUp ==
  \A i \in Invoice \ clobbered :
    invoices[i] # NoInvoice /\ invoices[i].cur # Mixed
      => invoices[i].total = charged[i] - credited[i]

\* What a payment has given to invoices.
Shares(id) == UNION {{<<i, a>> : a \in {b \in applied[i] : b.id = id}} : i \in Invoice}
Given(id) == SumFunction([share \in Shares(id) |-> share[2].amount])

\* What one payment has given to invoices is never more than its amount, although
\* a credited invoice may take a negative share and a call may end half-way.
PaymentNotOverspent ==
  \A key \in Invoice :
    payments[key] # NoPayment => Given(payments[key].id) <= payments[key].amount

\* Whether some thread is about to write invoice i as a `by`, or from a stale copy.
Writing(i, by) == \E t \in Thread : pc[t] = "write" /\ pending[t].inv = i /\ pending[t].by = by
StaleWrite(i) == \E t \in Thread : pc[t] = "write" /\ pending[t].inv = i /\ Stale(t)

\* A PAID or VOIDED invoice keeps status and balance, except for a payment that is
\* applied to it again and for a write computed from a stale copy: the guards of
\* void_invoice and apply_credit_note hold up to lost updates.
FinalStatusKept ==
  [][\A i \in Invoice :
       invoices[i] # NoInvoice /\ invoices[i].status \in {"PAID", "VOIDED"}
         /\ invoices'[i] # invoices[i]
       => Writing(i, "payment") \/ StaleWrite(i)]_vars

\* Every call returns: nothing a thread waits for is held by another.
CallsReturn ==
  \A t \in Thread : pc[t] \in {"apply", "write", "cycle"} ~> pc[t] = "idle"

\* What base.py says of add and get: a payment that was added, and
\* paid invoices, can be found in the payment repository.
PaymentsRetained ==
  \A i \in Invoice : \A a \in applied[i] :
    \E key \in Invoice : payments[key] # NoPayment /\ payments[key].id = a.id

=============================================================================
