------------------------- MODULE PaymentAllocation -------------------------
(***************************************************************************)
(* dinarledger.payments.allocation: how one payment is spread over a list  *)
(* of invoices.  Amounts are integers (minor units).  An entry of the list *)
(* is a record with at least the fields inv (the invoice's id), total and  *)
(* due; a credited invoice may have a negative total.                      *)
(***************************************************************************)
EXTENDS Integers, Sequences

Strategy == {"oldest_first", "highest_first"}

\* The key the code sorts by, as a number that is smaller for an earlier entry.
SortKey(entry, strategy) ==
  IF strategy = "oldest_first" THEN entry.due ELSE -entry.total

\* Python's sort is stable, with reverse=True too: equal keys keep their order.
Before(list, strategy, m, n) ==
  LET km == SortKey(list[m], strategy)
      kn == SortKey(list[n], strategy)
  IN  km < kn \/ (km = kn /\ m < n)

\* The orders `_sort_invoices` may choose: there is exactly one for every list.
SortOrders(list, strategy) ==
  {order \in [DOMAIN list -> DOMAIN list] :
     \A j, k \in DOMAIN list : j < k => Before(list, strategy, order[j], order[k])}

Sorted(list, order) == [k \in DOMAIN list |-> list[order[k]]]

ShareUncapped(total, remaining) == IF remaining <= 0 THEN 0 ELSE total

\* What one invoice receives when `remaining` of the payment is left.
Share(total, remaining) ==
  IF remaining <= 0 THEN 0
  ELSE IF total <= remaining THEN total ELSE remaining

\* What is left of the payment after each entry of a sorted list.
Remaining(amount, sorted) ==
  LET left[k \in 0..Len(sorted)] ==
        IF k = 0 THEN amount
        ELSE left[k-1] - Share(sorted[k].total, left[k-1])
  IN  left

\* allocate_payment: an allocation for every invoice of the list, zeros included.
Allocations(amount, sorted) ==
  [k \in 1..Len(sorted) |->
     [inv |-> sorted[k].inv,
      amount |-> Share(sorted[k].total, Remaining(amount, sorted)[k-1])]]

=============================================================================
