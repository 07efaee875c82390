----------------------------- MODULE MCBilling -----------------------------
(***************************************************************************)
(* Billing on a small instance: two stored or issued invoices and one that *)
(* was generated and never persisted.                                      *)
(***************************************************************************)
EXTENDS Billing

CONSTANTS t1, t2, i1, i2, ghost, usd, eur

MCInvoice == {i1, i2, ghost}
MCGhost == {ghost}
MCDue == [i \in MCInvoice |-> IF i = i1 THEN 1 ELSE 2]
MCTwoCurrencies == {usd, eur}
MCOneCurrency == {usd}

Active(price, seats) ==
  [status |-> "ACTIVE", lapsed |-> FALSE, seats |-> seats, price |-> price, cur |-> usd]
NotBilled == {[Active(1, 1) EXCEPT !.status = "TRIAL"], [Active(1, 1) EXCEPT !.lapsed = TRUE]}
MCSubscription == {Active(1, 2)} \cup NotBilled
MCOneSubscription == {Active(2, 1)}

=============================================================================
