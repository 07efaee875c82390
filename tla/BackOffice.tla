----------------------------- MODULE BackOffice -----------------------------
(***************************************************************************)
(* The computations of the back office side by side: closing the months of *)
(* a contract, making billing periods, watching receivables, reconciling a *)
(* bank statement, keeping exchange rates, taxing an invoice and querying  *)
(* a repository.  They share no state, so one desk works and the others    *)
(* rest where they began.                                                  *)
(***************************************************************************)
EXTENDS Revenue, Periods, Receivables, Reconciliation, Exchange, Taxes, Queries

VARIABLE desk   \* the one that works

Desk == {"revenue", "periods", "receivables", "reconciliation", "exchange", "taxes", "queries"}

\* What the working desk may begin with; one of it for a desk that rests.
Choice(d, set) == IF desk = d THEN set ELSE {CHOOSE x \in set : TRUE}

Init ==
  /\ desk \in Desk
  /\ contract \in Choice("revenue", Contract)
  /\ anchor \in Choice("periods", FirstDay)
  /\ cycle \in IF desk = "periods" THEN DOMAIN CycleMonths ELSE {"monthly"}
  /\ payments \in Choice("reconciliation", Payments)
  /\ entries \in Choice("reconciliation", Entries)
  /\ column \in Choice("queries", Column)
  /\ RevenueInit /\ PeriodsInit /\ ReceivablesInit /\ ReconciliationInit
  /\ ExchangeInit /\ TaxesInit /\ QueriesInit

Works(d) == desk = d /\ UNCHANGED desk

Next ==
  \/ /\ Works("revenue") /\ RevenueNext
     /\ UNCHANGED <<periodVars, receivablesVars, reconciliationVars, exchangeVars,
                    taxesVars, queriesVars>>
  \/ /\ Works("periods") /\ PeriodsNext
     /\ UNCHANGED <<revenueVars, receivablesVars, reconciliationVars, exchangeVars,
                    taxesVars, queriesVars>>
  \/ /\ Works("receivables") /\ ReceivablesNext
     /\ UNCHANGED <<revenueVars, periodVars, reconciliationVars, exchangeVars,
                    taxesVars, queriesVars>>
  \/ /\ Works("reconciliation") /\ Claim
     /\ UNCHANGED <<revenueVars, periodVars, receivablesVars, exchangeVars,
                    taxesVars, queriesVars>>
  \/ /\ Works("exchange") /\ ExchangeNext
     /\ UNCHANGED <<revenueVars, periodVars, receivablesVars, reconciliationVars,
                    taxesVars, queriesVars>>
  \/ /\ Works("taxes") /\ TaxesNext
     /\ UNCHANGED <<revenueVars, periodVars, receivablesVars, reconciliationVars,
                    exchangeVars, queriesVars>>
  \/ /\ Works("queries") /\ QueriesNext
     /\ UNCHANGED <<revenueVars, periodVars, receivablesVars, reconciliationVars,
                    exchangeVars, taxesVars>>

vars == <<desk, revenueVars, periodVars, receivablesVars, reconciliationVars, exchangeVars,
          taxesVars, queriesVars>>

Spec == Init /\ [][Next]_vars

\* Every desk's state has the values it should, resting or not.
TypeOK ==
  /\ desk \in Desk
  /\ RevenueTypeOK /\ PeriodsTypeOK /\ ReceivablesTypeOK /\ ReconciliationTypeOK
  /\ ExchangeTypeOK /\ TaxesTypeOK /\ QueriesTypeOK

(***************************************************************************)
(* What each desk's parts have to agree on, of the one that works          *)
(***************************************************************************)

\* The price of a contract is divided up to half a cent for each obligation, and what is
\* recognised of it in the end lacks the rounding of its months and what its stub months
\* leave, and no more.
PriceAccountedFor == desk = "revenue" => BundleDivided /\ PriceRecognized

\* What is still deferred: by the obligations, by what the job has recognised, and by the
\* balance of the schedule.
DeferredAgrees == desk = "revenue" => RecognizedOrDeferred /\ ScheduleAgrees

\* A chain of billing periods keeps its months and begins each on the earliest day promised
\* so far; a day before the last splits a period into fractions of the whole; and the first
\* period of an annual or a monthly subscription ends with the billing period or before it.
PeriodsSettle == desk = "periods" => ChainKeepsMonths /\ StubsSettle /\ FirstPeriodCovers

\* The AgingJob, its own earlier runs and the aging report agree on what is late.
LatenessAgrees == desk = "receivables" => AgingAgrees /\ OverdueCountedOnce

\* The aging report and the aging of the ledger differ by what the ledger does not settle
\* and by the days between issue and due date, and by nothing else; and the report adds up
\* to what the credit check counts.
ReportsAgree == desk = "receivables" => ReportInLedger /\ ReportIsOutstanding

\* Whatever quotes were published and handed over: one way to convert an amount gives
\* about what another way gives.
ConversionsAgree == desk = "exchange" => RoundTrips /\ CrossAgrees

=============================================================================
