--------------------------- MODULE MCBackOffice ---------------------------
(***************************************************************************)
(* The back office on small instances: around the end of February in a     *)
(* leap year, with prices that do not divide evenly.                       *)
(***************************************************************************)
EXTENDS BackOffice

January == 12 * 2024

March == January + 2

\* One or two obligations, some of them perpetual, unpriced, or inside a month.
MCObligation ==
  {o \in [price : {0, 300}, overTime : BOOLEAN,
          start : {Date(January, 1), Date(January, 15), Date(January + 1, 1)},
          end : {Date(January, 31), Date(January + 1, 10), MonthEnd(January + 1), MonthEnd(March), Perpetual}] :
     o.end = Perpetual \/ Ordinal(o.start) <= Ordinal(o.end)}

MCContract ==
  [price : {1001}, obligations : [{1} -> MCObligation] \cup (MCObligation \X MCObligation)]

\* From December 2023 to March 2024.
MCFirstDay ==
  {d \in [month : 12 * 2024 - 1..12 * 2024 + 2, day : {1, 15, 28, 29, 30, 31}] : d.day <= Length(d.month)}

\* Values whose texts are ordered as they are, and the Decimals 9, 10 and 10.0.
MCColumn ==
  {{[rank |-> n, text |-> n] : n \in 1..3},
   {[rank |-> 1, text |-> 3], [rank |-> 2, text |-> 1], [rank |-> 2, text |-> 2]}}

\* A credit note is a charge, too.
MCCharge == {-1, 4}

\* Thursday, Saturday, Monday.
MCDates == {Date(January, 4), Date(January, 6), Date(January, 8)}

MCPayments == UNION {[1..n -> [amount : {10, 14}, date : MCDates \cup {NoDate}]] : n \in 1..2}

MCEntries == UNION {[1..n -> [amount : {5, 9, 16}, date : MCDates]] : n \in 1..2}

MCRates == [standard |-> 1950, half |-> 5000, exempt |-> 0]

=============================================================================
