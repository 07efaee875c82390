--------------------------- MODULE Reconciliation ---------------------------
(***************************************************************************)
(* reconcile: each payment in turn claims the free bank entry that is      *)
(* nearest in business days among those of about its amount.  Currencies   *)
(* are not compared.                                                       *)
(***************************************************************************)
EXTENDS Amounts, Calendar

CONSTANTS
  Payments,   \* lists of payments: amount and paid_date
  Entries,    \* lists of bank entries: amount and date
  NoDate,     \* the paid_date of a payment that has none
  Tolerance,  \* cents by which the amounts of a pair may differ
  MaxDistance \* _MAX_BUSINESS_DAY_DISTANCE

ASSUME ReconciliationAssumption ==
  LET day == [month : Int, day : Int] IN
  /\ Payments # {} /\ \A some \in Payments : some \in Seq([amount : Int, date : day \cup {NoDate}])
  /\ Entries # {} /\ \A some \in Entries : some \in Seq([amount : Int, date : day])

VARIABLES
  payments,
  entries,
  turn,       \* the payment whose turn it is
  matched     \* the pairs claimed so far, as indices of both lists

reconciliationVars == <<payments, entries, turn, matched>>

ReconciliationInit ==
  /\ payments \in Payments
  /\ entries \in Entries
  /\ turn = 1
  /\ matched = {}

Pairs == (DOMAIN payments) \X (DOMAIN entries)

\* Business days are counted with the first and the last.
Distance(p, e) == BusinessDays(payments[p].date, entries[e].date)

Near(p, e) ==
  /\ payments[p].date # NoDate
  /\ Magnitude(payments[p].amount - entries[e].amount) <= Tolerance
  /\ Distance(p, e) <= MaxDistance

AnyEntry(p) == {e \in DOMAIN entries : Near(p, e)}

\* Entries that are near and that no payment before it has claimed.
FreeEntries(p) == {e \in DOMAIN entries : Near(p, e) /\ \A pair \in matched : pair[2] # e}

\* Of the nearest ones the first.
Best(p, free) ==
  Min({e \in free : \A other \in free : Distance(p, e) <= Distance(p, other)})

Claim ==
  /\ turn \in DOMAIN payments
  /\ matched' = matched \cup
       (IF FreeEntries(turn) = {} THEN {} ELSE {<<turn, Best(turn, FreeEntries(turn))>>})
  /\ turn' = turn + 1
  /\ UNCHANGED <<payments, entries>>

(***************************************************************************)
(* Properties                                                              *)
(***************************************************************************)

ReconciliationTypeOK ==
  /\ payments \in Payments /\ entries \in Entries
  /\ turn \in 1..Len(payments) + 1
  /\ matched \subseteq Pairs

Matching(pairs) == \A x, y \in pairs : (x[1] = y[1]) = (x[2] = y[2])

Matchings ==
  {pairs \in SUBSET Pairs :
     Matching(pairs) /\ \A pair \in pairs : Near(pair[1], pair[2])}

\* What is claimed is a matching, and in the end at least half as large as the largest
\* there is: a payment may take the only entry of a later one, but no pair is left over
\* of which neither the payment nor the entry is claimed.
HalfOfBest ==
  /\ matched \in Matchings
  /\ turn > Len(payments) => \A pairs \in Matchings : Cardinality(pairs) <= 2 * Cardinality(matched)

=============================================================================
