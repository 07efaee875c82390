------------------------------ MODULE Revenue ------------------------------
(***************************************************************************)
(* The revenue of one contract.  A program closes one period after the     *)
(* other: the RevenueJob, or recognize_period of the service, recognises   *)
(* what each obligation earned in it, and the schedule carries its balance *)
(* through the months that have begun.  calculate_deferred computes from   *)
(* the obligations alone what is still deferred.                           *)
(*                                                                         *)
(* Amounts are cents of one currency.  A daily rate is a quotient that     *)
(* Decimal cuts after 28 digits; where the exact product is half a cent,   *)
(* the code may round down what the model rounds up.                       *)
(***************************************************************************)
EXTENDS Amounts, Calendar

CONSTANTS
  Contract,    \* contracts: a price, and obligations in a sequence
  Perpetual,   \* the end of an obligation without an end date
  FirstMonth,  \* bound: the first month of any obligation
  LastMonth,   \* bound: the last month of a period that is closed
  MidMonth     \* bound: a day inside a month on which a period may end, too

\* An obligation ends on or after the day it starts on, or never; no price is negative.
IsObligation(o) ==
  /\ o.price \in Nat /\ o.overTime \in BOOLEAN
  /\ IsDate(o.start) /\ FirstMonth <= o.start.month
  /\ o.end # Perpetual => IsDate(o.end) /\ Ordinal(o.start) <= Ordinal(o.end)

IsContract(c) ==
  /\ c.price \in Nat
  /\ Len(c.obligations) \in Nat \ {0} /\ DOMAIN c.obligations = 1..Len(c.obligations)
  /\ \A k \in DOMAIN c.obligations : IsObligation(c.obligations[k])

ASSUME RevenueAssumption ==
  /\ Contract # {} /\ \A c \in Contract : IsContract(c)
  /\ FirstMonth \in Int /\ LastMonth \in Int /\ FirstMonth <= LastMonth /\ MidMonth \in 1..28

VARIABLES
  contract,
  closed,      \* the last day that is closed
  recognized,  \* what the job recognised of each obligation until then
  balance,     \* the ending balance of that month's entry in the schedule
  whole        \* history: every period closed so far was made of whole months

revenueVars == <<contract, closed, recognized, balance, whole>>

(***************************************************************************)
(* The transaction price and its allocation                                *)
(***************************************************************************)

Standalone(c) == Total([k \in DOMAIN c.obligations |-> c.obligations[k].price])

\* The share of a price by standalone prices; nothing when they are all zero.
AllocatedPrice(price, standalone, total) == IF total = 0 THEN 0 ELSE HalfUp(price * standalone, total)

Allocated(c, k) == AllocatedPrice(c.price, c.obligations[k].price, Standalone(c))

\* allocate_transaction_price: an even split when they are all zero.
Proportional(c) ==
  [k \in DOMAIN c.obligations |->
     IF Standalone(c) = 0 THEN HalfUp(c.price, Len(c.obligations)) ELSE Allocated(c, k)]

\* residual_allocation: obligations without a standalone price share what the others'
\* prices leave; when these exceed the price, they share it and the rest get nothing.
Residual(c) ==
  LET unpriced == {k \in DOMAIN c.obligations : c.obligations[k].price = 0}
      left == c.price - Standalone(c)
  IN [k \in DOMAIN c.obligations |->
        IF left < 0 THEN Allocated(c, k)
        ELSE IF k \in unpriced THEN HalfUp(left, Cardinality(unpriced))
        ELSE c.obligations[k].price]

(***************************************************************************)
(* Recognition                                                             *)
(***************************************************************************)

\* Calendar months an obligation touches.
Months(o) == o.end.month - o.start.month + 1

Monthly(o, allocated) == HalfUp(allocated, Months(o))

DaysActive(o, month) == Span(Later(o.start, MonthStart(month)), Earlier(o.end, MonthEnd(month)))

\* A month's amount, by the day when it is a stub.
OfMonth(o, allocated, month) ==
  IF DaysActive(o, month) = Length(month) THEN Monthly(o, allocated)
  ELSE HalfUp(Monthly(o, allocated) * DaysActive(o, month), Length(month))

OfMonths(o, allocated, from, to) == SumFunction([n \in from..to |-> OfMonth(o, allocated, n)])

EndsBy(o, from, to) == o.end # Perpetual /\ Ordinal(o.end) <= Ordinal(to)

EndsWithin(o, from, to) ==
  o.end # Perpetual /\ Ordinal(from) <= Ordinal(o.end) /\ Ordinal(o.end) <= Ordinal(to)

Touches(o, from, to) ==
  o.end # Perpetual /\ Ordinal(o.start) <= Ordinal(to) /\ Ordinal(from) <= Ordinal(o.end)

\* recognize_revenue of one obligation in the period from..to: every month the period
\* touches counts as a whole.
Recognize(o, allocated, from, to) ==
  IF o.overTime
  THEN IF Touches(o, from, to) THEN OfMonths(o, allocated, from.month, to.month) ELSE 0
  ELSE IF EndsWithin(o, from, to) THEN allocated ELSE 0

Over(o, day) == o.end # Perpetual /\ Ordinal(o.end) <= Ordinal(day)

DeferredFrom(o, allocated, day) == allocated - OfMonths(o, allocated, o.start.month, day.month)

\* What calculate_deferred counts of one obligation.
DeferredOf(o, allocated, day) ==
  IF Over(o, day) THEN 0
  ELSE IF ~o.overTime \/ o.end = Perpetual \/ Ordinal(day) < Ordinal(o.start) THEN allocated
  ELSE Max({0, DeferredFrom(o, allocated, day)})

Deferred(c, day) ==
  Total([k \in DOMAIN c.obligations |-> DeferredOf(c.obligations[k], Allocated(c, k), day)])

(***************************************************************************)
(* The schedule                                                            *)
(***************************************************************************)

BeginsInside(o) == o.start.day > 1

EndsInside(o) == o.end.day < Length(o.end.month)

\* stub_period_amortization: of the whole price, as if there were no other obligation,
\* and by the day unless this is the last month only.
Amortized(o, price, month) ==
  LET alone == AllocatedPrice(price, o.price, o.price)
      last == month = o.end.month /\ EndsInside(o) /\ ~(month = o.start.month /\ BeginsInside(o))
  IN IF last THEN Monthly(o, alone) ELSE OfMonth(o, alone, month)

Scheduled(c, k, month) ==
  LET o == c.obligations[k] IN
  IF o.end = Perpetual \/ month \notin o.start.month..o.end.month THEN 0
  ELSE IF ~o.overTime THEN (IF month = o.end.month THEN Allocated(c, k) ELSE 0)
  ELSE IF DaysActive(o, month) = Length(month) THEN Monthly(o, Allocated(c, k))
  ELSE Amortized(o, c.price, month)

AdditionAtPrice(c, k, month) ==
  IF c.obligations[k].start.month = month THEN c.obligations[k].price ELSE 0

\* What the schedule adds in a month: the obligations that start in it.
Addition(c, k, month) == IF c.obligations[k].start.month = month THEN Allocated(c, k) ELSE 0

\* deferred_revenue_schedule: the ending balances of some months in a row.
Ending(c, beginning, from, to) ==
  beginning + SumFunction([n \in from..to |->
                Total([k \in DOMAIN c.obligations |-> Addition(c, k, n) - Scheduled(c, k, n)])])

(***************************************************************************)
(* Closing periods                                                         *)
(***************************************************************************)

RevenueInit ==
  /\ contract \in Contract
  /\ closed = MonthEnd(FirstMonth - 1)
  /\ recognized = [k \in DOMAIN contract.obligations |-> 0]
  /\ balance = 0
  /\ whole = TRUE

\* The job runs for the period from the day after the last one to a day.
ClosePeriod(day) ==
  LET from == DayAfter(closed) IN
  /\ Ordinal(from) < Ordinal(day)
  /\ closed' = day
  /\ recognized' = [k \in DOMAIN recognized |->
                      recognized[k] + Recognize(contract.obligations[k], Allocated(contract, k), from, day)]
  /\ balance' = Ending(contract, balance, closed.month + 1, day.month)
  /\ whole' = (whole /\ day = MonthEnd(day.month))
  /\ UNCHANGED contract

RevenueNext ==
  \E month \in FirstMonth..LastMonth : ClosePeriod(MonthEnd(month)) \/ ClosePeriod(Date(month, MidMonth))

(***************************************************************************)
(* Properties                                                              *)
(***************************************************************************)

Obligation(k) == contract.obligations[k]

RevenueTypeOK ==
  /\ contract \in Contract
  /\ closed.month \in FirstMonth - 1..LastMonth /\ closed.day \in 1..Length(closed.month)
  /\ \A k \in DOMAIN recognized : recognized[k] \in Nat
  /\ balance \in Int /\ whole \in BOOLEAN

\* However months are grouped into periods, what the job has recognised and what
\* calculate_deferred says is left add up to what was allocated, for obligations that
\* are not over; those recognised in excess, by rounding, have nothing left.  A month
\* that two periods touch is recognised by both.
RecognizedOrDeferred ==
  whole => Deferred(contract, closed) =
    Total([k \in DOMAIN recognized |->
             IF Over(Obligation(k), closed) THEN 0 ELSE Max({0, Allocated(contract, k) - recognized[k]})])

\* Months an obligation over time counts, and those of them it covers in part.
Counted(o) == IF o.overTime THEN Months(o) ELSE 0

Stubs(o) == IF o.overTime THEN Cardinality({n \in {o.start.month, o.end.month} : DaysActive(o, n) < Length(n)}) ELSE 0

\* Once every obligation is over, what was recognised is within bounds of the price of the
\* contract.  It is too little by no more than half a cent for each obligation (its
\* allocation) and each month (its amount), and a month's amount for each stub month: a
\* month that is recognised by the day leaves the rest of its amount to nobody.  Too much
\* it is by no more than the half cents, as long as no two periods touch a month.
PriceRecognized ==
  LET obligations == contract.obligations
      rounding == Len(obligations) + Total([k \in DOMAIN obligations |-> Counted(obligations[k])])
      stubs == Total([k \in DOMAIN obligations |->
                        IF obligations[k].overTime
                        THEN Stubs(obligations[k]) * Monthly(obligations[k], Allocated(contract, k)) ELSE 0])
  IN (/\ Standalone(contract) > 0
      /\ \A k \in DOMAIN recognized : Over(Obligation(k), closed))
     => /\ whole => 2 * (Total(recognized) - contract.price) <= rounding
        /\ 2 * (contract.price - Total(recognized)) <= rounding + 2 * stubs

\* Contracts whose stub months the schedule computes as the job does: those without any,
\* and those of one obligation that does not end inside a later month than it began in.
Plain(c) ==
  \A k \in DOMAIN c.obligations :
    LET o == c.obligations[k] IN
    \/ ~o.overTime \/ o.end = Perpetual
    \/ ~BeginsInside(o) /\ ~EndsInside(o)
    \/ Len(c.obligations) = 1 /\ (~EndsInside(o) \/ (BeginsInside(o) /\ Months(o) = 1))

\* The balance of the schedule is what the job has left of the obligations that have
\* begun, month for month, in contracts that are plain.  In others the schedule goes its
\* own way from the first stub month on, and nothing is said of them.
ScheduleAgrees ==
  whole /\ Plain(contract) =>
    balance = Total([k \in DOMAIN recognized |->
                       IF Obligation(k).start.month <= closed.month THEN Allocated(contract, k) - recognized[k] ELSE 0])

\* What the three ways to divide a price leave over.  allocate_transaction_price rounds
\* every share by itself: the shares miss the price by half a cent for each obligation at
\* most.  residual_allocation keeps to the same bound when an obligation has no standalone
\* price or their sum exceeds the price, and never gives less than nothing.  Only
\* Money.allocate gives exactly the price, with a last share that makes up for the
\* rounding of all others and is off by at most half a cent for each of them.
BundleDivided ==
  LET n == Len(contract.obligations)
      unpriced == \E k \in 1..n : Obligation(k).price = 0
  IN /\ 2 * Magnitude(Total(Proportional(contract)) - contract.price) <= n
     /\ unpriced \/ Standalone(contract) > contract.price =>
          2 * Magnitude(Total(Residual(contract)) - contract.price) <= n
     /\ \A k \in 1..n : Residual(contract)[k] >= 0
     /\ Standalone(contract) > 0 =>
          LET prices == [k \in 1..n |-> Obligation(k).price]
              last == Shares(contract.price, prices)[n]
          IN /\ Total(Shares(contract.price, prices)) = contract.price
             /\ 2 * Magnitude(last * Standalone(contract) - contract.price * prices[n]) <= (n - 1) * Standalone(contract)

=============================================================================
