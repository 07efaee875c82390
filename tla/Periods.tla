------------------------------ MODULE Periods ------------------------------
(***************************************************************************)
(* Billing periods: the chain that billing_periods makes from a first day, *)
(* the parts a date in one of them divides it into, and the period that    *)
(* subscribe gives a subscription.                                         *)
(***************************************************************************)
EXTENDS Amounts, Calendar

CONSTANTS
  FirstDay,   \* days a chain may start on
  NoPeriod,   \* what stub_period returns when nothing is left
  Whole,      \* bound: the fraction of a whole period, in the units of its last decimal
              \* place (the code keeps ten places)
  MaxPeriods  \* bound: periods of a chain

ASSUME PeriodsAssumption ==
  LET day == [month : Int, day : Int] IN
  /\ FirstDay # {} /\ \A d \in FirstDay : d \in day /\ d.day \in 1..Length(d.month)
  /\ NoPeriod \notin [start : day, end : day]
  /\ Whole \in Nat /\ MaxPeriods \in Nat

CycleMonths == [monthly |-> 1, quarterly |-> 3, annual |-> 12]

VARIABLES
  anchor,     \* the day the chain began on
  cycle,
  number,     \* periods the chain has before the current one
  start       \* the day the current one starts on

periodVars == <<anchor, cycle, number, start>>

Period(from, to) == [start |-> from, end |-> to]

PeriodsInit ==
  /\ anchor \in FirstDay
  /\ cycle \in DOMAIN CycleMonths
  /\ number = 0
  /\ start = anchor

NextStart == AdvanceMonths(start, CycleMonths[cycle])

Current == Period(start, DayBefore(NextStart))

\* The next period starts where the current one ends.
PeriodsNext ==
  /\ number < MaxPeriods
  /\ number' = number + 1
  /\ start' = NextStart
  /\ UNCHANGED <<anchor, cycle>>

(***************************************************************************)
(* Parts of a period                                                       *)
(***************************************************************************)

\* proration_fraction: the days of a period that an interval covers.
Fraction(period, from, to) ==
  HalfUp(Span(Later(from, period.start), Earlier(to, period.end)) * Whole, Span(period.start, period.end))

StubFromNext(period, day) ==
  IF Ordinal(day) >= Ordinal(period.end) THEN NoPeriod
  ELSE Period(Later(DayAfter(day), period.start), period.end)

\* stub_period: the rest of a period from a day on.
Stub(period, day) ==
  IF Ordinal(day) >= Ordinal(period.end) THEN NoPeriod ELSE Period(Later(day, period.start), period.end)

\* The first period of a subscription: a month's ends with the calendar month, and a
\* quarter's a day before the fourth month is over.
FirstPeriodEnd(day, every) ==
  CASE every = "monthly" -> MonthEnd(day.month)
    [] every = "quarterly" -> DayBefore(AdvanceMonths(day, 4))
    [] every = "annual" -> DayBefore(AdvanceMonths(day, 12))

(***************************************************************************)
(* Properties                                                              *)
(***************************************************************************)

PeriodsTypeOK ==
  /\ anchor \in FirstDay /\ cycle \in DOMAIN CycleMonths /\ number \in 0..MaxPeriods
  /\ start.day \in 1..Length(start.month)

\* Where billing_periods says that the period with n before it begins: on the day of the
\* month that the chain began on, or the last of a month that does not have it.
Promised(n) == AdvanceMonths(anchor, n * CycleMonths[cycle])

\* Each period starts from the one before it.  A chain never skips or repeats a month, but
\* it begins on the earliest day of the month that was promised so far, not on the one
\* promised for it: a day that a short month has taken never comes back.  One of the first
\* 28 days is kept.
ChainKeepsMonths ==
  /\ start.month = Promised(number).month
  /\ \A n \in 0..number : start.day <= Promised(n).day
  /\ \E n \in 0..number : start.day = Promised(n).day
  /\ anchor.day <= 28 => start = Promised(number)

DaysOf(period) ==
  {day \in [month : period.start.month..period.end.month, day : 1..31] :
     day.day <= Length(day.month) /\ day = Earlier(Later(day, period.start), period.end)}

\* A day before the last of a period divides it into a part before the day and the stub
\* from it on, and their fractions add up to the whole, up to one unit of the last decimal
\* place.  The last day has no stub, although stub_period says that it is None only for a
\* day past the end; nothing is said of that day.
StubsSettle ==
  \A day \in DaysOf(Current) \ {Current.end} :
    LET stub == Stub(Current, day)
        before == Fraction(Current, start, DayBefore(day))
    IN /\ stub # NoPeriod
       /\ Magnitude(before + Fraction(Current, stub.start, stub.end) - Whole) <= 1

\* The first period of an annual subscription is a billing period, and a monthly one's ends
\* on or after the day it starts on and no later than a billing period would.  Nothing is
\* said of a quarterly one's, which ends a month after a billing period would.
FirstPeriodCovers ==
  LET end == Ordinal(FirstPeriodEnd(start, cycle))
      billed == Ordinal(Current.end)
  IN /\ cycle = "annual" => end = billed
     /\ cycle = "monthly" => end \in Ordinal(start)..billed

=============================================================================
