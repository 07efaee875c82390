------------------------------ MODULE Calendar ------------------------------
(***************************************************************************)
(* Dates, months and periods.  A month is counted from the year 0, so that *)
(* months are added as integers; a date is a month and a day of it.        *)
(***************************************************************************)
EXTENDS Integers, FiniteSetsExt

Year(month) == month \div 12

\* The month of the year, 0 for January.
InYear(month) == month % 12

Leap(year) == year % 4 = 0 /\ (year % 100 # 0 \/ year % 400 = 0)

\* Days of a month.
Length(month) ==
  CASE InYear(month) = 1 -> IF Leap(Year(month)) THEN 29 ELSE 28
    [] InYear(month) \in {3, 5, 8, 10} -> 30
    [] OTHER -> 31

Date(month, day) == [month |-> month, day |-> day]

IsDate(date) == date \in [month : Int, day : Int] /\ date.day \in 1..Length(date.month)

MonthStart(month) == Date(month, 1)

MonthEnd(month) == Date(month, Length(month))

\* Days before the month's first, by the number of leap years before its own and by the
\* months of its own year.
DaysBefore(month) ==
  LET y == Year(month) - 1
      february == IF Leap(y + 1) /\ InYear(month) > 1 THEN 1 ELSE 0
  IN 365 * y + y \div 4 - y \div 100 + y \div 400 + february
     + <<0, 31, 59, 90, 120, 151, 181, 212, 243, 273, 304, 334>>[InYear(month) + 1]

\* date.toordinal, by which dates are compared and their days counted.
Ordinal(date) == DaysBefore(date.month) + date.day

\* Days from one date to another, both included.
Span(from, to) == Max({0, Ordinal(to) - Ordinal(from) + 1})

DayBefore(date) == IF date.day > 1 THEN Date(date.month, date.day - 1) ELSE MonthEnd(date.month - 1)

DayAfter(date) == IF date.day < Length(date.month) THEN Date(date.month, date.day + 1) ELSE MonthStart(date.month + 1)

Later(a, b) == IF Ordinal(a) < Ordinal(b) THEN b ELSE a

Earlier(a, b) == IF Ordinal(a) < Ordinal(b) THEN a ELSE b

\* Monday to Friday.
IsBusinessDay(ordinal) == (ordinal - 1) % 7 < 5

\* Business days from one date to another, whichever is first, both included.
BusinessDays(a, b) ==
  Cardinality({n \in Ordinal(Earlier(a, b))..Ordinal(Later(a, b)) : IsBusinessDay(n)})

AdvanceUnclamped(date, months) == Date(date.month + months, date.day)

\* The same day of the month, some months later, or the last day that month has.
AdvanceMonths(date, months) ==
  LET month == date.month + months IN Date(month, Min({date.day, Length(month)}))

=============================================================================
