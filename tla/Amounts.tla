------------------------------ MODULE Amounts ------------------------------
(***************************************************************************)
(* Amounts of money are whole cents.  A quotient of cents is rounded as    *)
(* the code rounds it; before that, Decimal keeps 28 digits of it, which   *)
(* is taken for exact.                                                     *)
(***************************************************************************)
EXTENDS Integers, SequencesExt

Magnitude(n) == IF n < 0 THEN -n ELSE n

\* n / d rounded to the nearest integer, a half away from zero: ROUND_HALF_UP.
HalfUp(n, d) == IF n < 0 THEN -((2 * (-n) + d) \div (2 * d)) ELSE (2 * n + d) \div (2 * d)

\* The same, a half to the even neighbour: ROUND_HALF_EVEN, which is quantize's own choice.
HalfEven(n, d) ==
  LET floor == n \div d
      twice == 2 * (n - floor * d)
  IN IF twice > d \/ (twice = d /\ floor % 2 = 1) THEN floor + 1 ELSE floor

\* sum_money of amounts in one currency.
Total(amounts) == SumFunction(amounts)

\* Money.allocate: each share is rounded but the last, which takes what is left.
Shares(amount, ratios) ==
  LET share(k) == HalfEven(amount * ratios[k], Total(ratios))
      rest == Total([k \in 1..Len(ratios) - 1 |-> share(k)])
  IN [k \in DOMAIN ratios |-> IF k < Len(ratios) THEN share(k) ELSE amount - rest]

=============================================================================
