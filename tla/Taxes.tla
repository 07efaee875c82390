------------------------------- MODULE Taxes -------------------------------
(***************************************************************************)
(* The lines of an invoice and their taxes.  generate_invoice computes one *)
(* tax line per charge by TaxRate.compute_tax; calculate_tax inserts them  *)
(* behind the charges of any list, with another rounding; apply_exemption  *)
(* replaces them by zero.  Programs call them on what the one before       *)
(* returned, in any order.                                                 *)
(*                                                                         *)
(* A TaxRate of the code has no jurisdiction, so that an exemption by      *)
(* jurisdiction returns the lines as they are and is no step.              *)
(***************************************************************************)
EXTENDS Amounts

CONSTANTS
  Code,        \* tax codes with a rate
  Rate,        \* the rates of the codes: parts of RateUnit
  RateUnit,
  NoCode,      \* a line without a tax code
  BasePrice,   \* prices of a seat
  SetupFee,    \* setup fees, 0 for a plan without one
  MaxTaxings   \* bound: calls of calculate_tax, and of apply_adjustment

ASSUME TaxesAssumption ==
  /\ NoCode \notin Code /\ RateUnit \in Nat \ {0} /\ DOMAIN Rate = Code /\ \A c \in Code : Rate[c] \in Int
  /\ BasePrice \subseteq Int /\ SetupFee \subseteq Int /\ MaxTaxings \in Nat

VARIABLES
  lines,
  taxings,    \* calls of calculate_tax so far
  credits,    \* calls of apply_adjustment so far
  standing    \* history: how often the charges of each code were taxed since an exemption

taxesVars == <<lines, taxings, credits, standing>>

Line(amount, code, isTax) == [amount |-> amount, code |-> code, isTax |-> isTax]

TaxesInit ==
  /\ lines = <<>>
  /\ taxings = 0 /\ credits = 0
  /\ standing = [c \in Code |-> 0]

TaxableAll(line) == line.code \in Code

\* A charge whose code has a rate.
Taxable(line) == ~line.isTax /\ line.code \in Code

\* A rate of zero stands for an exempt rate.
Exempted(code) == Rate[code] = 0

\* TaxRate.compute_tax rounds half a cent to the even one, calculate_tax up.
ComputeTax(line) == HalfEven(line.amount * Rate[line.code], RateUnit)

RoundedTax(line) == HalfUp(line.amount * Rate[line.code], RateUnit)

\* generate_invoice: the plan, the seats beyond the first and the setup fee, all with one
\* tax code, and behind them the tax lines that are not zero.
Charges(price, seats, fee, code) ==
  <<Line(price, code, FALSE)>>
  \o (IF seats > 1 THEN <<Line(price * (seats - 1), code, FALSE)>> ELSE <<>>)
  \o (IF fee > 0 THEN <<Line(fee, code, FALSE)>> ELSE <<>>)

TaxLine(line) ==
  IF Taxable(line) /\ ComputeTax(line) # 0 THEN <<Line(ComputeTax(line), line.code, TRUE)>> ELSE <<>>

Generate(price, seats, fee, code) ==
  LET charges == Charges(price, seats, fee, code) IN
  /\ lines = <<>>
  /\ lines' = charges \o FlattenSeq([k \in DOMAIN charges |-> TaxLine(charges[k])])
  /\ standing' = [c \in Code |-> IF c = code THEN 1 ELSE 0]
  /\ UNCHANGED <<taxings, credits>>

\* What calculate_tax makes of one line.
WithTax(line) ==
  IF Taxable(line) /\ ~Exempted(line.code) THEN <<line, Line(RoundedTax(line), line.code, TRUE)>> ELSE <<line>>

\* Nothing tells that a list was taxed before: its charges are taxed again.
CalculateTax ==
  /\ lines # <<>> /\ taxings < MaxTaxings
  /\ taxings' = taxings + 1
  /\ lines' = FlattenSeq([k \in DOMAIN lines |-> WithTax(lines[k])])
  /\ standing' = [c \in Code |-> standing[c] + 1]
  /\ UNCHANGED credits

\* apply_exemption for a customer with tax_exempt.
ApplyExemption ==
  /\ \E k \in DOMAIN lines : lines[k].isTax /\ lines[k].amount # 0
  /\ lines' = [k \in DOMAIN lines |-> IF lines[k].isTax THEN [lines[k] EXCEPT !.amount = 0] ELSE lines[k]]
  /\ standing' = [c \in Code |-> 0]
  /\ UNCHANGED <<taxings, credits>>

\* apply_adjustment appends the line it is given; its caller apply_credit_note gives it a
\* credit, which has no tax code.  The statuses both refuse are guards of module Billing.
Adjust(amount) ==
  /\ lines # <<>> /\ credits < MaxTaxings
  /\ credits' = credits + 1
  /\ lines' = Append(lines, Line(-amount, NoCode, FALSE))
  /\ UNCHANGED <<taxings, standing>>

TaxesNext ==
  \/ \E price \in BasePrice, seats \in 1..3, fee \in SetupFee, code \in Code \cup {NoCode} :
       Generate(price, seats, fee, code)
  \/ CalculateTax
  \/ ApplyExemption
  \/ \E amount \in BasePrice : Adjust(amount)

(***************************************************************************)
(* Sums                                                                    *)
(***************************************************************************)

Amount(set) == Total([k \in set |-> lines[k].amount])

OfCode(code) == {k \in DOMAIN lines : lines[k].code = code}

\* tax_summary.
Summary(code) == Amount({k \in OfCode(code) : lines[k].isTax})

(***************************************************************************)
(* Properties                                                              *)
(***************************************************************************)

TaxesTypeOK ==
  /\ \A k \in DOMAIN lines : lines[k].amount \in Int /\ lines[k].code \in Code \cup {NoCode} /\ lines[k].isTax \in BOOLEAN
  /\ taxings \in 0..MaxTaxings /\ credits \in 0..MaxTaxings

\* Whatever was generated, taxed, exempted and credited in whatever order: the taxes of
\* a code are its rate of its charges for each time they were taxed since an exemption,
\* up to half a cent for each line.  No tax is taxed, and no credit changes one.
TaxesSettle ==
  \A c \in Code :
    LET charges == {k \in OfCode(c) : ~lines[k].isTax}
        exact == standing[c] * Rate[c] * Amount(charges)
    IN 2 * Magnitude(RateUnit * Summary(c) - exact) <= RateUnit * standing[c] * Cardinality(charges)

=============================================================================
