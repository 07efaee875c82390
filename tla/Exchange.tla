------------------------------ MODULE Exchange ------------------------------
(***************************************************************************)
(* Exchange rates: the FXRateJob keeps the last quote of each pair that    *)
(* its source has published, a program hands them to the FXService, and    *)
(* the service converts by a quote of the pair, of its reverse, or over    *)
(* the dollar.  A quote is an integer: units of the last decimal place.    *)
(***************************************************************************)
EXTENDS Amounts

CONSTANTS
  Currency,
  Pivot,      \* "USD"
  Quote,      \* the rates a source publishes
  NoQuote,    \* a pair without a rate
  NoRate,     \* RateNotFoundError
  BadRate,    \* the ValueError of an FXRate that is not positive
  One,        \* bound: the rate 1 (the code keeps six places of an inverse)
  MaxQuotes   \* bound: quotes that are published

ASSUME ExchangeAssumption ==
  /\ One \in Nat \ {0} /\ Quote \subseteq Nat \ {0}
  /\ Pivot \in Currency
  /\ NoRate \notin Int /\ BadRate \notin Int /\ NoRate # BadRate
  /\ MaxQuotes \in Nat

Pair == {p \in Currency \X Currency : p[1] # p[2]}

VARIABLES
  latest,     \* _latest_rates of the job
  rates,      \* _rates of the service
  published   \* quotes so far

exchangeVars == <<latest, rates, published>>

ExchangeInit ==
  /\ latest = [p \in Pair |-> NoQuote]
  /\ rates = [p \in Pair |-> NoQuote]
  /\ published = 0

\* A run of the job.  When its source raises, what was published before stays.
Publish(pair, quote) ==
  /\ published < MaxQuotes
  /\ published' = published + 1
  /\ latest' = [latest EXCEPT ![pair] = quote]
  /\ UNCHANGED rates

\* update_rates with what the job has: pairs it does not have stay as they were.
UpdateRates ==
  /\ rates' = [p \in Pair |-> IF latest[p] = NoQuote THEN rates[p] ELSE latest[p]]
  /\ rates # rates'
  /\ UNCHANGED <<latest, published>>

ExchangeNext ==
  \/ \E pair \in Pair, quote \in Quote : Publish(pair, quote)
  \/ UpdateRates

(***************************************************************************)
(* Conversion                                                              *)
(***************************************************************************)

\* FXRate.invert; a rate of zero is refused.
Invert(rate) == IF HalfUp(One * One, rate) > 0 THEN HalfUp(One * One, rate) ELSE BadRate

Quoted(pair) == rates[pair] # NoQuote

Flip(pair) == <<pair[2], pair[1]>>

RateOfEither(pair) ==
  IF Quoted(pair) THEN rates[pair] ELSE IF Quoted(Flip(pair)) THEN rates[Flip(pair)] ELSE NoRate

\* The rate of a pair, by its own quote first, else by its reverse's.
RateOf(pair) ==
  CASE Quoted(pair) -> rates[pair]
    [] ~Quoted(pair) /\ Quoted(Flip(pair)) -> Invert(rates[Flip(pair)])
    [] OTHER -> NoRate

\* cross_rate of a quote into the pivot and one out of it.
Cross(into, out) == HalfUp(into * out, One)

\* The rate convert_amount uses: over the pivot only when neither currency is the pivot
\* and the pair has no quote of its own; an inverse that is zero raises before a missing
\* quote does.
UsedRate(pair) ==
  LET into == RateOf(<<pair[1], Pivot>>)
      out == RateOf(<<Pivot, pair[2]>>)
  IN IF RateOf(pair) # NoRate \/ Pivot \in {pair[1], pair[2]} THEN RateOf(pair)
     ELSE IF BadRate \in {into, out} THEN BadRate
     ELSE IF NoRate \in {into, out} THEN NoRate
     ELSE Cross(into, out)

Converted(amount, rate) == HalfUp(amount * rate, One)

(***************************************************************************)
(* Properties                                                              *)
(***************************************************************************)

ExchangeTypeOK ==
  /\ latest \in [Pair -> Quote \cup {NoQuote}] /\ rates \in [Pair -> Quote \cup {NoQuote}]
  /\ published \in 0..MaxQuotes

Usable(pair) == UsedRate(pair) \notin {NoRate, BadRate}

\* Amounts in cents that the properties convert.
Sample == {1, 99, 10000}

\* An amount converted by a quote and back by its inverse comes back as it was, up to the
\* rounding of two amounts and of the inverse: the stronger the currency it comes from,
\* the more of it.  Two quotes, one for each direction, promise nothing of the kind.
RoundTrips ==
  \A pair \in Pair :
    Quoted(pair) /\ ~Quoted(Flip(pair)) /\ Usable(Flip(pair)) =>
      \A amount \in Sample :
        LET there == Converted(amount, UsedRate(pair))
            back == Converted(there, UsedRate(Flip(pair)))
        IN 2 * Magnitude(back - amount) <= One \div rates[pair] + there \div One + 3

\* A conversion over the pivot gives what two conversions do, into the pivot and out of
\* it, up to the rounding of the cross rate and of the amount in between.
CrossAgrees ==
  \A pair \in {p \in Pair : RateOf(p) = NoRate /\ Usable(p)} : \A amount \in Sample :
    LET out == UsedRate(<<Pivot, pair[2]>>)
        steps == Converted(Converted(amount, UsedRate(<<pair[1], Pivot>>)), out)
    IN 2 * Magnitude(Converted(amount, UsedRate(pair)) - steps) <= amount \div One + out \div One + 4

=============================================================================
