----------------------------- MODULE MarketBook -----------------------------
(***************************************************************************)
(* The pure part of a scan: consolidation of transport overlap             *)
(* (ingestion/multisource.py), the best-price book of one market           *)
(* (marketbook/builder.py) and the arbitrage test (arbitrage/core.py).     *)
(*                                                                         *)
(* A quote is a record with at least the fields key, offer, status, source *)
(* and ingested. Prices are decimal odds scaled to integers, so the sum of the *)
(* reciprocals is compared with one exactly, as the Fraction of the code.  *)
(***************************************************************************)
EXTENDS Integers, FiniteSetsExt

CONSTANTS
  Selections,   \* the canonical selections of the market
  SelectionOf,  \* the selection each key quotes
  SlotOf,       \* the price slot (bookmaker and selection) of each key
  Price,        \* the decimal price of each offer, times PriceScale
  PriceScale,
  MinMargin,    \* minimum_profit_margin, in percent
  EventStart,   \* scheduled_start of the market's event
  FreshnessWindow,
  NoTimestamp   \* source_timestamp is None

\* quote_effective_timestamp
EffectiveAt(quote) == IF quote.source = NoTimestamp THEN quote.ingested ELSE quote.source

-----------------------------------------------------------------------------
\* consolidate_quotes: only the newest observations of a slot count; they are
\* dropped together when they disagree on the price, otherwise the first
\* transport wins. Every input quote is active.
NewestOf(observations) ==
  {q \in observations : \A other \in observations : EffectiveAt(other) <= EffectiveAt(q)}

Consolidated(quotes, slot) ==
  LET newest == NewestOf({q \in quotes : SlotOf[q.key] = slot}) IN
  IF \A q, other \in newest : Price[q.offer] = Price[other.offer]
  THEN {q \in newest : \A other \in newest : q.key <= other.key}
  ELSE {}

ConsolidateQuotes(quotes) ==
  UNION {Consolidated(quotes, slot) : slot \in {SlotOf[q.key] : q \in quotes}}

-----------------------------------------------------------------------------
\* Fault: the freshest quote first, then the highest price.
FresherQuote(q, other) ==
  \/ EffectiveAt(q) > EffectiveAt(other)
  \/ /\ EffectiveAt(q) = EffectiveAt(other)
     /\ Price[q.offer] > Price[other.offer] \/ (Price[q.offer] = Price[other.offer] /\ q.key < other.key)

\* _best_quote: the highest price, then the freshest, then the first provider.
BetterQuote(q, other) ==
  \/ Price[q.offer] > Price[other.offer]
  \/ /\ Price[q.offer] = Price[other.offer]
     /\ \/ EffectiveAt(q) > EffectiveAt(other)
        \/ EffectiveAt(q) = EffectiveAt(other) /\ q.key < other.key

BestQuote(candidates) ==
  CHOOSE q \in candidates : \A other \in candidates \ {q} : ~BetterQuote(other, q)

\* The quotes build_market_books lets compete. The provider policy is the
\* default one, which allows every bookmaker, and no two versions of the live
\* state share a quote id.
BookEligible(quotes, moment) ==
  {q \in quotes : /\ q.status = "active"
                  /\ q.ingested <= moment
                  /\ moment - EffectiveAt(q) \in 0..FreshnessWindow}

Candidates(quotes, selection) == {q \in quotes : SelectionOf[q.key] = selection}

\* build_market_books emits a book when the event has not started and every
\* one of at least two selections has a candidate.
BookExists(quotes, moment) ==
  /\ EventStart > moment
  /\ Cardinality(Selections) >= 2
  /\ \A s \in Selections : Candidates(quotes, s) # {}

Book(quotes) == [s \in Selections |-> BestQuote(Candidates(quotes, s))]

-----------------------------------------------------------------------------
\* _exact_implied_sum as a fraction: the sum of the reciprocal prices is
\* ImpliedNumerator / ImpliedDenominator.
ImpliedDenominator(legs) ==
  MapThenFoldSet(LAMBDA x, y : x * y, 1, LAMBDA s : Price[legs[s].offer],
                 LAMBDA rest : CHOOSE s \in rest : TRUE, Selections)

ImpliedNumerator(legs) ==
  MapThenSumSet(LAMBDA s : PriceScale * (ImpliedDenominator(legs) \div Price[legs[s].offer]),
                Selections)

\* evaluate_market: the exact sum is below one and the margin 1/S - 1 reaches
\* the threshold.
IsArbitrage(legs) ==
  LET n == ImpliedNumerator(legs)
      d == ImpliedDenominator(legs)
  IN  n < d /\ 100 * d >= n * (100 + MinMargin)

\* The opportunities of a cycle: the legs of the book if it is an arbitrage.
Opportunities(quotes, moment) ==
  LET able == BookEligible(quotes, moment)
  IN  IF BookExists(able, moment) /\ IsArbitrage(Book(able)) THEN {Book(able)} ELSE {}
=============================================================================
