------------------------- MODULE ExchangePortfolio --------------------------
(***************************************************************************)
(* arbitrage/exchange.py: what a portfolio of bookmaker backs and exchange *)
(* BACK and LAY stakes yields whichever selection wins, with commission on *)
(* the net winnings of each account and market.                            *)
(*                                                                         *)
(* Decimals are whole numbers of a unit: stakes of a quantum, prices and   *)
(* profits of 1/OddsUnit, rates of 1/RateUnit, net profits of             *)
(* 1/(OddsUnit * RateUnit). The units are constants, so that a theorem is *)
(* about decimals of any number of digits.                                 *)
(***************************************************************************)
EXTENDS Integers, Sequences, FiniteSets, FiniteSetsExt, SequencesExt

CONSTANTS
  Runners,    \* expected_selection_ids: the selections of the market
  Unknown,    \* a term the adapter could not establish
  OddsUnit,   \* prices are in parts of one: 10 for tenths
  RateUnit    \* commission rates are in parts of one: 100 for percent

ASSUME RunnersAssumption == IsFiniteSet(Runners) /\ \E a, b \in Runners : a # b
ASSUME UnitsAssumption == OddsUnit \in Nat \ {0} /\ RateUnit \in Nat \ {0}

\* A leg: the price observation it takes and the matched stake. Bookmaker backs
\* are legs of venue "bookmaker", which pay no commission; market stands for the
\* event and the market.
IsExchange(leg) == leg.venue # "bookmaker"
IsLeg(leg) ==
  /\ leg \in [venue : {leg.venue}, transport : {leg.transport}, market : {leg.market},
              scope : {leg.scope}, runner : {leg.runner}, side : {"back", "lay", Unknown},
              price : Nat \ 0..OddsUnit, stake : Nat \ {0},
              available : (Nat \ {0}) \cup {Unknown}, rate : 0..(RateUnit - 1) \cup {Unknown},
              status : {leg.status}, verified : BOOLEAN]
  /\ ~IsExchange(leg) => leg.side = "back"

\* assess_exchange_price_support: no blockers
Eligible(leg) ==
  /\ leg.status = "active" /\ leg.verified
  /\ Unknown \notin {leg.side, leg.available, leg.rate, leg.scope}

\* ExchangeStake, BookmakerBackStake
Constructible(leg) ==
  IF IsExchange(leg) THEN Eligible(leg) /\ leg.stake <= leg.available ELSE leg.status = "active"

LayLiability(leg) == leg.stake * (leg.price - OddsUnit)

LegProfit(leg, winner) ==
  IF leg.side = "lay"
  THEN IF leg.runner = winner THEN -LayLiability(leg) ELSE OddsUnit * leg.stake
  ELSE IF leg.runner = winner
       THEN leg.stake * (leg.price - OddsUnit) ELSE -(OddsUnit * leg.stake)

\* Fault: liquidity is looked at leg by leg.
PriceLevelByLeg(legs, i) == {i}

\* The legs that draw on the liquidity of leg i: same venue, feed, market, runner,
\* side, price and scope.
PriceLevel(legs, i) ==
  LET level(l) == <<l.venue, l.transport, l.market, l.runner, l.side, l.price, l.scope>>
  IN  {j \in DOMAIN legs : IsExchange(legs[j]) /\ level(legs[j]) = level(legs[i])}

SharedLiquidityHolds(legs) ==
  \A i \in {j \in DOMAIN legs : IsExchange(legs[j])} :
    LET level == PriceLevel(legs, i)
    IN  MapThenSumSet(LAMBDA j : legs[j].stake, level) <= Min({legs[j].available : j \in level})

\* Commission is charged per venue and scope, at one rate.
Account(leg) == <<leg.venue, leg.scope>>
Accounts(legs) == {Account(legs[i]) : i \in {j \in DOMAIN legs : IsExchange(legs[j])}}
LegsOf(legs, account) == {i \in DOMAIN legs : IsExchange(legs[i]) /\ Account(legs[i]) = account}
OneRate(legs) == \A a \in Accounts(legs) :
                   \A i, j \in LegsOf(legs, a) : legs[i].rate = legs[j].rate
RateOf(legs, account) == legs[CHOOSE i \in LegsOf(legs, account) : TRUE].rate

\* evaluate_exchange_portfolio raises unless:
Accepted(legs) ==
  /\ \A i \in DOMAIN legs : Constructible(legs[i]) /\ legs[i].runner \in Runners
  /\ Accounts(legs) # {}
  /\ \A i, j \in DOMAIN legs : legs[i].market = legs[j].market
  /\ SharedLiquidityHolds(legs)
  /\ OneRate(legs)

AccountGross(legs, account, winner) ==
  MapThenSumSet(LAMBDA i : LegProfit(legs[i], winner), LegsOf(legs, account))

Commission(legs, winner) ==
  MapThenSumSet(LAMBDA a : LET gross == AccountGross(legs, a, winner)
                           IN  IF gross > 0 THEN gross * RateOf(legs, a) ELSE 0,
                Accounts(legs))

NetProfit(legs, winner) ==
  RateUnit * MapThenSumSet(LAMBDA i : LegProfit(legs[i], winner), DOMAIN legs)
    - Commission(legs, winner)

GuaranteedProfit(legs) == Min({NetProfit(legs, w) : w \in Runners})
IsExchangeArbitrage(legs) == GuaranteedProfit(legs) > 0

-----------------------------------------------------------------------------
(* Equivalent portfolios                                                   *)

SameOutcome(one, other) ==
  /\ Accepted(one) = Accepted(other)
  /\ Accepted(one) => \A w \in Runners : NetProfit(one, w) = NetProfit(other, w)

\* Leg i taken in two parts.
Split(legs, i) ==
  Append([legs EXCEPT ![i].stake = 1], [legs[i] EXCEPT !.stake = @ - 1])

\* What is backed and laid at the same price in one account, after all else.
Opposed(legs, i) ==
  legs \o <<[legs[i] EXCEPT !.side = "back"], [legs[i] EXCEPT !.side = "lay"]>>

\* With two runners, laying one is backing the other: the liability at the
\* complementary price.
Other(runner) == CHOOSE r \in Runners : r # runner
AsBack(leg) ==
  [leg EXCEPT !.side = "back", !.runner = Other(leg.runner),
              !.stake = LayLiability(leg) \div OddsUnit,
              !.price = OddsUnit + (OddsUnit * OddsUnit) \div (leg.price - OddsUnit),
              !.available = leg.stake * leg.price]

\* The units are fine enough for the back to be written in them. For any lay they
\* are after OddsUnit and the price are multiplied by price - OddsUnit, and the
\* stake by OddsUnit.
WholeLay(leg) ==
  /\ LayLiability(leg) % OddsUnit = 0
  /\ (OddsUnit * OddsUnit) % (leg.price - OddsUnit) = 0

\* Any number of legs, at any price, whether the code accepts them or not.
IsPortfolio(legs) ==
  /\ legs \in Seq({legs[i] : i \in DOMAIN legs})
  /\ \A i \in DOMAIN legs : IsLeg(legs[i])
=============================================================================
