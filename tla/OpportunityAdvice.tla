------------------------- MODULE OpportunityAdvice --------------------------
(***************************************************************************)
(* From a reported opportunity to an alert: revalidate_opportunity         *)
(* (lifecycle/evaluator.py) looks at it again with the quotes of the       *)
(* moment, plans stakes, and AlertTracker (dashboard/service.py) decides   *)
(* whether anything has to be said about it.                               *)
(*                                                                         *)
(* The quotes of the moment are inputs. Of a quote it matters whether it   *)
(* is the one the opportunity refers to, its price and status, and whether *)
(* its time is ahead of the clock, recent, or older than the policy        *)
(* allows. Exchange portfolios are evaluated without any state.            *)
(***************************************************************************)
EXTENDS StakePlanning, ExchangePortfolio

CONSTANTS
  Markets,    \* markets of the event
  Prices,     \* prices in tenths
  Quotes,     \* what the quotes of the moment may be
  Policies,   \* the actionability policies
  Portfolios, \* exchange portfolios to evaluate
  NoItem      \* nothing yet

CurrentQuote == [same : BOOLEAN, price : Prices, active : BOOLEAN,
                 age : {"ahead", "recent", "old"}]
ASSUME QuotesAssumption == Quotes \subseteq [Selections -> CurrentQuote]
ASSUME PortfoliosAssumption == \A p \in Portfolios : IsPortfolio(p)
ASSUME PricesAssumption == Prices \subseteq Nat \ {0}

\* StakeConstraint and ActionabilityPolicy, as their __post_init__ leaves them.
\* foreign: there is also a constraint on a quote outside the opportunity.
StakeConstraint == [increment : Nat \ {0}, minimum : Nat, maximum : Nat \cup {NoLimit}]
ActionabilityPolicy ==
  [bankroll : Nat, exposure : Nat \cup {NoLimit}, constraints : [Selections -> StakeConstraint],
   minimumProfit : Nat, minimumRoi : Nat, drift : Nat \cup {NoLimit},
   commission : 0..99, tax : 0..99, foreign : BOOLEAN]
ASSUME PoliciesAssumption == Policies \subseteq ActionabilityPolicy

VARIABLES
  policy,      \* the ActionabilityPolicy
  reported,    \* per market: the prices of the reported opportunity, or NoItem
  evaluation,  \* the last LifecycleEvaluation: its inputs and its result
  tracked,     \* AlertTracker: state and fingerprint of the markets seen, a dict
  alerts,      \* the alerts raised by the last step: one or none
  believed,    \* history: the item of the last alert of the markets seen
  portfolio    \* the exchange portfolio just evaluated, or <<>>

vars == <<policy, reported, evaluation, tracked, alerts, believed, portfolio>>

-----------------------------------------------------------------------------
(* lifecycle/evaluator.py                                                  *)

\* Margin of prices p: Numerator / Denominator - 1
MarginNumerator(p) == Product(p, Selections)
MarginDenominator(p) == TargetDenominator(p, Selections)
IsArbitrageAt(p) == MarginNumerator(p) > MarginDenominator(p)

\* deterioration > maximum_margin_drift (percent)
DriftExceeded(before, now, drift) ==
  LET n == MarginNumerator(before) d == MarginDenominator(before)
      m == MarginNumerator(now)    e == MarginDenominator(now)
  IN  drift # NoLimit /\ (n * e - m * d) * 100 > drift * d * e

Exposure == IF policy.exposure = NoLimit THEN policy.bankroll
            ELSE Min({policy.bankroll, policy.exposure})

\* Profit after commission and tax, in ten-thousandths of a quantum.
NetProfitOf(plan) == plan.profit * (100 - policy.commission) * (100 - policy.tax)
MeetsProfit(plan) == NetProfitOf(plan) > 0 /\ NetProfitOf(plan) >= policy.minimumProfit * 10000
MeetsRoi(plan) == NetProfitOf(plan) >= policy.minimumRoi * 100 * plan.total

Outcome(state, reason, plan) == [state |-> state, reason |-> reason, plan |-> plan]

\* Fault: the time of a quote ahead of the clock is not looked at.
OutsideAgeOld(q) == q.age = "old"

\* age < 0 or age > maximum_quote_age_seconds
OutsideAge(q) == q.age # "recent"

\* The outcomes of revalidate_opportunity for the quotes q, in the order of its
\* tests. A constraint on a quote outside the opportunity raises an error.
Revalidations(m, q) ==
  LET price == [s \in Selections |-> q[s].price]
  IN  IF \E s \in Selections : ~q[s].same
      THEN {Outcome("invalidated", "quote_set_changed", NoPlan)}
      ELSE IF \E s \in Selections : ~q[s].active
      THEN {Outcome("expired", "market_closed", NoPlan)}
      ELSE IF \E s \in Selections : OutsideAge(q[s])
      THEN {Outcome("stale", "stale_quotes", NoPlan)}
      ELSE IF ~IsArbitrageAt(price)
      THEN {Outcome("invalidated", "no_longer_arbitrage", NoPlan)}
      ELSE IF DriftExceeded(reported[m], price, policy.drift)
      THEN {Outcome("invalidated", "odds_drift_exceeded", NoPlan)}
      ELSE IF policy.foreign THEN {}
      ELSE {IF plan = NoPlan THEN Outcome("validated", "stake_constraints", NoPlan)
            ELSE IF ~MeetsProfit(plan) THEN Outcome("validated", "minimum_profit", plan)
            ELSE IF ~MeetsRoi(plan) THEN Outcome("validated", "minimum_roi", plan)
            ELSE Outcome("actionable", "actionable", plan) :
              plan \in AllocateStakes(price, policy.constraints, Exposure, 0)}

-----------------------------------------------------------------------------
(* dashboard/service.py                                                    *)

InactiveStates == {"stale", "invalidated", "expired"}

\* What is shown of an evaluation, and _fingerprint of it: state, prices and
\* stakes, but neither the ids nor the ages of the quotes.
Item(outcome, q) ==
  [state |-> outcome.state, plan |-> outcome.plan, prices |-> [s \in Selections |-> q[s].price]]

Fingerprint(item) == item

\* Fault: the tracker remembers one item for the whole event.
TrackerKeyOfEvent(m) == CHOOSE x \in Markets : TRUE
\* _logical_key
TrackerKey(m) == m

AlertKind(m, item) ==
  LET previous == tracked[TrackerKey(m)]
  IN  IF TrackerKey(m) \notin DOMAIN tracked
      THEN IF item.state \in InactiveStates THEN "expired" ELSE "created"
      ELSE IF item.state \in InactiveStates /\ previous.state \notin InactiveStates
      THEN "expired"
      ELSE IF Fingerprint(item) # previous.fingerprint THEN "changed" ELSE "none"

\* A dict with one key set.
Put(dict, key, value) ==
  [k \in DOMAIN dict \cup {key} |-> IF k = key THEN value ELSE dict[k]]

\* AlertTracker.evaluate
Track(m, item) ==
  LET kind == AlertKind(m, item)
  IN  /\ tracked' = Put(tracked, TrackerKey(m),
                        [state |-> item.state, fingerprint |-> Fingerprint(item)])
      /\ alerts' = IF kind = "none" THEN {} ELSE {[market |-> m, kind |-> kind, item |-> item]}
      /\ believed' = IF kind = "none" THEN believed ELSE Put(believed, m, item)

-----------------------------------------------------------------------------

Init ==
  /\ policy \in Policies
  /\ reported = [m \in Markets |-> NoItem]
  /\ evaluation = NoItem
  /\ tracked = <<>>
  /\ alerts = {}
  /\ believed = <<>>
  /\ portfolio = <<>>

\* The scanner reports an opportunity of the market.
Report(m) ==
  /\ reported[m] = NoItem
  /\ \E p \in [Selections -> Prices] :
       IsArbitrageAt(p) /\ reported' = [reported EXCEPT ![m] = p]
  /\ evaluation' = NoItem /\ alerts' = {} /\ portfolio' = <<>>
  /\ UNCHANGED <<policy, tracked, believed>>

\* The opportunity is revalidated and the outcome shown. When the call raises
\* nothing is shown and the tracker is not asked.
Revalidate(m) ==
  /\ reported[m] # NoItem
  /\ \E q \in Quotes :
       LET outcomes == Revalidations(m, q)
       IN  \/ \E outcome \in outcomes :
                /\ evaluation' = [market |-> m, quotes |-> q, outcome |-> outcome]
                /\ Track(m, Item(outcome, q))
           \/ /\ outcomes = {}
              /\ evaluation' = NoItem /\ alerts' = {}
              /\ UNCHANGED <<tracked, believed>>
  /\ portfolio' = <<>>
  /\ UNCHANGED <<policy, reported>>

\* evaluate_exchange_portfolio reads and writes no state: it is enough to ask it
\* before anything is reported.
EvaluatePortfolio ==
  /\ portfolio = <<>> /\ \A m \in Markets : reported[m] = NoItem
  /\ portfolio' \in Portfolios
  /\ evaluation' = NoItem /\ alerts' = {}
  /\ UNCHANGED <<policy, reported, tracked, believed>>

Next == EvaluatePortfolio \/ \E m \in Markets : Report(m) \/ Revalidate(m)

Spec == Init /\ [][Next]_vars

-----------------------------------------------------------------------------
(* Properties                                                              *)

\* What is called actionable can be acted on without loss: the quotes are the
\* reported ones, open and of a possible age, the stakes are on the grid, within
\* the bounds and the exposure, and whichever selection wins the rounded payout
\* exceeds the stakes and, after commission and tax, the wanted profit. The
\* reference is the settlement of the stakes, not the margin.
ActionableIsSafe ==
  evaluation # NoItem /\ evaluation.outcome.state = "actionable" =>
    LET q == evaluation.quotes
        price == [s \in Selections |-> q[s].price]
        plan == evaluation.outcome.plan
    IN  /\ \A s \in Selections : q[s].same /\ q[s].active /\ q[s].age = "recent"
        /\ plan.amounts \in SafeStakes(price, policy.constraints, Exposure, 0)
        /\ \A s \in Selections :
             (ConservativePayout(plan.amounts[s], price[s]) - plan.total)
               * (100 - policy.commission) * (100 - policy.tax) >= policy.minimumProfit * 10000

\* allocate_stakes is "or return None if none is safe": when an opportunity is
\* put aside because of stake constraints, no stakes on the grid within the
\* bounds win whichever selection wins. The descent from breakpoint to
\* breakpoint skips no safe plan.
NoSafePlanMissed ==
  evaluation # NoItem /\ evaluation.outcome.reason = "stake_constraints" =>
    SafeStakes([s \in Selections |-> evaluation.quotes[s].price],
               policy.constraints, Exposure, 0) = {}

\* The alerts alone tell a reader what the dashboard shows, and tell nothing
\* twice: after every evaluation the item of the market's last alert is the item
\* shown, and an alert is raised only for an item that differs from it, though
\* quotes are refreshed with other ids and ages all the time and the tracker
\* keeps only a state and a fingerprint of each market.
AlertsExact ==
  [][evaluation' # NoItem =>
       LET item == Item(evaluation'.outcome, evaluation'.quotes)
           m == evaluation'.market
       IN  /\ m \in DOMAIN believed' /\ believed'[m] = item
           /\ alerts' # {} <=> ~(m \in DOMAIN believed /\ believed[m] = item)]_vars

\* Three ways to write a portfolio that must not matter. A stake taken in two
\* parts is accepted just when it was and yields the same, so legs cannot share
\* liquidity twice. What is backed and laid at the same price in one account, in
\* a market of any number of runners, adds nothing, and with two runners a lay
\* yields what backing the other yields, commission included: commission is on
\* the account's net winnings and not on legs.
PortfoliosEquivalent ==
  portfolio # <<>> =>
    /\ \A i \in DOMAIN portfolio :
         portfolio[i].stake > 1 => SameOutcome(portfolio, Split(portfolio, i))
    /\ Accepted(portfolio) =>
         \A i \in {j \in DOMAIN portfolio : IsExchange(portfolio[j])}, w \in Runners :
           /\ NetProfit(Opposed(portfolio, i), w) = NetProfit(portfolio, w)
           /\ /\ portfolio[i].side = "lay" /\ WholeLay(portfolio[i])
              /\ Runners = {portfolio[i].runner, Other(portfolio[i].runner)}
              => NetProfit([portfolio EXCEPT ![i] = AsBack(@)], w) = NetProfit(portfolio, w)

-----------------------------------------------------------------------------
(* Inductive invariant                                                     *)

\* The tracker remembers, of exactly the markets there was an alert for, the
\* state and the fingerprint of the item of the last alert.
TrackerAgrees ==
  /\ DOMAIN tracked = DOMAIN believed
  /\ \A m \in DOMAIN believed :
       tracked[m] = [state |-> believed[m].state, fingerprint |-> Fingerprint(believed[m])]

AdviceInv ==
  /\ policy \in Policies /\ portfolio \in Portfolios \cup {<<>>}
  /\ TrackerAgrees /\ ActionableIsSafe /\ NoSafePlanMissed
=============================================================================
