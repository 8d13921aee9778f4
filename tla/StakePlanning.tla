--------------------------- MODULE StakePlanning ----------------------------
(***************************************************************************)
(* arbitrage/staking.py: a stake plan whose payouts, rounded down to the   *)
(* currency quantum, exceed what is staked whichever selection wins.       *)
(*                                                                         *)
(* Money is counted in quanta, prices in tenths. The code computes with 50 *)
(* decimal digits: a quotient that lies on the grid may come out a little  *)
(* below it, and then floors one quantum lower. That is the only rounding  *)
(* that these magnitudes can show, so StartTargets is a set.               *)
(***************************************************************************)
EXTENDS Integers, FiniteSets, FiniteSetsExt

CONSTANTS
  Selections, \* the selections of the market, in any order
  NoPlan,     \* None
  NoLimit     \* an optional bound that is not given

ASSUME SelectionsAssumption == IsFiniteSet(Selections) /\ Selections # {}
ASSUME NoLimitAssumption == NoLimit \notin Int
ASSUME NoPlanAssumption ==
  /\ NoPlan \notin [num : Int, den : Int]
  /\ NoPlan \notin [amounts : [Selections -> Nat], total : Nat, payout : Nat, profit : Int]

PriceUnit == 10

FloorToGrid(v, step) == (v \div step) * step
CeilToGrid(v, step) == ((v + step - 1) \div step) * step
ConservativePayout(stake, price) == (stake * price) \div PriceUnit

\* _effective_constraints: bounds moved to the stake grid; a stake is at least
\* one increment. A feasible one leaves a stake between them.
EffectiveConstraint(c) ==
  [minimum |-> Max({c.increment, CeilToGrid(c.minimum, c.increment)}),
   maximum |-> IF c.maximum = NoLimit THEN NoLimit ELSE FloorToGrid(c.maximum, c.increment),
   increment |-> c.increment]
Feasible(e) == e.maximum = NoLimit \/ e.maximum >= e.minimum

\* The sum of the stakes.
StakeTotal(amount) == MapThenSumSet(LAMBDA s : amount[s], Selections)

MinimumTotal(e, sels) == MapThenSumSet(LAMBDA s : e[s].minimum, sels)
Product(price, sels) == MapThenFoldSet(LAMBDA x, y : x * y, 1, LAMBDA s : price[s],
                                       LAMBDA T : CHOOSE s \in T : TRUE, sels)

\* (bankroll - fixed) / reciprocal_sum of the selections not yet fixed
TargetNumerator(price, sels, money) == money * Product(price, sels)
TargetDenominator(price, sels) ==
  PriceUnit * MapThenSumSet(LAMBDA s : Product(price, sels \ {s}), sels)

\* The payout that would use up the bankroll if stakes were not rounded:
\* selections whose share is below their minimum are fixed at it, and the rest
\* is divided anew.
ContinuousTarget(price, e, bankroll) ==
  LET target[free \in SUBSET Selections] ==
        LET n == TargetNumerator(price, free, bankroll - MinimumTotal(e, Selections \ free))
            d == TargetDenominator(price, free)
            violating == {s \in free : n * PriceUnit < e[s].minimum * price[s] * d}
        IN  IF violating = {} THEN [num |-> n, den |-> d] ELSE target[free \ violating]
  IN  IF MinimumTotal(e, Selections) > bankroll THEN NoPlan ELSE target[Selections]

Caps(price, e) ==
  {ConservativePayout(e[s].maximum, price[s]) : s \in {x \in Selections : e[x].maximum # NoLimit}}

StartTargets(price, e, bankroll) ==
  LET t == ContinuousTarget(price, e, bankroll)
      floor == t.num \div t.den
  IN  IF t = NoPlan THEN {}
      ELSE {Min({f} \cup Caps(price, e)) :
              f \in IF t.num % t.den = 0 THEN {floor, floor - 1} ELSE {floor}}

\* _minimum_stake_for_target
MinimumStake(price, e, target) ==
  Max({e.minimum, CeilToGrid((target * PriceUnit + price - 1) \div price, e.increment)})

\* _evaluate_target_payout
TargetPlan(price, e, target) ==
  LET amount == [s \in Selections |-> MinimumStake(price[s], e[s], target)]
      total == StakeTotal(amount)
      payout == Min({ConservativePayout(amount[s], price[s]) : s \in Selections})
  IN  IF \E s \in Selections : e[s].maximum # NoLimit /\ amount[s] > e[s].maximum
      THEN NoPlan
      ELSE [amounts |-> amount, total |-> total, payout |-> payout, profit |-> payout - total]

\* _next_lower_payout_breakpoint: the payouts one increment below
LowerPayouts(price, e, plan, target) ==
  {p \in {ConservativePayout(plan.amounts[s] - e[s].increment, price[s]) :
            s \in {x \in Selections : plan.amounts[x] - e[x].increment >= e[x].minimum}} :
     0 < p /\ p < target}

\* Fault: the search stops at the first target.
NextTargetsNone(price, e, plan, target) == {}

\* Targets the search may go on with.
NextTargets(price, e, plan, target) == LowerPayouts(price, e, plan, target)

\* The loop of _find_safe_discrete_plan, for every target it may come to.
Search(price, e, bankroll, start, threshold) ==
  LET search[target \in 0..start] ==
        LET plan == TargetPlan(price, e, target)
            lower == NextTargets(price, e, plan, target)
        IN  IF target = 0 \/ plan = NoPlan THEN NoPlan
            ELSE IF plan.total <= bankroll /\ plan.profit > 0 /\ plan.profit >= threshold
            THEN plan
            ELSE IF lower = {} THEN NoPlan ELSE search[Max(lower)]
  IN  search

\* _find_safe_discrete_plan: only a positive payout is a target.
SafeDiscretePlan(price, e, bankroll, start, threshold) ==
  IF start \in Nat \ {0} THEN Search(price, e, bankroll, start, threshold)[start] ELSE NoPlan

\* allocate_stakes on quotes that match the opportunity: the plans it may return
AllocateStakes(price, constraints, bankroll, threshold) ==
  LET e == [s \in Selections |-> EffectiveConstraint(constraints[s])]
      starts == StartTargets(price, e, bankroll)
  IN  IF (\E s \in Selections : ~Feasible(e[s])) \/ starts = {} THEN {NoPlan}
      ELSE {SafeDiscretePlan(price, e, bankroll, start, threshold) : start \in starts}

-----------------------------------------------------------------------------
(* Reference                                                               *)

\* Every way to stake on the grid, within the bounds and the bankroll, that
\* wins more than the threshold whichever selection wins.
SafeStakes(price, constraints, bankroll, threshold) ==
  {amount \in [Selections -> 1..bankroll] :
     LET total == StakeTotal(amount)
     IN  /\ total <= bankroll
         /\ \A s \in Selections :
              /\ amount[s] % constraints[s].increment = 0
              /\ amount[s] >= constraints[s].minimum
              /\ constraints[s].maximum = NoLimit \/ amount[s] <= constraints[s].maximum
              /\ ConservativePayout(amount[s], price[s]) - total > 0
              /\ ConservativePayout(amount[s], price[s]) - total >= threshold}
=============================================================================
