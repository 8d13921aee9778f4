------------------------ MODULE MCOpportunityAdvice -------------------------
(* Finite instance of OpportunityAdvice: a market of two selections.        *)
EXTENDS OpportunityAdvice

CONSTANTS home, away, m1, m2
MCSymmetry == Permutations({m1, m2})

Good(p) == [same |-> TRUE, price |-> p, active |-> TRUE, age |-> "recent"]
Faulty(p) == {[Good(p) EXCEPT !.same = FALSE], [Good(p) EXCEPT !.active = FALSE],
              [Good(p) EXCEPT !.age = "ahead"], [Good(p) EXCEPT !.age = "old"]}
BothQuotes(h, a) == [s \in {home, away} |-> IF s = home THEN h ELSE a]

\* Pairs of prices with good quotes, no arbitrage among them, and one pair with a
\* single fault.
MCQuotes == {BothQuotes(Good(p[1]), Good(p[2])) :
               p \in {<<19, 19>>, <<19, 25>>, <<25, 19>>, <<21, 21>>, <<21, 25>>}}
              \cup {BothQuotes(f, Good(25)) : f \in Faulty(25)}

Bounds(increment, minimum, maximum) ==
  [increment |-> increment, minimum |-> minimum, maximum |-> maximum]
Free == Bounds(1, 0, NoLimit)
WithPolicy(bankroll, exposure, h, a) ==
  [bankroll |-> bankroll, exposure |-> exposure,
   constraints |-> [s \in {home, away} |-> IF s = home THEN h ELSE a],
   minimumProfit |-> 0, minimumRoi |-> 0, drift |-> NoLimit, commission |-> 0, tax |-> 0,
   foreign |-> FALSE]

MCPolicies ==
  {WithPolicy(21, NoLimit, Free, Free),
   WithPolicy(12, NoLimit, Bounds(1, 8, NoLimit), Free),
   WithPolicy(30, 14, Bounds(2, 3, 9), Bounds(3, 0, NoLimit)),
   WithPolicy(9, NoLimit, Bounds(5, 0, NoLimit), Bounds(1, 0, 3)),
   [WithPolicy(20, NoLimit, Bounds(1, 0, 7), Bounds(2, 0, NoLimit)) EXCEPT
      !.minimumProfit = 1, !.minimumRoi = 8, !.drift = 5, !.commission = 10, !.tax = 20],
   [WithPolicy(12, NoLimit, Free, Free) EXCEPT !.foreign = TRUE]}

\* Two runners; all lay stakes but 3 at 15 have a whole equivalent.
Leg(venue, runner, side, price, stake, available) ==
  [venue |-> venue, transport |-> "feed", market |-> "this", scope |-> "account",
   runner |-> runner, side |-> side, price |-> price, stake |-> stake,
   available |-> available, rate |-> 5, status |-> "active", verified |-> TRUE]
MCLegs ==
  {Leg("exchange", r, side, p, s, 4) :
     r \in {home, away}, side \in {"back", "lay"}, p \in {15, 20, 30}, s \in {2, 4, 5}}
  \cup {Leg("exchange", home, "lay", 15, 3, 4),
        [Leg("exchange", home, "lay", 20, 2, 4) EXCEPT !.rate = 2],
        [Leg("exchange", home, "lay", 20, 2, 4) EXCEPT !.scope = "other", !.rate = 2],
        [Leg("exchange", home, "lay", 20, 2, 3) EXCEPT !.side = Unknown],
        [Leg("exchange", home, "lay", 20, 2, 3) EXCEPT !.verified = FALSE],
        [Leg("exchange", home, "lay", 20, 2, 3) EXCEPT !.available = Unknown],
        [Leg("exchange", away, "back", 20, 2, 4) EXCEPT !.market = "another"],
        [Leg("bookmaker", away, "back", 25, 2, 9) EXCEPT !.rate = 0],
        [Leg("bookmaker", away, "back", 25, 2, 9) EXCEPT !.rate = 0, !.status = "suspended"]}
MCPortfolios == {<<l>> : l \in MCLegs} \cup {<<l, k>> : l \in MCLegs, k \in MCLegs}
=============================================================================
