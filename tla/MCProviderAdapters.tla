------------------------ MODULE MCProviderAdapters --------------------------
(* Finite instance of ProviderAdapters: a competition of each sport, a      *)
(* football fixture that is corrected and rescheduled.                      *)
EXTENDS ProviderAdapters, TLC

CONSTANTS c1, c2
MCSymmetry == Permutations({c1, c2})

MCSportOf == [k \in {"epl", "atp", "nba"} |->
                CASE k = "epl" -> "football" [] k = "atp" -> "tennis" [] k = "nba" -> "basketball"]

Meeting(k, h, a, s) == [competition |-> k, home |-> h, away |-> a, start |-> s]
MCFixtures ==
  {Meeting("epl", "A", "B", 1), Meeting("epl", "B", "A", 1), Meeting("epl", "A", "B", 2),
   Meeting("atp", "C", "D", 1), Meeting("nba", "E", "F", 1)}

Record(id, sport, name, period, type, handicap, prop, outcomes) ==
  [id |-> id, sport |-> sport, name |-> name, period |-> period, type |-> type,
   handicap |-> handicap, playerProp |-> prop, outcomes |-> outcomes]
TwoOutcomes(a, b) == [o \in {1, 2} |-> IF o = 1 THEN a ELSE b]
Winners == [o \in 101..103 |-> <<"1", "x", "2">>[o - 100]]

\* Documented markets of every sport, and near misses: a half-time result, a
\* player prop, a total without a line, a set winner with the wrong period.
FullCatalogue ==
  {Record(101, "football", "full time result", "fulltime", "1x2", 0, FALSE, Winners),
   Record(1, "football", "over under full time", "fulltime", "totals", 3, FALSE, TwoOutcomes("over", "under")),
   Record(2, "football", "over under full time", "fulltime", "totals", 0, FALSE, TwoOutcomes("over", "under")),
   Record(3, "football", "asian handicap", "fulltime", "handicap", -1, FALSE, TwoOutcomes("1", "2")),
   Record(4, "football", "asian handicap", "fulltime", "handicap", 2, FALSE, TwoOutcomes("2", "1")),
   Record(5, "football", "both teams to score", "fulltime", "totals", 0, FALSE, TwoOutcomes("yes", "no")),
   Record(6, "football", "full time result", "p1", "1x2", 0, FALSE, Winners),
   Record(123, "tennis", "first set winner", "p1", "winner", 0, FALSE, TwoOutcomes("1", "2")),
   Record(125, "tennis", "second set winner", "p1", "winner", 0, FALSE, TwoOutcomes("1", "2")),
   Record(7, "tennis", "match winner", "match", "winner", 0, TRUE, TwoOutcomes("1", "2")),
   Record(8, "basketball", "handicap (incl. overtime)", "fulltime", "handicap", 3, FALSE, TwoOutcomes("1", "2")),
   Record(9, "basketball", "over under (incl. overtime)", "fulltime", "totals", 4, FALSE, TwoOutcomes("over", "under"))}

\* The provider changes the outcomes of one market and the line of another.
ChangedCatalogue ==
  {Record(3, "football", "asian handicap", "fulltime", "handicap", 1, FALSE, TwoOutcomes("1", "2")),
   Record(5, "football", "both teams to score", "fulltime", "totals", 0, FALSE,
          [o \in {1, 3} |-> IF o = 1 THEN "yes" ELSE "no"])}

MCCatalogues == {FullCatalogue, ChangedCatalogue}

Outcome(side, point) == [side |-> side, point |-> point]
SidePairs == {<<"home", "away">>, <<"away", "home">>, <<"home", "home">>, <<"over", "under">>,
              <<"over", "over">>, <<"yes", "no">>}
PointPairs == {<<NoValue, NoValue>>, <<0, 0>>, <<1, 1>>, <<-1, 1>>, <<2, -2>>, <<3, NoValue>>, <<3, 1>>}
\* Scores up to a margin of two goals and a total of three.
MCResults == [margin : -2..2, total : 0..3, both : BOOLEAN]

MCRawMarkets ==
  {[key |-> k, verified |-> v,
    outcomes |-> <<Outcome(s[1], p[1]), Outcome(s[2], p[2])>>] :
     k \in MarketKeys, v \in BOOLEAN, s \in SidePairs, p \in PointPairs}
  \cup {[key |-> k, verified |-> TRUE, outcomes |-> o] :
          k \in MarketKeys,
          o \in {<<>>, <<Outcome("home", NoValue)>>,
                 <<Outcome("home", NoValue), Outcome("draw", NoValue), Outcome("away", NoValue)>>}}

\* An overdrawn current subscription, and the first active one.
Plan(id, active, count) == [id |-> id, active |-> active, limit |-> 1, count |-> count]
MCAccounts ==
  {[current |-> 2, subscriptions |-> <<Plan(1, TRUE, 0), Plan(2, FALSE, 2)>>],
   [current |-> NoValue, subscriptions |-> <<Plan(1, FALSE, 2), Plan(2, TRUE, 0)>>]}

\* No quota headers, both counts, only Retry-After.
MCHeaders ==
  {[remaining |-> NoValue, used |-> NoValue, retryAfter |-> NoValue],
   [remaining |-> 1, used |-> 1, retryAfter |-> NoValue],
   [remaining |-> NoValue, used |-> NoValue, retryAfter |-> 1]}
=============================================================================
