----------------------- MODULE ProviderAdaptersProofs -----------------------
(***************************************************************************)
(* Proofs about ProviderAdapters for any number of callers, competitions,  *)
(* fixtures, catalogues and raw markets, and every result of an event.     *)
(***************************************************************************)
EXTENDS ProviderAdapters, TLAPS

-----------------------------------------------------------------------------
(* How calls begin and end.                                                *)

\* A call in flight is a record of its operation, and has emitted nothing.
LEMMA InFlight ==
  ASSUME NEW x \in Calls
  PROVE  /\ x = Idle <=> x.op = "none"
         /\ x # Idle => /\ x.op \in {"discover_competitions", "discover_events", "fetch_odds"}
                        /\ x.emitted = <<>>
                        /\ x = Waiting(x.op, x.at, x.read, x.seen, <<>>)
  BY DEF Calls, Idle, Discoveries, PapiFetches, OddsApiFetches, Waiting

\* A refusal is silent.
LEMMA Refused ==
  ASSUME NEW c, NEW op, NEW kind, Refuse(c, op, kind)
  PROVE  call' = call /\ TelemetryAgrees' /\ ~Fetched'
  BY DEF Refuse, AtOnce, TelemetryAgrees, Fetched

\* An operation of one request that fails emits its failure; health translates
\* the failure it emits.
LEMMA FailedAtOnce ==
  ASSUME NEW c, NEW op, NEW kind, FailAtOnce(c, op, kind), op # "fetch_odds"
  PROVE  call' = call /\ TelemetryAgrees' /\ ~Fetched'
  <1>1. HealthState(kind) # "healthy"
    BY DEF HealthState
  <1>2. /\ Len(<<Failure(kind)>>) = 1
        /\ <<Failure(kind)>>[1].outcome = "FAILURE" /\ <<Failure(kind)>>[1].kind = kind
    BY DEF Failure
  <1>3. CASE op = "health"
    <2>1. /\ call' = call
          /\ result' = [op |-> op, ok |-> TRUE, value |-> HealthState(kind), asked |-> 1,
                        emitted |-> <<Failure(kind)>>]
      BY <1>3 DEF FailAtOnce, AtOnce
    <2> HIDE DEF HealthState
    <2> QED BY <1>1, <1>2, <1>3, <2>1 DEF TelemetryAgrees, Fetched
  <1>4. CASE op # "health"
    <2>1. /\ call' = call
          /\ result' = [op |-> op, ok |-> FALSE, value |-> kind, asked |-> 1,
                        emitted |-> <<Failure(kind)>>]
      BY <1>4 DEF FailAtOnce, AtOnce
    <2> QED BY <1>2, <1>4, <2>1 DEF TelemetryAgrees, Fetched
  <1> QED BY <1>3, <1>4

\* A call that waits has its operation's record; the others keep theirs.
LEMMA Began ==
  ASSUME AdapterInv, NEW c \in Callers, NEW op, NEW path, NEW read, NEW seen,
         Begin(c, op, path, read, seen, <<>>), Waiting(op, path, read, seen, <<>>) \in Calls
  PROVE  call' \in [Callers -> Calls] /\ TelemetryAgrees' /\ ~Fetched'
  BY DEF Begin, AdapterInv, TelemetryAgrees, Fetched

\* A call in flight that ends well emits one success.
LEMMA EndedWell ==
  ASSUME AdapterInv, NEW c \in Callers, call[c] # Idle, NEW value,
         NEW calls \in [Callers -> Calls],
         EndAmong(calls, c, TRUE, value, <<Success>>)
  PROVE  call' \in [Callers -> Calls] /\ TelemetryAgrees' /\ (call[c].op # "fetch_odds" => ~Fetched')
  <1>1. /\ call[c].op \in {"discover_competitions", "discover_events", "fetch_odds"}
        /\ call[c].emitted = <<>>
    BY InFlight DEF AdapterInv
  <1>2. <<>> \o <<Success>> = <<Success>>
    OBVIOUS
  <1>3. /\ call' = [calls EXCEPT ![c] = Idle]
        /\ result' = [op |-> call[c].op, ok |-> TRUE, value |-> value, asked |-> 1,
                      emitted |-> <<Success>>]
    BY <1>1, <1>2 DEF EndAmong
  <1>4. Idle \in Calls
    BY DEF Calls
  <1> QED BY <1>1, <1>3, <1>4 DEF TelemetryAgrees, Fetched

\* A call in flight that fails emits the failure it raises.
LEMMA EndedFailed ==
  ASSUME AdapterInv, NEW c \in Callers, call[c] # Idle, NEW kind, EndFailed(c, kind)
  PROVE  call' \in [Callers -> Calls] /\ TelemetryAgrees' /\ ~Fetched'
  <1>1. /\ call[c].op \in {"discover_competitions", "discover_events", "fetch_odds"}
        /\ call[c].emitted = <<>>
    BY InFlight DEF AdapterInv
  <1>2. /\ <<>> \o <<Failure(kind)>> = <<Failure(kind)>> /\ Len(<<Failure(kind)>>) = 1
        /\ <<Failure(kind)>>[1].outcome = "FAILURE" /\ <<Failure(kind)>>[1].kind = kind
    BY DEF Failure
  <1>3. /\ call' = [call EXCEPT ![c] = Idle]
        /\ result' = [op |-> call[c].op, ok |-> FALSE, value |-> kind, asked |-> 1,
                      emitted |-> <<Failure(kind)>>]
    BY <1>1, <1>2 DEF EndFailed, End, EndAmong
  <1>4. Idle \in Calls
    BY DEF Calls
  <1> QED BY <1>1, <1>2, <1>3, <1>4 DEF TelemetryAgrees, Fetched, AdapterInv

-----------------------------------------------------------------------------
(* Which selections exclude each other.                                    *)

\* The selections of a market with two outcomes.
Selections(a, h, b, g) == {[side |-> a, handicap |-> h], [side |-> b, handicap |-> g]}

\* Two selections of which, whatever the result, one wins what the other loses.
LEMMA TwoSidesSettle ==
  ASSUME NEW kind, NEW line, NEW a, NEW b, NEW drawn \in BOOLEAN,
         \A r \in Results : drawn \/ r.margin # 0 =>
           \/ Settle(kind, line, a, r) = 0 /\ Settle(kind, line, b, r) = 0
           \/ Settle(kind, line, a, r) = 1 /\ Settle(kind, line, b, r) = -1
           \/ Settle(kind, line, a, r) = -1 /\ Settle(kind, line, b, r) = 1
  PROVE  SettlesExclusively(kind, line, {a, b}, drawn)
  BY DEF SettlesExclusively

\* Opposite handicaps, opposite sides of a line, yes and no.
LEMMA HandicapSettles ==
  ASSUME NEW h \in Int, NEW g \in Int, h + g = 0, NEW line, NEW drawn \in BOOLEAN
  PROVE  SettlesExclusively("handicap", line, Selections("home", h, "away", g), drawn)
  <1> DEFINE a == [side |-> "home", handicap |-> h]
             b == [side |-> "away", handicap |-> g]
  <1>1. ASSUME NEW r \in Results
        PROVE  /\ Settle("handicap", line, a, r) = Sign(2 * r.margin + h)
               /\ Settle("handicap", line, b, r) = Sign(g - 2 * r.margin)
               /\ r.margin \in Int
    BY ResultsAssumption DEF Settle
  <1>2. ASSUME NEW n \in Int PROVE \/ Sign(n) = 0 /\ Sign(-n) = 0
                                   \/ Sign(n) = 1 /\ Sign(-n) = -1
                                   \/ Sign(n) = -1 /\ Sign(-n) = 1
    BY DEF Sign
  <1>3. ASSUME NEW r \in Results
        PROVE  \/ Settle("handicap", line, a, r) = 0 /\ Settle("handicap", line, b, r) = 0
               \/ Settle("handicap", line, a, r) = 1 /\ Settle("handicap", line, b, r) = -1
               \/ Settle("handicap", line, a, r) = -1 /\ Settle("handicap", line, b, r) = 1
    <2>1. 2 * r.margin + h \in Int /\ g - 2 * r.margin = -(2 * r.margin + h)
      BY <1>1
    <2> HIDE DEF a, b
    <2> QED BY <1>1, <1>2, <2>1
  <1> HIDE DEF a, b
  <1>4. SettlesExclusively("handicap", line, {a, b}, drawn)
    BY <1>3, TwoSidesSettle
  <1> QED BY <1>4 DEF a, b, Selections

\* Over and under one line.
LEMMA TotalSettles ==
  ASSUME NEW line \in Int, NEW drawn \in BOOLEAN
  PROVE  SettlesExclusively("total", line, Selections("over", NoValue, "under", NoValue), drawn)
  <1> DEFINE a == [side |-> "over", handicap |-> NoValue]
             b == [side |-> "under", handicap |-> NoValue]
  <1>1. ASSUME NEW r \in Results
        PROVE  /\ Settle("total", line, a, r) = Sign(2 * r.total - line)
               /\ Settle("total", line, b, r) = Sign(line - 2 * r.total)
               /\ r.total \in Int
    BY ResultsAssumption DEF Settle
  <1>2. ASSUME NEW r \in Results
        PROVE  \/ Settle("total", line, a, r) = 0 /\ Settle("total", line, b, r) = 0
               \/ Settle("total", line, a, r) = 1 /\ Settle("total", line, b, r) = -1
               \/ Settle("total", line, a, r) = -1 /\ Settle("total", line, b, r) = 1
    <2> HIDE DEF a, b
    <2> QED BY <1>1 DEF Sign
  <1> HIDE DEF a, b
  <1>3. SettlesExclusively("total", line, {a, b}, drawn)
    BY <1>2, TwoSidesSettle
  <1> QED BY <1>3 DEF a, b, Selections

\* Both teams score or not.
LEMMA BothSettles ==
  ASSUME NEW line, NEW drawn \in BOOLEAN
  PROVE  SettlesExclusively("both", line, Selections("yes", NoValue, "no", NoValue), drawn)
  <1> DEFINE a == [side |-> "yes", handicap |-> NoValue]
             b == [side |-> "no", handicap |-> NoValue]
  <1>1. ASSUME NEW r \in Results
        PROVE  \/ Settle("both", line, a, r) = 0 /\ Settle("both", line, b, r) = 0
               \/ Settle("both", line, a, r) = 1 /\ Settle("both", line, b, r) = -1
               \/ Settle("both", line, a, r) = -1 /\ Settle("both", line, b, r) = 1
    BY ResultsAssumption DEF Settle
  <1> HIDE DEF a, b
  <1>2. SettlesExclusively("both", line, {a, b}, drawn)
    BY <1>1, TwoSidesSettle
  <1> QED BY <1>2 DEF a, b, Selections

\* The winner of a contest that cannot be drawn.
LEMMA WinnerSettles ==
  ASSUME NEW line
  PROVE  SettlesExclusively("result", line, Selections("home", NoValue, "away", NoValue), FALSE)
  <1> DEFINE a == [side |-> "home", handicap |-> NoValue]
             b == [side |-> "away", handicap |-> NoValue]
  <1>1. ASSUME NEW r \in Results, r.margin # 0
        PROVE  \/ Settle("result", line, a, r) = 1 /\ Settle("result", line, b, r) = -1
               \/ Settle("result", line, a, r) = -1 /\ Settle("result", line, b, r) = 1
    BY <1>1, ResultsAssumption DEF Settle
  <1> HIDE DEF a, b
  <1>2. SettlesExclusively("result", line, {a, b}, FALSE)
    BY <1>1, TwoSidesSettle
  <1> QED BY <1>2 DEF a, b, Selections

\* The three results of a contest that can be drawn.
LEMMA ThreeWaySettles ==
  ASSUME NEW line
  PROVE  SettlesExclusively("result", line, {[side |-> "home", handicap |-> NoValue],
                                             [side |-> "draw", handicap |-> NoValue],
                                             [side |-> "away", handicap |-> NoValue]}, TRUE)
  <1> DEFINE a == [side |-> "home", handicap |-> NoValue]
             d == [side |-> "draw", handicap |-> NoValue]
             b == [side |-> "away", handicap |-> NoValue]
             S(x, r) == Settle("result", line, x, r)
  <1>1. ASSUME NEW r \in Results
        PROVE  \/ S(a, r) = 1 /\ S(d, r) = -1 /\ S(b, r) = -1
               \/ S(a, r) = -1 /\ S(d, r) = 1 /\ S(b, r) = -1
               \/ S(a, r) = -1 /\ S(d, r) = -1 /\ S(b, r) = 1
    BY ResultsAssumption DEF Settle
  <1> HIDE DEF a, b, d
  <1>2. SettlesExclusively("result", line, {a, d, b}, TRUE)
    BY <1>1 DEF SettlesExclusively
  <1> QED BY <1>2 DEF a, b, d

-----------------------------------------------------------------------------
(* The Odds API: the shape checks of _source_markets are enough.           *)

\* The market has one outcome of each side.
Two(m, a, b) == TwoOf(m, {a, b})

\* A sequence of two.
LEMMA PairOf ==
  ASSUME NEW S, NEW s \in Seq(S)
  PROVE  /\ \A i \in DOMAIN s : s[i] \in S
         /\ Len(s) = 2 => DOMAIN s = {1, 2}
  OBVIOUS

\* Every point is a number or missing.
LEMMA PointsOf ==
  ASSUME NEW m \in RawMarkets
  PROVE  /\ \A i \in DOMAIN m.outcomes : m.outcomes[i].point \in Int \cup {NoValue}
         /\ Len(m.outcomes) = 2 => DOMAIN m.outcomes = {1, 2}
  <1> DEFINE S == [side : STRING, point : Int \cup {NoValue}]
  <1>1. m.outcomes \in Seq(S)
    BY RawMarketsAssumption
  <1>2. \A x \in S : x.point \in Int \cup {NoValue}
    OBVIOUS
  <1> HIDE DEF S
  <1> QED BY <1>1, <1>2, PairOf

\* A market that passes the check for two sides has one outcome of each, in
\* either order.
LEMMA OneOfEachSide ==
  ASSUME NEW m \in RawMarkets, NEW a, NEW b, a # b, Two(m, a, b)
  PROVE  \E i, j \in {1, 2} :
           /\ i # j /\ DOMAIN m.outcomes = {i, j}
           /\ m.outcomes[i].side = a /\ m.outcomes[j].side = b
           /\ PointOf(m, a) = m.outcomes[i].point
           /\ PointOf(m, b) = m.outcomes[j].point
           /\ m.outcomes[i].point \in Int \cup {NoValue}
           /\ m.outcomes[j].point \in Int \cup {NoValue}
  <1> DEFINE o == m.outcomes
  <1>1. Len(o) = 2
    BY DEF Two, TwoOf
  <1>2. DOMAIN o = {1, 2} /\ o[1].point \in Int \cup {NoValue} /\ o[2].point \in Int \cup {NoValue}
    BY <1>1, PointsOf
  <1>3. {o[i].side : i \in DOMAIN o} = {a, b}
    BY DEF Two, TwoOf, Sides
  <1> HIDE DEF o
  <1>4. PICK i \in {1, 2} : o[i].side = a
    BY <1>2, <1>3
  <1>5. PICK j \in {1, 2} : o[j].side = b
    BY <1>2, <1>3
  <1>6. i # j /\ DOMAIN o = {i, j}
    BY <1>2, <1>4, <1>5
  <1>7. PointOf(m, a) = o[i].point
    <2>1. \A k \in DOMAIN o : o[k].side = a <=> k = i
      BY <1>4, <1>5, <1>6
    <2>2. (CHOOSE k \in DOMAIN o : o[k].side = a) = i
      BY <1>6, <2>1
    <2> QED BY <2>2 DEF PointOf, o
  <1>8. PointOf(m, b) = o[j].point
    <2>1. \A k \in DOMAIN o : o[k].side = b <=> k = j
      BY <1>4, <1>5, <1>6
    <2>2. (CHOOSE k \in DOMAIN o : o[k].side = b) = j
      BY <1>6, <2>1
    <2> QED BY <2>2 DEF PointOf, o
  <1> QED BY <1>2, <1>4, <1>5, <1>6, <1>7, <1>8 DEF o

\* The selections such a market is published with.
LEMMA TwoSelections ==
  ASSUME NEW m \in RawMarkets, NEW a, NEW b, a # b, Two(m, a, b)
  PROVE  \E i, j \in {1, 2} :
           /\ i # j /\ DOMAIN m.outcomes = {i, j}
           /\ PointOf(m, a) = m.outcomes[i].point
           /\ PointOf(m, b) = m.outcomes[j].point
           /\ SourceMarket(m).selections = Selections(a, Handicap(m, m.outcomes[i]), b, Handicap(m, m.outcomes[j]))
  <1>1. PICK i \in {1, 2}, j \in {1, 2} :
           /\ i # j /\ DOMAIN m.outcomes = {i, j}
           /\ m.outcomes[i].side = a /\ m.outcomes[j].side = b
           /\ PointOf(m, a) = m.outcomes[i].point
           /\ PointOf(m, b) = m.outcomes[j].point
    BY OneOfEachSide
  <1>2. SourceMarket(m).selections =
          {[side |-> m.outcomes[k].side, handicap |-> Handicap(m, m.outcomes[k])] : k \in DOMAIN m.outcomes}
    BY DEF SourceMarket
  <1>3. SourceMarket(m).selections =
          {[side |-> m.outcomes[k].side, handicap |-> Handicap(m, m.outcomes[k])] : k \in {i, j}}
    BY <1>1, <1>2
  <1>4. SourceMarket(m).selections = Selections(a, Handicap(m, m.outcomes[i]), b, Handicap(m, m.outcomes[j]))
    BY <1>1, <1>3 DEF Selections
  <1> QED BY <1>1, <1>4

\* The same when both sides have one handicap, or none.
LEMMA UniformSelections ==
  ASSUME NEW m \in RawMarkets, NEW a, NEW b, a # b, Two(m, a, b), NEW h,
         Handicap(m, m.outcomes[1]) = h, Handicap(m, m.outcomes[2]) = h
  PROVE  SourceMarket(m).selections = Selections(a, h, b, h)
  <1>1. PICK i \in {1, 2}, j \in {1, 2} :
           /\ i # j /\ DOMAIN m.outcomes = {i, j}
           /\ PointOf(m, a) = m.outcomes[i].point
           /\ PointOf(m, b) = m.outcomes[j].point
           /\ SourceMarket(m).selections = Selections(a, Handicap(m, m.outcomes[i]), b, Handicap(m, m.outcomes[j]))
    BY TwoSelections
  <1>2. Handicap(m, m.outcomes[i]) = h /\ Handicap(m, m.outcomes[j]) = h
    BY <1>1
  <1> QED BY <1>1, <1>2

\* Whatever passes WellShaped is published with selections that exclude each
\* other and leave no result out.
LEMMA TheOddsApiSettles ==
  ASSUME NEW m \in RawMarkets, NEW sport, WellShaped(m, sport)
  PROVE  TheOddsApiMarketsSettle({SourceMarket(m)})
  <1> DEFINE sm == SourceMarket(m)
  <1> SUFFICES ASSUME m.key # "h2h"
               PROVE  SettlesExclusively(TheOddsApiKind(m.key), sm.line, sm.selections,
                                         m.key \notin {"h2h_s1", "h2h_s2"})
    BY DEF TheOddsApiMarketsSettle, SourceMarket
  <1>1. m.key \in MarketKeys
    BY RawMarketsAssumption
  <1>2. sm.line = MarketLine(m)
    BY DEF SourceMarket
  <1>s. sm = SourceMarket(m)
    OBVIOUS
  <1> HIDE DEF sm
  <1>3. CASE m.key = "totals"
    <2>1. NoValue \notin Points(m) /\ Two(m, "over", "under") /\ "over" # "under"
      BY <1>3 DEF WellShaped, Two
    <2>2. Handicap(m, m.outcomes[1]) = NoValue /\ Handicap(m, m.outcomes[2]) = NoValue
      BY <1>3 DEF Handicap
    <2>3. sm.selections = Selections("over", NoValue, "under", NoValue)
      BY <2>1, <2>2, UniformSelections, <1>s
    <2>4. MarketLine(m) = m.outcomes[1].point /\ TheOddsApiKind(m.key) = "total"
      BY <1>3 DEF MarketLine, TheOddsApiKind
    <2>5. m.outcomes[1].point \in Int
      <3>1. 1 \in DOMAIN m.outcomes /\ m.outcomes[1].point \in Int \cup {NoValue}
        BY <2>1, PointsOf DEF Two, TwoOf
      <3> QED BY <2>1, <3>1 DEF Points
    <2> QED BY <1>2, <1>3, <2>3, <2>4, <2>5, TotalSettles
  <1>4. CASE m.key \in {"h2h_s1", "h2h_s2"}
    <2>1. Two(m, "home", "away") /\ "home" # "away"
      BY <1>4 DEF WellShaped, Two
    <2>2. Handicap(m, m.outcomes[1]) = NoValue /\ Handicap(m, m.outcomes[2]) = NoValue
      BY <1>4 DEF Handicap
    <2>3. sm.selections = Selections("home", NoValue, "away", NoValue)
      BY <2>1, <2>2, UniformSelections, <1>s
    <2>4. TheOddsApiKind(m.key) = "result"
      BY <1>4 DEF TheOddsApiKind
    <2>5. (m.key \notin {"h2h_s1", "h2h_s2"}) = FALSE
      BY <1>4
    <2> QED BY <2>3, <2>4, <2>5, WinnerSettles
  <1>5. CASE m.key = "btts"
    <2>1. Two(m, "yes", "no") /\ "yes" # "no"
      BY <1>5 DEF WellShaped, Two
    <2>2. Handicap(m, m.outcomes[1]) = NoValue /\ Handicap(m, m.outcomes[2]) = NoValue
      BY <1>5 DEF Handicap
    <2>3. sm.selections = Selections("yes", NoValue, "no", NoValue)
      BY <2>1, <2>2, UniformSelections, <1>s
    <2>4. TheOddsApiKind(m.key) = "both"
      BY <1>5 DEF TheOddsApiKind
    <2> QED BY <1>5, <2>3, <2>4, BothSettles
  <1>6. CASE m.key = "draw_no_bet"
    <2>1. Two(m, "home", "away") /\ "home" # "away"
      BY <1>6 DEF WellShaped, Two
    <2>2. Handicap(m, m.outcomes[1]) = 0 /\ Handicap(m, m.outcomes[2]) = 0
      BY <1>6 DEF Handicap
    <2>3. sm.selections = Selections("home", 0, "away", 0)
      BY <2>1, <2>2, UniformSelections, <1>s
    <2>5. 0 \in Int /\ 0 + 0 = 0
      OBVIOUS
    <2>4. TheOddsApiKind(m.key) = "handicap"
      BY <1>6 DEF TheOddsApiKind
    <2>6. SettlesExclusively("handicap", sm.line, sm.selections, TRUE)
      BY <2>3, <2>5, HandicapSettles
    <2> QED BY <1>6, <2>4, <2>6
  <1>7. CASE m.key = "spreads"
    <2>1. NoValue \notin Points(m) /\ Two(m, "home", "away") /\ "home" # "away" /\ OppositePoints(m)
      BY <1>7 DEF WellShaped, Two
    <2>2. \A x : Handicap(m, x) = x.point
      BY <1>7 DEF Handicap
    <2>3. PICK i \in {1, 2}, j \in {1, 2} :
           /\ i # j /\ DOMAIN m.outcomes = {i, j}
           /\ PointOf(m, "home") = m.outcomes[i].point
           /\ PointOf(m, "away") = m.outcomes[j].point
           /\ sm.selections = Selections("home", Handicap(m, m.outcomes[i]), "away", Handicap(m, m.outcomes[j]))
      BY <2>1, TwoSelections, <1>s
    <2>4. m.outcomes[i].point \in Int /\ m.outcomes[j].point \in Int
      <3>1. \A k \in DOMAIN m.outcomes : m.outcomes[k].point \in Int \cup {NoValue}
        BY PointsOf
      <3> QED BY <2>1, <2>3, <3>1 DEF Points
    <2>5. m.outcomes[i].point + m.outcomes[j].point = 0
      BY <2>1, <2>3, <2>4 DEF OppositePoints
    <2>6. sm.selections = Selections("home", m.outcomes[i].point, "away", m.outcomes[j].point)
      BY <2>2, <2>3
    <2>7. TheOddsApiKind(m.key) = "handicap"
      BY <1>7 DEF TheOddsApiKind
    <2> QED BY <1>7, <2>4, <2>5, <2>6, <2>7, HandicapSettles
  <1> QED BY <1>1, <1>3, <1>4, <1>5, <1>6, <1>7 DEF MarketKeys

-----------------------------------------------------------------------------
(* OddsPapi: the checks of the catalogue record are enough.                *)

\* What the source market of an outcome labelled l is published with.
LineOf(m) == IF IsLineName(m) THEN m.handicap ELSE NoValue
HandicapOf(m, l) ==
  IF ~IsHandicapName(m) THEN NoValue ELSE IF l = "1" THEN m.handicap ELSE -m.handicap
SelectionOf(m, l) == [side |-> Side(l), handicap |-> HandicapOf(m, l)]

\* A market of the catalogue is published with one selection for each label, all
\* of one line.
LEMMA PublishedSelections ==
  ASSUME NEW m, DOMAIN m.outcomes # {}, NEW answer, NEW preMatch
  PROVE  LET markets == SourceMarkets(m, answer, preMatch)
         IN  /\ markets # {}
             /\ {q.line : q \in markets} = {LineOf(m)}
             /\ {[side |-> Side(q.label), handicap |-> q.handicap] : q \in markets}
                  = {SelectionOf(m, l) : l \in Labels(m)}
             /\ \A q \in markets : q.label \in Labels(m) /\ q.handicap = HandicapOf(m, q.label)
             /\ \A l \in Labels(m) : \E q \in markets : q.label = l
  <1> DEFINE quote(o) == [market |-> m.id, outcome |-> o, label |-> m.outcomes[o],
                          handicap |-> SelectionHandicap(m, o),
                          line |-> IF IsLineName(m) THEN m.handicap ELSE NoValue,
                          setIndex |-> SetIndex(m),
                          status |-> IF answer.open /\ o \in answer.active /\ preMatch
                                     THEN "active" ELSE "suspended"]
             markets == SourceMarkets(m, answer, preMatch)
  <1>1. markets = {quote(o) : o \in DOMAIN m.outcomes}
    BY DEF SourceMarkets
  <1>2. ASSUME NEW o \in DOMAIN m.outcomes
        PROVE  /\ quote(o).label = m.outcomes[o] /\ quote(o).label \in Labels(m)
               /\ quote(o).handicap = HandicapOf(m, m.outcomes[o])
               /\ quote(o).line = LineOf(m)
    BY DEF SelectionHandicap, HandicapOf, LineOf, Labels
  <1> HIDE DEF quote, markets
  <1>3. \A l \in Labels(m) : \E o \in DOMAIN m.outcomes : m.outcomes[o] = l
    BY DEF Labels
  <1>4. markets # {}
    BY <1>1
  <1>5. \A q \in markets : q.label \in Labels(m) /\ q.handicap = HandicapOf(m, q.label) /\ q.line = LineOf(m)
    BY <1>1, <1>2
  <1>6. \A l \in Labels(m) : \E q \in markets : q.label = l
    BY <1>1, <1>2, <1>3
  <1>7. {q.line : q \in markets} = {LineOf(m)}
    BY <1>4, <1>5
  <1>8. {[side |-> Side(q.label), handicap |-> q.handicap] : q \in markets}
          = {SelectionOf(m, l) : l \in Labels(m)}
    <2>1. ASSUME NEW q \in markets
          PROVE  [side |-> Side(q.label), handicap |-> q.handicap] = SelectionOf(m, q.label)
      BY <1>5 DEF SelectionOf
    <2> DEFINE published == {[side |-> Side(q.label), handicap |-> q.handicap] : q \in markets}
               expected == {SelectionOf(m, l) : l \in Labels(m)}
    <2>2. ASSUME NEW x \in published PROVE x \in expected
      <3>1. PICK q \in markets : x = [side |-> Side(q.label), handicap |-> q.handicap]
        OBVIOUS
      <3>2. x = SelectionOf(m, q.label) /\ q.label \in Labels(m)
        BY <1>5, <2>1, <3>1
      <3> QED BY <3>2
    <2>3. ASSUME NEW x \in expected PROVE x \in published
      <3>1. PICK l \in Labels(m) : x = SelectionOf(m, l)
        OBVIOUS
      <3>2. PICK q \in markets : q.label = l
        BY <1>6
      <3>3. x = [side |-> Side(q.label), handicap |-> q.handicap]
        BY <2>1, <3>1, <3>2
      <3> QED BY <3>3
    <2> HIDE DEF published, expected
    <2>4. published = expected
      BY <2>2, <2>3
    <2> QED BY <2>4 DEF published, expected
  <1> QED BY <1>4, <1>5, <1>6, <1>7, <1>8 DEF markets

\* The kind of bet, from the record.
LEMMA PublishedKind ==
  ASSUME NEW m, DOMAIN m.outcomes # {}, m.handicap \in Int, NEW answer, NEW preMatch
  PROVE  LET kind == OddsPapiKind(SourceMarkets(m, answer, preMatch))
         IN  /\ IsHandicapName(m) => kind = "handicap"
             /\ ~IsHandicapName(m) =>
                  /\ Labels(m) = {"over", "under"} => kind = "total"
                  /\ Labels(m) = {"yes", "no"} => kind = "both"
                  /\ Labels(m) \subseteq {"1", "x", "2"} => kind = "result"
  <1> DEFINE markets == SourceMarkets(m, answer, preMatch)
  <1>1. /\ markets # {}
        /\ \A q \in markets : q.label \in Labels(m) /\ q.handicap = HandicapOf(m, q.label)
        /\ \A l \in Labels(m) : \E q \in markets : q.label = l
    BY PublishedSelections
  <1> HIDE DEF markets
  <1>2. ASSUME IsHandicapName(m) PROVE OddsPapiKind(markets) = "handicap"
    <2>1. \A l : HandicapOf(m, l) # NoValue
      BY <1>2, NoValueAssumption DEF HandicapOf
    <2> QED BY <1>1, <2>1 DEF OddsPapiKind
  <1>3. ASSUME ~IsHandicapName(m)
        PROVE  OddsPapiKind(markets) = IF \E l \in Labels(m) : l \in {"over", "under"} THEN "total"
                                       ELSE IF \E l \in Labels(m) : l \in {"yes", "no"} THEN "both"
                                       ELSE "result"
    <2>1. \A q \in markets : q.handicap = NoValue
      BY <1>1, <1>3 DEF HandicapOf
    <2>2. (\E q \in markets : q.label \in {"over", "under"}) <=> (\E l \in Labels(m) : l \in {"over", "under"})
      BY <1>1
    <2>3. (\E q \in markets : q.label \in {"yes", "no"}) <=> (\E l \in Labels(m) : l \in {"yes", "no"})
      BY <1>1
    <2> QED BY <2>1, <2>2, <2>3 DEF OddsPapiKind
  <1>4. ASSUME ~IsHandicapName(m), Labels(m) = {"over", "under"} PROVE OddsPapiKind(markets) = "total"
    BY <1>3, <1>4
  <1>5. ASSUME ~IsHandicapName(m), Labels(m) = {"yes", "no"} PROVE OddsPapiKind(markets) = "both"
    BY <1>3, <1>5
  <1>6. ASSUME ~IsHandicapName(m), Labels(m) \subseteq {"1", "x", "2"} PROVE OddsPapiKind(markets) = "result"
    BY <1>3, <1>6
  <1> QED BY <1>2, <1>4, <1>5, <1>6 DEF markets

\* The markets read settle exclusively if the selections of the record do.
LEMMA PublishedMarketsSettle ==
  ASSUME NEW m, DOMAIN m.outcomes # {}, NEW answer, NEW preMatch, NEW sport,
         SettlesExclusively(OddsPapiKind(SourceMarkets(m, answer, preMatch)), LineOf(m),
                            {SelectionOf(m, l) : l \in Labels(m)}, sport = "football")
  PROVE  OddsPapiMarketsSettle(SourceMarkets(m, answer, preMatch), sport)
  <1> DEFINE markets == SourceMarkets(m, answer, preMatch)
  <1>1. /\ {q.line : q \in markets} = {LineOf(m)}
        /\ {[side |-> Side(q.label), handicap |-> q.handicap] : q \in markets}
             = {SelectionOf(m, l) : l \in Labels(m)}
    BY PublishedSelections
  <1>2. SettlesExclusively(OddsPapiKind(markets), LineOf(m),
                           {SelectionOf(m, l) : l \in Labels(m)}, sport = "football")
    OBVIOUS
  <1> HIDE DEF markets
  <1>3. LineOf(m) \in {q.line : q \in markets}
    BY <1>1
  <1>4. SettlesExclusively(OddsPapiKind(markets), LineOf(m),
          {[side |-> Side(q.label), handicap |-> q.handicap] : q \in markets}, sport = "football")
    BY <1>1, <1>2
  <1> QED BY <1>1, <1>3, <1>4 DEF OddsPapiMarketsSettle, markets

\* A supported market of the catalogue is published with selections that exclude
\* each other and leave no result out.
LEMMA OddsPapiSettles ==
  ASSUME NEW m, MarketRecord(m), NEW sport \in Sports, IsSupportedMarket(m, sport),
         NEW answer, NEW preMatch
  PROVE  OddsPapiMarketsSettle(SourceMarkets(m, answer, preMatch), sport)
  <1> DEFINE kind == OddsPapiKind(SourceMarkets(m, answer, preMatch))
             selections == {SelectionOf(m, l) : l \in Labels(m)}
  <1>1. DOMAIN m.outcomes # {} /\ m.handicap \in Int
    BY DEF MarketRecord
  <1>2. SUFFICES SettlesExclusively(kind, LineOf(m), selections, sport = "football")
    BY <1>1, PublishedMarketsSettle
  <1>3. /\ IsHandicapName(m) => kind = "handicap"
        /\ ~IsHandicapName(m) =>
              /\ Labels(m) = {"over", "under"} => kind = "total"
              /\ Labels(m) = {"yes", "no"} => kind = "both"
              /\ Labels(m) \subseteq {"1", "x", "2"} => kind = "result"
    BY <1>1, PublishedKind
  <1>4. ASSUME NEW a, NEW b, Labels(m) = {a, b}
        PROVE  selections = Selections(Side(a), HandicapOf(m, a), Side(b), HandicapOf(m, b))
    BY <1>4 DEF SelectionOf, Selections
  <1> HIDE DEF kind, selections
  <1>5. CASE \E name \in {"over under full time", "over under (incl. overtime)"} : IsTotal(m, name)
    <2>1. ~IsHandicapName(m) /\ LineOf(m) = m.handicap /\ Labels(m) = {"over", "under"}
      BY <1>5 DEF IsTotal, IsHandicapName, IsLineName, LineOf, Pair
    <2>2. /\ Side("over") = "over" /\ Side("under") = "under"
          /\ HandicapOf(m, "over") = NoValue /\ HandicapOf(m, "under") = NoValue
      BY <2>1 DEF Side, HandicapOf
    <2>3. selections = Selections("over", NoValue, "under", NoValue) /\ kind = "total"
      BY <1>3, <1>4, <2>1, <2>2
    <2> QED BY <1>1, <2>1, <2>3, TotalSettles
  <1>6. CASE \E name \in {"asian handicap", "handicap (incl. overtime)"} : IsHandicap(m, name)
    <2>1. IsHandicapName(m) /\ Labels(m) = {"1", "2"}
      BY <1>6 DEF IsHandicap, IsHandicapName, Pair
    <2>2. /\ Side("1") = "home" /\ Side("2") = "away"
          /\ HandicapOf(m, "1") = m.handicap /\ HandicapOf(m, "2") = -m.handicap
      BY <2>1 DEF Side, HandicapOf
    <2>3. selections = Selections("home", m.handicap, "away", -m.handicap) /\ kind = "handicap"
      BY <1>3, <1>4, <2>1, <2>2
    <2>4. -m.handicap \in Int /\ m.handicap + (-m.handicap) = 0
      BY <1>1
    <2> QED BY <1>1, <2>3, <2>4, HandicapSettles
  <1>7. CASE IsBothTeamsToScore(m)
    <2>1. ~IsHandicapName(m) /\ Labels(m) = {"yes", "no"}
      BY <1>7 DEF IsBothTeamsToScore, IsHandicapName, Pair
    <2>2. /\ Side("yes") = "yes" /\ Side("no") = "no"
          /\ HandicapOf(m, "yes") = NoValue /\ HandicapOf(m, "no") = NoValue
      BY <2>1 DEF Side, HandicapOf
    <2>3. selections = Selections("yes", NoValue, "no", NoValue) /\ kind = "both"
      BY <1>3, <1>4, <2>1, <2>2
    <2> QED BY <2>3, BothSettles
  <1>8. CASE sport = "tennis" /\ IsTennisWinner(m)
    <2>1. ~IsHandicapName(m) /\ Labels(m) = {"1", "2"}
      <3>1. NoValue # 1 /\ NoValue # 2
        BY NoValueAssumption
      <3>2. m.name \notin {"first set winner", "second set winner"} => SetIndex(m) = NoValue
        BY DEF SetIndex
      <3> QED BY <1>8, <3>1, <3>2 DEF IsTennisWinner, IsHandicapName, Pair
    <2>2. /\ Side("1") = "home" /\ Side("2") = "away"
          /\ HandicapOf(m, "1") = NoValue /\ HandicapOf(m, "2") = NoValue
      BY <2>1 DEF Side, HandicapOf
    <2>3. selections = Selections("home", NoValue, "away", NoValue) /\ kind = "result"
      BY <1>3, <1>4, <2>1, <2>2
    <2>4. (sport = "football") = FALSE
      BY <1>8
    <2> QED BY <2>3, <2>4, WinnerSettles
  <1>9. CASE sport = "football" /\ IsDocumented1x2(m)
    <2>1. ~IsHandicapName(m) /\ m.outcomes = [o \in 101..103 |-> <<"1", "x", "2">>[o - 100]]
      BY <1>9 DEF IsDocumented1x2, IsHandicapName
    <2>2. Labels(m) = {"1", "x", "2"}
      <3>1. 101..103 = {101, 102, 103}
        OBVIOUS
      <3>2. m.outcomes[101] = "1" /\ m.outcomes[102] = "x" /\ m.outcomes[103] = "2"
        BY <2>1
      <3> QED BY <2>1, <3>1, <3>2 DEF Labels
    <2>3. /\ SelectionOf(m, "1") = [side |-> "home", handicap |-> NoValue]
          /\ SelectionOf(m, "x") = [side |-> "draw", handicap |-> NoValue]
          /\ SelectionOf(m, "2") = [side |-> "away", handicap |-> NoValue]
      BY <2>1 DEF SelectionOf, Side, HandicapOf
    <2>4. selections = {[side |-> "home", handicap |-> NoValue], [side |-> "draw", handicap |-> NoValue],
                        [side |-> "away", handicap |-> NoValue]}
      BY <2>2, <2>3 DEF selections
    <2>5. kind = "result"
      BY <1>3, <2>1, <2>2
    <2> QED BY <1>9, <2>4, <2>5, ThreeWaySettles
  <1> QED BY <1>5, <1>6, <1>7, <1>8, <1>9 DEF IsSupportedMarket, Sports

-----------------------------------------------------------------------------
(* Steps of the adapters.                                                  *)

\* What a result may say.
Sound == TelemetryAgrees /\ SnapshotOfDiscoveredEvent /\ MarketsSettleExclusively

\* A step that does not deliver a snapshot.
LEMMA Quiet ==
  ASSUME AdapterInv, vendor' = vendor, fixture' \in Fixtures, call' \in [Callers -> Calls],
         eventContext' \in Fixtures \cup {NoValue}, marketCatalog' \in Catalogues \cup {NoValue},
         eventCompetition' \in Competitions \cup {NoValue}, TelemetryAgrees', ~Fetched'
  PROVE  AdapterInv' /\ Sound'
  <1>1. Calls' = Calls
    BY DEF Calls, PapiFetches, OddsApiFetches, Discoveries, Idle
  <1>2. AdapterInv'
    BY <1>1 DEF AdapterInv
  <1>3. SnapshotOfDiscoveredEvent' /\ MarketsSettleExclusively'
    BY DEF SnapshotOfDiscoveredEvent, MarketsSettleExclusively
  <1> QED BY <1>2, <1>3 DEF Sound

\* A step without a result.
LEMMA Silent ==
  ASSUME result' = NoValue
  PROVE  TelemetryAgrees' /\ ~Fetched'
  BY DEF TelemetryAgrees, Fetched

\* The operations of OddsPapi that wait for one request or are refused.
LEMMA OddsPapiSimpleSteps ==
  ASSUME AdapterInv, vendor = "oddspapi", NEW c \in Callers, UNCHANGED eventCompetition,
         OddsPapiSports(c) \/ OddsPapiRateLimit(c) \/ OddsPapiSimpleFails(c)
  PROVE  AdapterInv' /\ Sound'
  <1>1. call' = call /\ TelemetryAgrees' /\ ~Fetched'
    <2>1. CASE OddsPapiSports(c)
      <3>1. CASE AtOnce(c, "supported_sports", 1, TRUE, "sports", <<Success>>)
        BY <3>1 DEF AtOnce, TelemetryAgrees, Fetched
      <3>2. CASE AtOnce(c, "health", 1, TRUE, "healthy", <<Success>>)
        BY <3>2 DEF AtOnce, TelemetryAgrees, Fetched
      <3> QED BY <2>1, <3>1, <3>2 DEF OddsPapiSports
    <2>2. CASE OddsPapiRateLimit(c)
      BY <2>2 DEF OddsPapiRateLimit, AtOnce, TelemetryAgrees, Fetched
    <2>3. CASE OddsPapiSimpleFails(c)
      <3>1. PICK op \in {"supported_sports", "health", "rate_limit", "discover_competitions"},
                 failure \in Failures : FailAtOnce(c, op, ErrorKind(failure))
        BY <2>3 DEF OddsPapiSimpleFails, SingleRequests
      <3> QED BY <3>1, FailedAtOnce
    <2> QED BY <2>1, <2>2, <2>3
  <1>2. UNCHANGED <<vendor, fixture, papiVars>>
    BY DEF OddsPapiSports, OddsPapiRateLimit, OddsPapiSimpleFails
  <1> QED BY <1>1, <1>2, Quiet DEF AdapterInv, papiVars

\* discover_competitions.
LEMMA OddsPapiCompetitionSteps ==
  ASSUME AdapterInv, vendor = "oddspapi", NEW c \in Callers, UNCHANGED eventCompetition,
         OddsPapiSportRecord(c) \/ OddsPapiTournaments(c)
  PROVE  AdapterInv' /\ Sound'
  <1>1. call' \in [Callers -> Calls] /\ TelemetryAgrees' /\ ~Fetched'
    <2>1. CASE OddsPapiSportRecord(c)
      <3>1. ASSUME NEW sport \in Sports PROVE Waiting("discover_competitions", "/tournaments", sport, {}, <<>>) \in Calls
        BY DEF Waiting, Calls, Discoveries
      <3>2. ASSUME NEW sport \in Sports, Begin(c, "discover_competitions", "/tournaments", sport, {}, <<>>)
            PROVE  call' \in [Callers -> Calls] /\ TelemetryAgrees' /\ ~Fetched'
        BY <3>1, <3>2, Began
      <3>3. ASSUME FailAtOnce(c, "discover_competitions", "UNSUPPORTED")
            PROVE  call' \in [Callers -> Calls] /\ TelemetryAgrees' /\ ~Fetched'
        BY <3>3, FailedAtOnce DEF AdapterInv
      <3> QED BY <2>1, <3>2, <3>3 DEF OddsPapiSportRecord
    <2>2. CASE OddsPapiTournaments(c)
      <3>1. call[c] # Idle /\ call[c].op # "fetch_odds" /\ call \in [Callers -> Calls]
        BY <2>2 DEF OddsPapiTournaments, Awaits, Idle, AdapterInv
      <3>2. CASE End(c, TRUE, "competitions", <<Success>>)
        BY <3>1, <3>2, EndedWell DEF End
      <3>3. CASE EndFailed(c, "MALFORMED_RESPONSE")
        BY <3>1, <3>3, EndedFailed
      <3> QED BY <2>2, <3>2, <3>3 DEF OddsPapiTournaments
    <2> QED BY <2>1, <2>2
  <1>2. UNCHANGED <<vendor, fixture, eventContext, marketCatalog>>
    BY DEF OddsPapiSportRecord, OddsPapiTournaments, papiVars
  <1> QED BY <1>1, <1>2, Quiet DEF AdapterInv

\* A discovery reported to the calls in flight leaves them calls.
LEMMA ReportedCalls ==
  ASSUME AdapterInv, vendor = "oddspapi"
  PROVE  Reported(fixture) \in [Callers -> Calls]
  <1>1. ASSUME NEW d \in Callers, call[d].op = "fetch_odds"
        PROVE  [call[d] EXCEPT !.seen = @ \cup {fixture}] \in Calls
    <2>1. call[d] \in PapiFetches
      BY <1>1 DEF AdapterInv, Calls, Idle, Discoveries
    <2>2. fixture \in Fixtures
      BY DEF AdapterInv
    <2>3. [call[d] EXCEPT !.seen = @ \cup {fixture}] \in PapiFetches
      BY <2>1, <2>2 DEF PapiFetches
    <2> QED BY <2>3 DEF Calls
  <1>2. \A d \in Callers : call[d] \in Calls
    BY DEF AdapterInv
  <1> QED BY <1>1, <1>2 DEF Reported

\* discover_events.
LEMMA OddsPapiEventSteps ==
  ASSUME AdapterInv, vendor = "oddspapi", NEW c \in Callers, UNCHANGED eventCompetition,
         OddsPapiDiscoverEvents(c) \/ OddsPapiFixtures(c)
  PROVE  AdapterInv' /\ Sound'
  <1>1. /\ call' \in [Callers -> Calls] /\ TelemetryAgrees' /\ ~Fetched'
        /\ eventContext' \in {eventContext, fixture}
    <2>1. CASE OddsPapiDiscoverEvents(c)
      <3>1. PICK k \in Competitions, reversed \in BOOLEAN :
              IF competitionSports[k] = NoValue \/ reversed
              THEN Refuse(c, "discover_events", "INVALID_REQUEST")
              ELSE Begin(c, "discover_events", "/fixtures", k, {}, <<>>)
        BY <2>1 DEF OddsPapiDiscoverEvents
      <3>2. Waiting("discover_events", "/fixtures", k, {}, <<>>) \in Calls
        BY DEF Waiting, Calls, Discoveries
      <3>3. CASE Refuse(c, "discover_events", "INVALID_REQUEST")
        BY <2>1, <3>3, Refused DEF AdapterInv, OddsPapiDiscoverEvents, papiVars
      <3>4. CASE Begin(c, "discover_events", "/fixtures", k, {}, <<>>)
        BY <2>1, <3>2, <3>4, Began DEF OddsPapiDiscoverEvents, papiVars
      <3> QED BY <3>1, <3>3, <3>4
    <2>2. CASE OddsPapiFixtures(c)
      <3>1. call[c] # Idle /\ call[c].op # "fetch_odds" /\ call \in [Callers -> Calls]
        BY <2>2 DEF OddsPapiFixtures, Awaits, Idle, AdapterInv
      <3>2. ASSUME EndAmong(Reported(fixture), c, TRUE, "events", <<Success>>)
            PROVE  call' \in [Callers -> Calls] /\ TelemetryAgrees' /\ ~Fetched'
        BY <3>1, <3>2, ReportedCalls, EndedWell
      <3>3. ASSUME End(c, TRUE, "events", <<Success>>)
            PROVE  call' \in [Callers -> Calls] /\ TelemetryAgrees' /\ ~Fetched'
        BY <3>1, <3>3, EndedWell DEF End
      <3> QED BY <2>2, <3>2, <3>3 DEF OddsPapiFixtures
    <2> QED BY <2>1, <2>2
  <1>2. UNCHANGED <<vendor, fixture, marketCatalog>>
    BY DEF OddsPapiDiscoverEvents, OddsPapiFixtures, papiVars
  <1> QED BY <1>1, <1>2, Quiet DEF AdapterInv

\* fetch_odds up to its last request.
LEMMA OddsPapiFetchSteps ==
  ASSUME AdapterInv, vendor = "oddspapi", NEW c \in Callers, UNCHANGED eventCompetition,
         OddsPapiFetchOdds(c) \/ OddsPapiMarkets(c)
  PROVE  AdapterInv' /\ Sound'
  <1>1. CASE OddsPapiFetchOdds(c)
    <2> DEFINE path == IF marketCatalog = NoValue THEN "/markets" ELSE "/odds"
               read == [context |-> eventContext, catalog |-> marketCatalog]
    <2>1. CASE eventContext = NoValue
      <3>1. Refuse(c, "fetch_odds", "INVALID_REQUEST")
        BY <1>1, <2>1 DEF OddsPapiFetchOdds
      <3> QED BY <1>1, <3>1, Refused, Quiet DEF AdapterInv, OddsPapiFetchOdds, papiVars
    <2>2. CASE eventContext # NoValue
      <3>1. Begin(c, "fetch_odds", path, read, {eventContext}, <<>>)
        BY <1>1, <2>2 DEF OddsPapiFetchOdds
      <3>2. /\ eventContext \in Fixtures /\ path \in {"/markets", "/odds"}
            /\ marketCatalog \in Catalogues \cup {NoValue}
            /\ path = "/odds" => marketCatalog \in Catalogues
        BY <2>2 DEF AdapterInv
      <3>3. Waiting("fetch_odds", path, read, {eventContext}, <<>>) \in PapiFetches
        BY <3>2 DEF Waiting, PapiFetches
      <3>4. Waiting("fetch_odds", path, read, {eventContext}, <<>>) \in Calls
        BY <3>3 DEF Calls
      <3> HIDE DEF path, read
      <3>5. call' \in [Callers -> Calls] /\ TelemetryAgrees' /\ ~Fetched'
        BY <3>1, <3>4, Began
      <3> QED BY <1>1, <3>5, Quiet DEF AdapterInv, OddsPapiFetchOdds, papiVars
    <2> QED BY <2>1, <2>2
  <1>2. CASE OddsPapiMarkets(c)
    <2>1. PICK k \in Catalogues :
            /\ marketCatalog' = k
            /\ Continue(c, "/odds", [context |-> call[c].read.context, catalog |-> k])
      BY <1>2 DEF OddsPapiMarkets
    <2>2. call[c] \in PapiFetches /\ call \in [Callers -> Calls]
      BY <1>2 DEF OddsPapiMarkets, Awaits, AdapterInv, Calls, Idle, Discoveries
    <2> DEFINE next == [call[c] EXCEPT !.at = "/odds",
                                       !.read = [context |-> call[c].read.context, catalog |-> k]]
    <2>3. next \in PapiFetches
      BY <2>2 DEF PapiFetches
    <2>4. call' = [call EXCEPT ![c] = next] /\ result' = NoValue
      BY <2>1, <2>2 DEF Continue
    <2> HIDE DEF next
    <2>5. call' \in [Callers -> Calls]
      BY <2>2, <2>3, <2>4 DEF Calls
    <2> QED BY <1>2, <2>1, <2>4, <2>5, Silent, Quiet DEF AdapterInv, OddsPapiMarkets
  <1> QED BY <1>1, <1>2

\* The start, teams and competition compared are all there is of a fixture: an
\* answer that agrees with the context is about the fixture discovered.
LEMMA AgreementIsIdentity ==
  ASSUME NEW context \in Fixtures, fixture \in Fixtures, ContextAgrees(context)
  PROVE  fixture = context
  BY FixturesAssumption DEF ContextAgrees

\* The markets read from an answer are those of one record of the catalogue the
\* call holds.
LEMMA ReadMarketsSettle ==
  ASSUME NEW read, read.catalog \in Catalogues, NEW answer, NEW preMatch,
         SportOf[read.context.competition] \in Sports
  PROVE  OddsPapiMarketsSettle(ReadMarkets(read, answer, preMatch), SportOf[read.context.competition])
  <1> DEFINE sport == SportOf[read.context.competition]
             entries == CatalogueEntry(read.catalog, sport, answer.market.id)
  <1>1. \A m \in entries : MarketRecord(m) /\ IsSupportedMarket(m, sport)
    BY CataloguesAssumption DEF CatalogueEntry
  <1>2. \A m, n \in entries : m = n
    BY CataloguesAssumption DEF CatalogueEntry
  <1>3. ReadMarkets(read, answer, preMatch) = UNION {SourceMarkets(m, answer, preMatch) : m \in entries}
    BY DEF ReadMarkets
  <1> HIDE DEF entries
  <1>4. CASE entries = {}
    <2>1. ReadMarkets(read, answer, preMatch) = {}
      BY <1>3, <1>4
    <2> QED BY <2>1 DEF OddsPapiMarketsSettle
  <1>5. CASE entries # {}
    <2>1. PICK m \in entries : TRUE
      BY <1>5
    <2>2. entries = {m}
      BY <1>2, <2>1
    <2>3. ReadMarkets(read, answer, preMatch) = SourceMarkets(m, answer, preMatch)
      BY <1>3, <2>2
    <2>4. sport \in Sports /\ MarketRecord(m) /\ IsSupportedMarket(m, sport)
      BY <1>1
    <2> HIDE DEF sport
    <2>5. OddsPapiMarketsSettle(SourceMarkets(m, answer, preMatch), sport)
      BY <2>4, OddsPapiSettles
    <2> QED BY <2>3, <2>5 DEF sport
  <1> QED BY <1>4, <1>5

\* The last answer of fetch_odds.
LEMMA OddsPapiOddsStep ==
  ASSUME AdapterInv, vendor = "oddspapi", NEW c \in Callers, UNCHANGED eventCompetition,
         OddsPapiOdds(c)
  PROVE  AdapterInv' /\ Sound'
  <1>1. call[c] \in PapiFetches /\ call[c].at = "/odds" /\ call[c] # Idle /\ call \in [Callers -> Calls]
    BY DEF OddsPapiOdds, Awaits, AdapterInv, Calls, Idle, Discoveries
  <1>2. UNCHANGED <<vendor, fixture, papiVars>>
    BY DEF OddsPapiOdds
  <1>3. CASE End(c, TRUE, NoValue, <<Success>>)
    <2>1. call' \in [Callers -> Calls] /\ TelemetryAgrees'
      BY <1>1, <1>3, EndedWell DEF End
    <2>2. ~Fetched'
      BY <1>3 DEF End, EndAmong, Fetched
    <2> QED BY <1>2, <2>1, <2>2, Quiet DEF AdapterInv, papiVars
  <1>4. ASSUME NEW answer, NEW preMatch,
               End(c, TRUE, Snapshot(c, ReadMarkets(call[c].read, answer, preMatch)), <<Success>>)
        PROVE  AdapterInv' /\ Sound'
    <2> DEFINE markets == ReadMarkets(call[c].read, answer, preMatch)
               value == Snapshot(c, markets)
               context == call[c].read.context
    <2>1. call' \in [Callers -> Calls] /\ TelemetryAgrees'
      BY <1>1, <1>4, EndedWell DEF End
    <2>2. result'.value = value
      BY <1>4 DEF End, EndAmong
    <2>3. context \in Fixtures /\ context \in call[c].seen /\ call[c].read.catalog \in Catalogues
      BY <1>1 DEF PapiFetches
    <2>4. fixture = context
      BY <2>3, AgreementIsIdentity DEF OddsPapiOdds, AdapterInv
    <2>5. SportOf[context.competition] \in Sports
      BY <2>3, SportOfAssumption, FixturesAssumption
    <2>6. OddsPapiMarketsSettle(markets, SportOf[context.competition])
      BY <2>3, <2>5, ReadMarketsSettle
    <2> HIDE DEF markets
    <2>7. value.fixture = fixture /\ value.seen = call[c].seen /\ value.markets = markets
      BY DEF Snapshot
    <2> HIDE DEF value, context
    <2>8. SnapshotOfDiscoveredEvent' /\ MarketsSettleExclusively'
      BY <1>2, <2>2, <2>3, <2>4, <2>6, <2>7 DEF SnapshotOfDiscoveredEvent, MarketsSettleExclusively, papiVars
    <2>9. Calls' = Calls
      BY <1>2 DEF Calls, PapiFetches, OddsApiFetches, Discoveries, Idle
    <2> QED BY <1>2, <2>1, <2>8, <2>9 DEF AdapterInv, Sound, papiVars
  <1>5. \/ End(c, TRUE, NoValue, <<Success>>)
        \/ \E k \in Catalogues : \E m \in k :
           \E statusId \in {0, 1}, flags \in Flags, active \in SUBSET DOMAIN m.outcomes :
             End(c, TRUE, Snapshot(c, ReadMarkets(call[c].read, Answer(m, flags, active), statusId = 0)), <<Success>>)
    BY DEF OddsPapiOdds
  <1> QED BY <1>3, <1>4, <1>5

\* A request that fails.
LEMMA RequestFailures ==
  ASSUME AdapterInv, NEW c \in Callers, call[c] # Idle,
         NEW failure, EndFailed(c, ErrorKind(failure)),
         UNCHANGED <<vendor, fixture, papiVars, eventCompetition>>
  PROVE  AdapterInv' /\ Sound'
  <1>1. call' \in [Callers -> Calls] /\ TelemetryAgrees' /\ ~Fetched'
    BY EndedFailed
  <1> QED BY <1>1, Quiet DEF AdapterInv, papiVars

\* A call in flight that ends with an error nobody translates is silent.
LEMMA EndedUncaught ==
  ASSUME AdapterInv, NEW c \in Callers, call[c] # Idle, NEW error \in Uncaught,
         End(c, FALSE, error, <<>>)
  PROVE  call' \in [Callers -> Calls] /\ TelemetryAgrees' /\ ~Fetched'
  <1>1. call[c].emitted = <<>>
    BY InFlight DEF AdapterInv
  <1>2. <<>> \o <<>> = <<>>
    OBVIOUS
  <1>3. /\ call' = [call EXCEPT ![c] = Idle]
        /\ result' = [op |-> call[c].op, ok |-> FALSE, value |-> error, asked |-> 1,
                      emitted |-> <<>>]
    BY <1>1, <1>2 DEF End, EndAmong
  <1>4. Idle \in Calls
    BY DEF Calls
  <1> QED BY <1>3, <1>4 DEF TelemetryAgrees, Fetched, AdapterInv

\* A cancelled call, and the odds of a bookmaker whose Provider is invalid.
LEMMA UncaughtSteps ==
  ASSUME AdapterInv, NEW c \in Callers,
         \/ OddsPapiOddsEscape(c) /\ UNCHANGED eventCompetition
         \/ OddsPapiCancelled(c) /\ UNCHANGED eventCompetition
         \/ TheOddsApiOddsEscape(c) /\ UNCHANGED papiVars
         \/ TheOddsApiCancelled(c) /\ UNCHANGED papiVars
  PROVE  AdapterInv' /\ Sound'
  <1>1. UNCHANGED <<vendor, fixture, papiVars, eventCompetition>>
    BY DEF OddsPapiOddsEscape, OddsPapiCancelled, TheOddsApiOddsEscape, TheOddsApiCancelled, Cancelled
  <1>2. \/ call[c] # Idle /\ End(c, FALSE, "DOMAIN_VALIDATION", <<>>)
        \/ call[c] # Idle /\ End(c, FALSE, "CANCELLED", <<>>)
        \/ \E op : AtOnce(c, op, 1, FALSE, "CANCELLED", <<>>)
    <2>1. OddsPapiOddsEscape(c) \/ TheOddsApiOddsEscape(c) => call[c].op = "fetch_odds"
      BY DEF OddsPapiOddsEscape, TheOddsApiOddsEscape, Awaits
    <2>2. call[c].op = "fetch_odds" => call[c] # Idle
      BY DEF Idle
    <2> QED BY <2>1, <2>2 DEF OddsPapiOddsEscape, OddsPapiCancelled, TheOddsApiOddsEscape,
                        TheOddsApiCancelled, Cancelled
  <1>3. CASE \E op : AtOnce(c, op, 1, FALSE, "CANCELLED", <<>>)
    <2>1. call' = call /\ TelemetryAgrees' /\ ~Fetched'
      BY <1>3 DEF AtOnce, TelemetryAgrees, Fetched, Uncaught
    <2> QED BY <1>1, <2>1, Quiet DEF AdapterInv, papiVars
  <1>4. CASE \E error \in Uncaught : call[c] # Idle /\ End(c, FALSE, error, <<>>)
    <2>1. call' \in [Callers -> Calls] /\ TelemetryAgrees' /\ ~Fetched'
      BY <1>4, EndedUncaught
    <2> QED BY <1>1, <2>1, Quiet DEF AdapterInv, papiVars
  <1> QED BY <1>2, <1>3, <1>4 DEF Uncaught

\* The operations of The Odds API that wait for one request or are refused.
LEMMA TheOddsApiSimpleSteps ==
  ASSUME AdapterInv, vendor = "the_odds_api", NEW c \in Callers, UNCHANGED papiVars,
         TheOddsApiRateLimitCached(c) \/ TheOddsApiSports(c) \/ TheOddsApiSportsFail(c)
  PROVE  AdapterInv' /\ Sound'
  <1>1. call' = call /\ TelemetryAgrees' /\ ~Fetched'
    <2>1. CASE TheOddsApiRateLimitCached(c)
      BY <2>1 DEF TheOddsApiRateLimitCached, AtOnce, TelemetryAgrees, Fetched
    <2>2. CASE TheOddsApiSports(c)
      <3>1. PICK op \in SportsOnly :
              AtOnce(c, op, 1, TRUE, IF op = "health" THEN "healthy" ELSE "listed", SportsEvents(op))
        BY <2>2 DEF TheOddsApiSports
      <3>2. SportsEvents(op) = <<Success>> /\ op # "fetch_odds"
        BY DEF SportsOnly, SportsEvents, EmitsSuccess
      <3> QED BY <3>1, <3>2 DEF AtOnce, TelemetryAgrees, Fetched
    <2>3. CASE TheOddsApiSportsFail(c)
      <3>1. PICK op \in SportsOnly \cup {"discover_events"}, failure \in Failures :
              FailAtOnce(c, op, ErrorKind(failure)) /\ CaptureUnlessTransport(failure)
        BY <2>3 DEF TheOddsApiSportsFail
      <3>2. op # "fetch_odds"
        BY DEF SportsOnly
      <3> QED BY <3>1, <3>2, FailedAtOnce
    <2> QED BY <2>1, <2>2, <2>3
  <1>2. UNCHANGED <<vendor, fixture, eventCompetition>>
    BY DEF TheOddsApiRateLimitCached, TheOddsApiSports, TheOddsApiSportsFail
  <1> QED BY <1>1, <1>2, Quiet DEF AdapterInv, papiVars

\* discover_events: the sports list emits nothing of its own.
LEMMA TheOddsApiEventSteps ==
  ASSUME AdapterInv, vendor = "the_odds_api", NEW c \in Callers, UNCHANGED papiVars,
         TheOddsApiDiscoverEvents(c) \/ TheOddsApiEvents(c)
  PROVE  AdapterInv' /\ Sound'
  <1>1. CASE TheOddsApiDiscoverEvents(c)
    <2>1. SportsEvents("discover_events") = <<>>
      BY DEF SportsEvents, EmitsSuccess
    <2>2. UNCHANGED <<vendor, fixture, eventCompetition>>
      BY <1>1 DEF TheOddsApiDiscoverEvents
    <2>3. ASSUME Refuse(c, "discover_events", "INVALID_REQUEST")
          PROVE  call' \in [Callers -> Calls] /\ TelemetryAgrees' /\ ~Fetched'
      BY <2>3, Refused DEF AdapterInv
    <2>4. ASSUME AtOnce(c, "discover_events", 1, FALSE, "UNSUPPORTED", <<>>)
          PROVE  call' \in [Callers -> Calls] /\ TelemetryAgrees' /\ ~Fetched'
      BY <2>2, <2>4 DEF AdapterInv, AtOnce, TelemetryAgrees, Fetched
    <2>5. ASSUME NEW k \in Competitions, Begin(c, "discover_events", "/events", k, {}, <<>>)
          PROVE  call' \in [Callers -> Calls] /\ TelemetryAgrees' /\ ~Fetched'
      <3>1. Waiting("discover_events", "/events", k, {}, <<>>) \in Calls
        BY DEF Waiting, Calls, Discoveries
      <3> QED BY <2>5, <3>1, Began
    <2>6. call' \in [Callers -> Calls] /\ TelemetryAgrees' /\ ~Fetched'
      BY <1>1, <2>1, <2>3, <2>4, <2>5 DEF TheOddsApiDiscoverEvents
    <2> QED BY <2>2, <2>6, Quiet DEF AdapterInv, papiVars
  <1>2. CASE TheOddsApiEvents(c)
    <2>1. call[c] # Idle /\ call[c].op # "fetch_odds" /\ call \in [Callers -> Calls]
      BY <1>2 DEF TheOddsApiEvents, Awaits, Idle, AdapterInv
    <2>2. call[c].read \in Competitions
      BY <1>2 DEF TheOddsApiEvents, Awaits, AdapterInv, Calls, Discoveries, OddsApiFetches, Idle
    <2>3. call' \in [Callers -> Calls] /\ TelemetryAgrees' /\ ~Fetched'
      BY <1>2, <2>1, EndedWell DEF TheOddsApiEvents, End
    <2>4. eventCompetition' \in Competitions \cup {NoValue}
      BY <1>2, <2>2 DEF TheOddsApiEvents, AdapterInv
    <2> QED BY <1>2, <2>3, <2>4, Quiet DEF TheOddsApiEvents, AdapterInv, papiVars
  <1> QED BY <1>1, <1>2

\* fetch_odds.
LEMMA TheOddsApiFetchSteps ==
  ASSUME AdapterInv, vendor = "the_odds_api", NEW c \in Callers, UNCHANGED papiVars,
         TheOddsApiFetchOdds(c) \/ TheOddsApiOdds(c)
  PROVE  AdapterInv' /\ Sound'
  <1>1. UNCHANGED <<vendor, fixture, eventCompetition>>
    BY DEF TheOddsApiFetchOdds, TheOddsApiOdds
  <1>2. CASE TheOddsApiFetchOdds(c)
    <2>1. CASE eventCompetition = NoValue
      <3>1. Refuse(c, "fetch_odds", "INVALID_REQUEST")
        BY <1>2, <2>1 DEF TheOddsApiFetchOdds
      <3> QED BY <1>1, <3>1, Refused, Quiet DEF AdapterInv, papiVars
    <2>2. CASE eventCompetition # NoValue
      <3>1. Begin(c, "fetch_odds", "/odds", eventCompetition, {}, <<>>)
        BY <1>2, <2>2 DEF TheOddsApiFetchOdds
      <3>2. Waiting("fetch_odds", "/odds", eventCompetition, {}, <<>>) \in Calls
        BY <2>2 DEF Waiting, Calls, OddsApiFetches, AdapterInv
      <3>3. call' \in [Callers -> Calls] /\ TelemetryAgrees' /\ ~Fetched'
        BY <3>1, <3>2, Began
      <3> QED BY <1>1, <3>3, Quiet DEF AdapterInv, papiVars
    <2> QED BY <2>1, <2>2
  <1>3. CASE TheOddsApiOdds(c)
    <2> DEFINE sport == SportOf[call[c].read]
    <2>1. PICK m \in RawMarkets :
            /\ Skipped(m, sport) \/ WellShaped(m, sport)
            /\ End(c, TRUE, [fixture |-> fixture,
                             markets |-> IF Skipped(m, sport) THEN {} ELSE {SourceMarket(m)}], <<Success>>)
      BY <1>3 DEF TheOddsApiOdds
    <2> DEFINE markets == IF Skipped(m, sport) THEN {} ELSE {SourceMarket(m)}
    <2>2. TheOddsApiMarketsSettle(markets)
      <3>1. CASE Skipped(m, sport)
        BY <3>1 DEF TheOddsApiMarketsSettle
      <3>2. CASE ~Skipped(m, sport)
        BY <2>1, <3>2, TheOddsApiSettles
      <3> QED BY <3>1, <3>2
    <2>3. call[c] # Idle /\ call \in [Callers -> Calls]
      BY <1>3 DEF TheOddsApiOdds, Awaits, Idle, AdapterInv
    <2>4. call' \in [Callers -> Calls] /\ TelemetryAgrees'
      BY <2>1, <2>3, EndedWell DEF End
    <2>5. result'.value.markets = markets
      BY <2>1 DEF End, EndAmong
    <2> HIDE DEF markets
    <2>6. SnapshotOfDiscoveredEvent' /\ MarketsSettleExclusively'
      BY <1>1, <2>2, <2>5 DEF SnapshotOfDiscoveredEvent, MarketsSettleExclusively
    <2>7. Calls' = Calls
      BY <1>1 DEF Calls, PapiFetches, OddsApiFetches, Discoveries, Idle
    <2> QED BY <1>1, <2>4, <2>6, <2>7 DEF AdapterInv, Sound, papiVars
  <1> QED BY <1>2, <1>3

-----------------------------------------------------------------------------
(* Theorems                                                                *)

\* Every step of either adapter keeps the calls in flight well-formed and ends
\* calls with a sound result.
LEMMA StepKeepsAdapterInv ==
  ASSUME AdapterInv, Next
  PROVE  AdapterInv' /\ Sound'
  <1>1. CASE vendor = "oddspapi" /\ OddsPapiNext /\ UNCHANGED eventCompetition
    <2>1. PICK c \in Callers :
            \/ OddsPapiSports(c) \/ OddsPapiRateLimit(c) \/ OddsPapiSimpleFails(c)
            \/ OddsPapiSportRecord(c) \/ OddsPapiTournaments(c)
            \/ OddsPapiDiscoverEvents(c) \/ OddsPapiFixtures(c)
            \/ OddsPapiFetchOdds(c) \/ OddsPapiMarkets(c) \/ OddsPapiOdds(c)
            \/ OddsPapiRequestFails(c) \/ OddsPapiOddsEscape(c) \/ OddsPapiCancelled(c)
      BY <1>1 DEF OddsPapiNext
    <2>2. CASE OddsPapiRequestFails(c)
      <3>1. PICK failure \in Failures : EndFailed(c, ErrorKind(failure))
        BY <2>2 DEF OddsPapiRequestFails
      <3>2. call[c] # Idle /\ UNCHANGED <<vendor, fixture, papiVars, eventCompetition>>
        BY <1>1, <2>2 DEF OddsPapiRequestFails
      <3> QED BY <3>1, <3>2, RequestFailures
    <2> QED BY <1>1, <2>1, <2>2, OddsPapiSimpleSteps, OddsPapiCompetitionSteps, OddsPapiEventSteps,
               OddsPapiFetchSteps, OddsPapiOddsStep, UncaughtSteps
  <1>2. CASE vendor = "the_odds_api" /\ TheOddsApiNext /\ UNCHANGED papiVars
    <2>1. PICK c \in Callers :
            \/ TheOddsApiRateLimitCached(c) \/ TheOddsApiSports(c) \/ TheOddsApiSportsFail(c)
            \/ TheOddsApiDiscoverEvents(c) \/ TheOddsApiEvents(c) \/ TheOddsApiFetchOdds(c)
            \/ TheOddsApiOdds(c) \/ TheOddsApiRequestFails(c)
            \/ TheOddsApiOddsEscape(c) \/ TheOddsApiCancelled(c)
      BY <1>2 DEF TheOddsApiNext
    <2>2. CASE TheOddsApiRequestFails(c)
      <3>1. PICK failure \in Failures : EndFailed(c, ErrorKind(failure)) /\ CaptureUnlessTransport(failure)
        BY <2>2 DEF TheOddsApiRequestFails
      <3>2. call[c] # Idle /\ UNCHANGED <<vendor, fixture, papiVars, eventCompetition>>
        BY <1>2, <2>2 DEF TheOddsApiRequestFails
      <3> QED BY <3>1, <3>2, RequestFailures
    <2> QED BY <1>2, <2>1, <2>2, TheOddsApiSimpleSteps, TheOddsApiEventSteps, TheOddsApiFetchSteps,
               UncaughtSteps
  <1>3. CASE FixtureMoves /\ UNCHANGED <<papiVars, eventCompetition>>
    BY <1>3, Silent, Quiet DEF FixtureMoves, AdapterInv, papiVars
  <1>4. CASE (\E c \in Callers : StreamOdds(c)) /\ UNCHANGED <<papiVars, eventCompetition>>
    <2>1. PICK c \in Callers : StreamOdds(c)
      BY <1>4
    <2>2. call' = call /\ TelemetryAgrees' /\ ~Fetched'
      BY <2>1, Refused DEF StreamOdds
    <2> QED BY <1>4, <2>1, <2>2, Quiet DEF StreamOdds, AdapterInv, papiVars
  <1>5. CASE Collect /\ UNCHANGED <<papiVars, eventCompetition>>
    BY <1>5, Silent, Quiet DEF Collect, AdapterInv, papiVars
  <1> QED BY <1>1, <1>2, <1>3, <1>4, <1>5 DEF Next, Step

\* The calls in flight, the contexts and the catalogue stay well-formed, and
\* every result is sound, for any number of callers, competitions, fixtures,
\* catalogues and raw markets.
THEOREM AdapterInvariance == Spec => [](AdapterInv /\ Sound)
  <1>1. Init => AdapterInv /\ Sound
    <2> SUFFICES ASSUME Init PROVE AdapterInv /\ Sound
      OBVIOUS
    <2>1. AdapterInv
      BY DEF Init, HttpInit, OddsPapiInit, TheOddsApiInit, AdapterInv, Calls
    <2>2. result = NoValue
      BY DEF Init, HttpInit
    <2> QED BY <2>1, <2>2 DEF Sound, TelemetryAgrees, SnapshotOfDiscoveredEvent,
                              MarketsSettleExclusively, Fetched
  <1>2. AdapterInv /\ Sound /\ [Next]_vars => (AdapterInv /\ Sound)'
    <2> SUFFICES ASSUME AdapterInv, Sound, [Next]_vars PROVE (AdapterInv /\ Sound)'
      OBVIOUS
    <2>1. CASE Next
      BY <2>1, StepKeepsAdapterInv
    <2>2. CASE UNCHANGED vars
      <3>1. Calls' = Calls
        BY <2>2 DEF vars, httpVars, Calls, PapiFetches, OddsApiFetches, Discoveries, Idle
      <3>2. AdapterInv'
        BY <2>2, <3>1 DEF vars, httpVars, papiVars, AdapterInv
      <3>3. Sound'
        BY <2>2 DEF vars, httpVars, Sound, TelemetryAgrees, SnapshotOfDiscoveredEvent,
                    MarketsSettleExclusively, Fetched
      <3> QED BY <3>2, <3>3
    <2> QED BY <2>1, <2>2
  <1> QED BY <1>1, <1>2, PTL DEF Spec

\* Telemetry: a call that asked the provider something and returned, or raised a
\* ProviderError, emitted one event, of the outcome the caller sees, whatever the
\* other calls did meanwhile; one that was cancelled, or that ended with a
\* DomainValidationError, emitted none, nor does an unsupported competition of
\* The Odds API.
THEOREM OneEventPerCall == Spec => []TelemetryAgrees
  <1>1. AdapterInv /\ Sound => TelemetryAgrees
    BY DEF Sound
  <1> QED BY <1>1, AdapterInvariance, PTL

\* An OddsPapi snapshot prices a fixture event discovery reported.
THEOREM SnapshotsAreDiscovered == Spec => []SnapshotOfDiscoveredEvent
  <1>1. AdapterInv /\ Sound => SnapshotOfDiscoveredEvent
    BY DEF Sound
  <1> QED BY <1>1, AdapterInvariance, PTL

\* The shape checks of both adapters are enough: whatever catalogue, line,
\* handicap and outcomes the provider sends, the selections of a published
\* market exclude each other and leave no result out.
THEOREM PublishedMarketsAreExclusive == Spec => []MarketsSettleExclusively
  <1>1. AdapterInv /\ Sound => MarketsSettleExclusively
    BY DEF Sound
  <1> QED BY <1>1, AdapterInvariance, PTL
=============================================================================
