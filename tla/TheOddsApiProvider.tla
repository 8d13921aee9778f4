------------------------- MODULE TheOddsApiProvider -------------------------
(***************************************************************************)
(* The adapter of The Odds API V4 (providers/the_odds_api.py): every       *)
(* discovery reads the sports list, fetch_odds needs only the competition  *)
(* of a discovered event, and the quota is taken from the headers of every *)
(* response, errors included. An answer quotes one market.                 *)
(***************************************************************************)
EXTENDS ProviderHttp

CONSTANTS
  RawMarkets, \* bookmaker markets as the provider may send them
  Headers     \* x-requests-remaining, x-requests-used, Retry-After of responses

VARIABLES
  eventCompetition  \* _event_competitions of the event, or NoValue

\* A market as it is sent: its key, whether the bookmaker is configured in
\* basketball_full_event_bookmakers, and outcomes with a side and a point. The
\* sides "home" and "away" are the team names of the same answer.
MarketKeys == {"h2h", "totals", "spreads", "btts", "draw_no_bet", "h2h_s1", "h2h_s2"}
ASSUME RawMarketsAssumption ==
  \A m \in RawMarkets :
    /\ m.key \in MarketKeys /\ m.verified \in BOOLEAN
    /\ m.outcomes \in Seq([side : STRING, point : Int \cup {NoValue}])

-----------------------------------------------------------------------------
(* _source_markets                                                         *)

Points(m) == {m.outcomes[i].point : i \in DOMAIN m.outcomes}
Sides(m) == {m.outcomes[i].side : i \in DOMAIN m.outcomes}
TwoOf(m, sides) == Len(m.outcomes) = 2 /\ Sides(m) = sides
NoPoints(m) == Points(m) = {NoValue}
PointOf(m, side) ==
  m.outcomes[CHOOSE i \in DOMAIN m.outcomes : m.outcomes[i].side = side].point

\* Featured basketball lines of bookmakers whose overtime rule is not verified.
Skipped(m, sport) ==
  sport = "basketball" /\ m.key \in {"spreads", "totals"} /\ ~m.verified

OppositePoints(m) == PointOf(m, "home") = -PointOf(m, "away")

\* The shape each market key must have; anything else makes the whole answer
\* malformed.
WellShaped(m, sport) ==
  /\ m.outcomes # <<>>
  /\ CASE m.key = "totals" ->
            NoValue \notin Points(m) /\ Cardinality(Points(m)) = 1 /\ TwoOf(m, {"over", "under"})
       [] m.key \in {"h2h_s1", "h2h_s2"} ->
            sport = "tennis" /\ NoPoints(m) /\ TwoOf(m, {"home", "away"})
       [] m.key = "btts" -> NoPoints(m) /\ TwoOf(m, {"yes", "no"})
       [] m.key = "draw_no_bet" -> NoPoints(m) /\ TwoOf(m, {"home", "away"})
       [] m.key = "spreads" ->
            NoValue \notin Points(m) /\ TwoOf(m, {"home", "away"}) /\ OppositePoints(m)
       [] OTHER -> NoPoints(m)

MarketLine(m) ==
  CASE m.key = "totals" -> m.outcomes[1].point
    [] m.key = "draw_no_bet" -> 0
    [] m.key = "spreads" -> PointOf(m, "home")
    [] OTHER -> NoValue

Handicap(m, outcome) ==
  CASE m.key = "spreads" -> outcome.point [] m.key = "draw_no_bet" -> 0 [] OTHER -> NoValue

SourceMarket(m) ==
  [key |-> m.key, line |-> MarketLine(m),
   selections |-> {[side |-> m.outcomes[i].side, handicap |-> Handicap(m, m.outcomes[i])] :
                     i \in DOMAIN m.outcomes},
   setIndex |-> CASE m.key = "h2h_s1" -> 1 [] m.key = "h2h_s2" -> 2 [] OTHER -> NoValue]

-----------------------------------------------------------------------------
(* Quota                                                                   *)

ASSUME HeadersAssumption ==
  Headers \subseteq [remaining : Nat \cup {NoValue}, used : Nat \cup {NoValue},
                     retryAfter : Nat \cup {NoValue}]

\* _capture_rate_limit: a response without any of the headers says nothing; one
\* without both counts leaves the allowance unknown.
CapturedRateLimit(h) ==
  IF h.remaining = NoValue /\ h.used = NoValue /\ h.retryAfter = NoValue THEN rateLimit
  ELSE LET counted == h.remaining # NoValue /\ h.used # NoValue
       IN  [limit |-> IF counted THEN h.remaining + h.used ELSE NoValue,
            remaining |-> IF counted THEN h.remaining ELSE NoValue,
            retryAfter |-> h.retryAfter]

CaptureRateLimit == \E h \in Headers : rateLimit' = CapturedRateLimit(h)

-----------------------------------------------------------------------------
(* Operations                                                              *)

\* rate_limit answers from the last headers if there are any.
TheOddsApiRateLimitCached(c) ==
  /\ rateLimit # NoValue
  /\ AtOnce(c, "rate_limit", 0, TRUE, "limits", <<>>)
  /\ UNCHANGED <<vendor, fixture, rateLimit, eventCompetition>>

\* Operations that read the sports list and nothing else.
SportsOnly == {"supported_sports", "discover_competitions", "health"}
                \cup (IF rateLimit = NoValue THEN {"rate_limit"} ELSE {})

\* Fault: the sports list of a larger operation emits a success of its own.
EmitsSuccessAlways(op) == TRUE

\* _load_sports(operation, emit_success=...): discover_events suppresses it.
EmitsSuccess(op) == op # "discover_events"

SportsEvents(op) == IF EmitsSuccess(op) THEN <<Success>> ELSE <<>>

TheOddsApiSports(c) ==
  /\ \E op \in SportsOnly :
       AtOnce(c, op, 1, TRUE, IF op = "health" THEN "healthy" ELSE "listed", SportsEvents(op))
  /\ CaptureRateLimit
  /\ UNCHANGED <<vendor, fixture, eventCompetition>>

\* Headers are read before the status is looked at, so an error carries them.
CaptureUnlessTransport(failure) ==
  IF failure = "transport" THEN UNCHANGED rateLimit ELSE CaptureRateLimit

TheOddsApiSportsFail(c) ==
  /\ \E op \in SportsOnly \cup {"discover_events"}, failure \in Failures :
       FailAtOnce(c, op, ErrorKind(failure)) /\ CaptureUnlessTransport(failure)
  /\ UNCHANGED <<vendor, fixture, eventCompetition>>

\* discover_events: a reversed window is refused; the sports list is loaded
\* first, and an unknown or outright competition raised without an event.
TheOddsApiDiscoverEvents(c) ==
  /\ \/ Refuse(c, "discover_events", "INVALID_REQUEST") /\ UNCHANGED rateLimit
     \/ /\ AtOnce(c, "discover_events", 1, FALSE, "UNSUPPORTED", SportsEvents("discover_events"))
        /\ CaptureRateLimit
     \/ /\ \E k \in Competitions :
             Begin(c, "discover_events", "/events", k, {}, SportsEvents("discover_events"))
        /\ CaptureRateLimit
  /\ UNCHANGED <<vendor, fixture, eventCompetition>>

TheOddsApiEvents(c) ==
  /\ Awaits(c, "discover_events", "/events")
  /\ CaptureRateLimit
  /\ \/ /\ fixture.competition = call[c].read
        /\ eventCompetition' = call[c].read
     \/ UNCHANGED eventCompetition
  /\ End(c, TRUE, "events", <<Success>>)
  /\ UNCHANGED <<vendor, fixture>>

TheOddsApiFetchOdds(c) ==
  /\ IF eventCompetition = NoValue
     THEN Refuse(c, "fetch_odds", "INVALID_REQUEST")
     ELSE Begin(c, "fetch_odds", "/odds", eventCompetition, {}, <<>>)
  /\ UNCHANGED <<vendor, fixture, rateLimit, eventCompetition>>

\* Only the event id and the competition of the answer are compared.
TheOddsApiOdds(c) ==
  /\ Awaits(c, "fetch_odds", "/odds")
  /\ fixture.competition = call[c].read
  /\ CaptureRateLimit
  /\ \E m \in RawMarkets :
       LET sport == SportOf[call[c].read]
       IN  /\ Skipped(m, sport) \/ WellShaped(m, sport)
           /\ End(c, TRUE,
                  [fixture |-> fixture,
                   markets |-> IF Skipped(m, sport) THEN {} ELSE {SourceMarket(m)}],
                  <<Success>>)
  /\ UNCHANGED <<vendor, fixture, eventCompetition>>

TheOddsApiRequestFails(c) ==
  /\ call[c] # Idle
  /\ \E failure \in Failures :
       EndFailed(c, ErrorKind(failure)) /\ CaptureUnlessTransport(failure)
  /\ UNCHANGED <<vendor, fixture, eventCompetition>>

\* A bookmaker's key or title that ProviderId or Provider refuses (too long, a
\* control character): _source_markets does not translate the error.
TheOddsApiOddsEscape(c) ==
  /\ Awaits(c, "fetch_odds", "/odds")
  /\ fixture.competition = call[c].read
  /\ CaptureRateLimit
  /\ End(c, FALSE, "DOMAIN_VALIDATION", <<>>)
  /\ UNCHANGED <<vendor, fixture, eventCompetition>>

TheOddsApiCancelled(c) ==
  Cancelled(c, SportsOnly \cup {"discover_events"}) /\ UNCHANGED eventCompetition

TheOddsApiInit == eventCompetition = NoValue

TheOddsApiNext ==
  \E c \in Callers :
    \/ TheOddsApiRateLimitCached(c) \/ TheOddsApiSports(c) \/ TheOddsApiSportsFail(c)
    \/ TheOddsApiDiscoverEvents(c) \/ TheOddsApiEvents(c) \/ TheOddsApiFetchOdds(c) \/ TheOddsApiOdds(c)
    \/ TheOddsApiRequestFails(c) \/ TheOddsApiOddsEscape(c) \/ TheOddsApiCancelled(c)

-----------------------------------------------------------------------------
(* What the selections of a market pay                                     *)

TheOddsApiKind(key) ==
  CASE key = "totals" -> "total" [] key \in {"spreads", "draw_no_bet"} -> "handicap"
    [] key = "btts" -> "both" [] OTHER -> "result"

\* The outcomes of "h2h" are checked later, by the strict normalization.
TheOddsApiMarketsSettle(markets) ==
  \A m \in markets :
    m.key # "h2h" =>
      SettlesExclusively(TheOddsApiKind(m.key), m.line, m.selections,
                         m.key \notin {"h2h_s1", "h2h_s2"})
=============================================================================
