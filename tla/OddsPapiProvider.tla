-------------------------- MODULE OddsPapiProvider --------------------------
(***************************************************************************)
(* The OddsPapi V4 adapter (providers/oddspapi.py): discovery fills the    *)
(* competition and event contexts, fetch_odds loads the market catalogue   *)
(* once, compares the answer with the discovered fixture and turns every   *)
(* outcome of a supported market into a source market of its own.          *)
(* An answer quotes one market of one bookmaker.                           *)
(***************************************************************************)
EXTENDS ProviderHttp

CONSTANTS
  Catalogues, \* the market catalogues the provider may publish: sets of records
  Accounts    \* the answers of /account: the current subscription and all of them

VARIABLES
  competitionSports, \* _competition_sports: sport of each known competition
  eventContext,      \* _event_context of the event, or NoValue
  marketCatalog      \* _market_catalog, or NoValue

papiVars == <<competitionSports, eventContext, marketCatalog>>

\* A catalogue record: outcomes maps outcome ids to (casefolded) labels.
MarketRecord(m) ==
  /\ m.sport \in Sports /\ m.playerProp \in BOOLEAN /\ m.handicap \in Int
  /\ DOMAIN m.outcomes # {}

ASSUME CataloguesAssumption ==
  \A k \in Catalogues :
    /\ \A m \in k : MarketRecord(m)
    /\ \A m, n \in k : m.id = n.id => m = n   \* duplicate ids are malformed

-----------------------------------------------------------------------------
(* Supported markets                                                       *)

Labels(m) == {m.outcomes[o] : o \in DOMAIN m.outcomes}
Pair(m, labels) == Cardinality(DOMAIN m.outcomes) = 2 /\ Labels(m) = labels

IsTotal(m, name) ==
  /\ m.name = name /\ m.period = "fulltime" /\ m.type = "totals"
  /\ m.handicap > 0 /\ Pair(m, {"over", "under"})

IsHandicap(m, name) ==
  /\ m.name = name /\ m.period = "fulltime" /\ m.type = "handicap" /\ Pair(m, {"1", "2"})

\* is_documented_oddspapi_football_1x2
IsDocumented1x2(m) ==
  /\ m.id = 101 /\ m.sport = "football" /\ m.name = "full time result"
  /\ m.period = "fulltime" /\ m.type = "1x2" /\ m.handicap = 0
  /\ m.outcomes = [o \in 101..103 |-> <<"1", "x", "2">>[o - 100]]

IsBothTeamsToScore(m) ==
  /\ m.name = "both teams to score" /\ m.period = "fulltime" /\ m.type = "totals"
  /\ m.handicap = 0 /\ Pair(m, {"yes", "no"})

\* _tennis_set_index
SetIndex(m) ==
  CASE m.id = 123 /\ m.name = "first set winner" -> 1
    [] m.id = 125 /\ m.name = "second set winner" -> 2
    [] OTHER -> NoValue

IsTennisWinner(m) ==
  /\ \/ m.name \in {"match winner", "winner"} /\ m.period \in {"fulltime", "match"}
     \/ SetIndex(m) = 1 /\ m.period = "p1"
     \/ SetIndex(m) = 2 /\ m.period = "p2"
  /\ m.type = "winner" /\ m.handicap = 0 /\ Pair(m, {"1", "2"})

IsSupportedMarket(m, sport) ==
  /\ ~m.playerProp
  /\ CASE sport = "football" ->
            \/ IsDocumented1x2(m) \/ IsBothTeamsToScore(m)
            \/ IsTotal(m, "over under full time") \/ IsHandicap(m, "asian handicap")
       [] sport = "tennis" -> IsTennisWinner(m)
       [] sport = "basketball" ->
            \/ IsTotal(m, "over under (incl. overtime)")
            \/ IsHandicap(m, "handicap (incl. overtime)")

-----------------------------------------------------------------------------
(* The answer of /odds                                                     *)

\* What a bookmaker's market says besides its quotes, at most one flag against.
Flags == {f \in [bookmakerActive : BOOLEAN, suspended : BOOLEAN, marketActive : BOOLEAN] :
            (f.bookmakerActive /\ ~f.suspended) \/ (f.bookmakerActive /\ f.marketActive)
              \/ (~f.suspended /\ f.marketActive)}

\* The market of the answer: its catalogue record as the provider has it now,
\* the flags of the bookmaker and the market, and the outcomes that are active.
\* A market quoted without its players['0'] entry, or at a price of 1 or less,
\* is malformed and falls under OddsMalformed.
Answer(m, flags, active) ==
  [market |-> m, active |-> active,
   open |-> flags.bookmakerActive /\ ~flags.suspended /\ flags.marketActive]

\* The record the call's catalogue has of the market, if it is to be read.
CatalogueEntry(catalog, sport, id) ==
  {m \in catalog : m.id = id /\ m.sport = sport /\ IsSupportedMarket(m, sport)}

\* raw_outcomes must be the outcomes of the catalogue.
OutcomesAgree(entry, answer) == DOMAIN entry.outcomes = DOMAIN answer.market.outcomes

IsHandicapName(m) == m.name \in {"asian handicap", "handicap (incl. overtime)"}
IsLineName(m) ==
  IsHandicapName(m) \/ m.name \in {"over under full time", "over under (incl. overtime)"}

\* Fault: the handicap of the catalogue is copied to both sides.
SelectionHandicapUnsigned(m, o) == IF IsHandicapName(m) THEN m.handicap ELSE NoValue

SelectionHandicap(m, o) ==
  IF ~IsHandicapName(m) THEN NoValue
  ELSE IF m.outcomes[o] = "1" THEN m.handicap ELSE -m.handicap

\* One source market per outcome; _suspend_market closes them all when the
\* fixture is no longer pre-match.
SourceMarkets(m, answer, preMatch) ==
  {[market |-> m.id, outcome |-> o, label |-> m.outcomes[o],
    handicap |-> SelectionHandicap(m, o),
    line |-> IF IsLineName(m) THEN m.handicap ELSE NoValue,
    setIndex |-> SetIndex(m),
    status |-> IF answer.open /\ o \in answer.active /\ preMatch
               THEN "active" ELSE "suspended"] : o \in DOMAIN m.outcomes}

-----------------------------------------------------------------------------
(* Discovery                                                               *)

\* supported_sports, and health when the answer names a supported sport.
OddsPapiSports(c) ==
  /\ \/ AtOnce(c, "supported_sports", 1, TRUE, "sports", <<Success>>)
     \/ AtOnce(c, "health", 1, TRUE, "healthy", <<Success>>)
  /\ UNCHANGED <<vendor, fixture, rateLimit, papiVars>>

\* The single request of an operation, or the first one of
\* discover_competitions, fails.
SingleRequests == {"supported_sports", "health", "rate_limit", "discover_competitions"}

OddsPapiSimpleFails(c) ==
  /\ \E op \in SingleRequests, failure \in Failures : FailAtOnce(c, op, ErrorKind(failure))
  /\ UNCHANGED <<vendor, fixture, rateLimit, papiVars>>

\* _account_rate_limit: the current subscription, or without one the first
\* active one; a used-up allowance leaves nothing, never less.
Subscription == [id : Nat, active : BOOLEAN, limit : Nat, count : Nat]
ASSUME AccountsAssumption ==
  \A a \in Accounts : /\ a.current \in Nat \cup {NoValue}
                      /\ \A i \in DOMAIN a.subscriptions : a.subscriptions[i] \in Subscription

AccountRateLimit(current, subscriptions) ==
  LET chosen == {i \in DOMAIN subscriptions :
                   IF current = NoValue THEN subscriptions[i].active
                   ELSE subscriptions[i].id = current}
  IN  IF chosen = {} THEN NoValue
      ELSE LET s == subscriptions[CHOOSE i \in chosen : \A j \in chosen : i <= j]
           IN  [limit |-> s.limit,
                remaining |-> IF s.count > s.limit THEN 0 ELSE s.limit - s.count,
                retryAfter |-> NoValue]

OddsPapiRateLimit(c) ==
  /\ \E a \in Accounts : rateLimit' = AccountRateLimit(a.current, a.subscriptions)
  /\ AtOnce(c, "rate_limit", 1, TRUE, "limits", <<Success>>)
  /\ UNCHANGED <<vendor, fixture, papiVars>>

\* _resolve_sport_record: exactly one record of the sport, none, or (malformed)
\* several; a missing sport is reported as a failure of the operation.
OddsPapiSportRecord(c) ==
  /\ \/ \E sport \in Sports : Begin(c, "discover_competitions", "/tournaments", sport, {}, <<>>)
     \/ FailAtOnce(c, "discover_competitions", "UNSUPPORTED")
  /\ UNCHANGED <<vendor, fixture, rateLimit, papiVars>>

\* The loop of discover_competitions records a tournament as soon as it is
\* read: entries that precede a malformed one stay known.
Known(listed, sport) ==
  [k \in Competitions |-> IF k \in listed THEN sport ELSE competitionSports[k]]

OddsPapiTournaments(c) ==
  /\ Awaits(c, "discover_competitions", "/tournaments")
  /\ \E listed \in SUBSET {k \in Competitions : SportOf[k] = call[c].read} :
       competitionSports' = Known(listed, call[c].read)
  /\ \/ End(c, TRUE, "competitions", <<Success>>)
     \/ EndFailed(c, "MALFORMED_RESPONSE")
  /\ UNCHANGED <<vendor, fixture, rateLimit, eventContext, marketCatalog>>

\* discover_events needs a known competition and a window that is not reversed.
OddsPapiDiscoverEvents(c) ==
  /\ \E k \in Competitions, reversed \in BOOLEAN :
       IF competitionSports[k] = NoValue \/ reversed
       THEN Refuse(c, "discover_events", "INVALID_REQUEST")
       ELSE Begin(c, "discover_events", "/fixtures", k, {}, <<>>)
  /\ UNCHANGED <<vendor, fixture, rateLimit, papiVars>>

\* The answer lists the event if it belongs to the competition and starts in
\* the window; the contexts are written once the whole answer is valid.
OddsPapiFixtures(c) ==
  /\ Awaits(c, "discover_events", "/fixtures")
  /\ \/ /\ fixture.competition = call[c].read
        /\ competitionSports[fixture.competition] = SportOf[fixture.competition]
        /\ eventContext' = fixture
        /\ EndAmong(Reported(fixture), c, TRUE, "events", <<Success>>)
     \/ /\ End(c, TRUE, "events", <<Success>>)
        /\ UNCHANGED eventContext
  /\ UNCHANGED <<vendor, fixture, rateLimit, competitionSports, marketCatalog>>

-----------------------------------------------------------------------------
(* Odds                                                                    *)

\* fetch_odds reads the context and the cached catalogue before it waits.
OddsPapiFetchOdds(c) ==
  /\ IF eventContext = NoValue
     THEN Refuse(c, "fetch_odds", "INVALID_REQUEST")
     ELSE Begin(c, "fetch_odds", IF marketCatalog = NoValue THEN "/markets" ELSE "/odds",
                [context |-> eventContext, catalog |-> marketCatalog], {eventContext}, <<>>)
  /\ UNCHANGED <<vendor, fixture, rateLimit, papiVars>>

\* _load_market_catalog: two calls that both found no catalogue both store one.
OddsPapiMarkets(c) ==
  /\ Awaits(c, "fetch_odds", "/markets")
  /\ \E k \in Catalogues :
       /\ marketCatalog' = k
       /\ Continue(c, "/odds", [context |-> call[c].read.context, catalog |-> k])
  /\ UNCHANGED <<vendor, fixture, rateLimit, competitionSports, eventContext>>

\* Fault: the start of the fixture is not compared.
ContextAgreesButStart(context) ==
  /\ fixture.competition = context.competition
  /\ fixture.home = context.home /\ fixture.away = context.away

\* tournament, participants and start of the answer are those discovered
ContextAgrees(context) ==
  /\ fixture.competition = context.competition
  /\ fixture.home = context.home /\ fixture.away = context.away
  /\ fixture.start = context.start

Snapshot(c, markets) == [fixture |-> fixture, seen |-> call[c].seen, markets |-> markets]

\* The markets read from an answer; unknown or unsupported ones are skipped.
ReadMarkets(read, answer, preMatch) ==
  UNION {SourceMarkets(m, answer, preMatch) :
           m \in CatalogueEntry(read.catalog, SportOf[read.context.competition],
                                answer.market.id)}

\* statusId 0 is pre-match, 1 to 3 are the other documented ones.
OddsPapiOdds(c) ==
  /\ Awaits(c, "fetch_odds", "/odds")
  /\ ContextAgrees(call[c].read.context)
  /\ \/ End(c, TRUE, NoValue, <<Success>>)   \* hasOdds is false
     \/ \E k \in Catalogues : \E m \in k :
        \E statusId \in {0, 1}, flags \in Flags, active \in SUBSET DOMAIN m.outcomes :
          LET answer == Answer(m, flags, active)
              read == call[c].read
          IN  /\ \A e \in CatalogueEntry(read.catalog, SportOf[read.context.competition], m.id) :
                   OutcomesAgree(e, answer)
              /\ End(c, TRUE, Snapshot(c, ReadMarkets(read, answer, statusId = 0)), <<Success>>)
  /\ UNCHANGED <<vendor, fixture, rateLimit, papiVars>>

\* Any request may fail instead, and any answer may be malformed: unreadable,
\* against the schema, for another fixture than the one discovered, or with
\* other outcomes than the catalogue's.
OddsPapiRequestFails(c) ==
  /\ call[c] # Idle
  /\ \E failure \in Failures : EndFailed(c, ErrorKind(failure))
  /\ UNCHANGED <<vendor, fixture, rateLimit, papiVars>>

\* A bookmaker's slug that ProviderId or Provider refuses (too long, a control
\* character): _shared_bookmaker_provider does not translate the error.
OddsPapiOddsEscape(c) ==
  /\ Awaits(c, "fetch_odds", "/odds")
  /\ ContextAgrees(call[c].read.context)
  /\ End(c, FALSE, "DOMAIN_VALIDATION", <<>>)
  /\ UNCHANGED <<vendor, fixture, rateLimit, papiVars>>

OddsPapiCancelled(c) == Cancelled(c, SingleRequests) /\ UNCHANGED papiVars

OddsPapiInit ==
  /\ competitionSports = [k \in Competitions |-> NoValue]
  /\ eventContext = NoValue
  /\ marketCatalog = NoValue

OddsPapiNext ==
  \E c \in Callers :
    \/ OddsPapiSports(c) \/ OddsPapiRateLimit(c) \/ OddsPapiSimpleFails(c)
    \/ OddsPapiSportRecord(c) \/ OddsPapiTournaments(c)
    \/ OddsPapiDiscoverEvents(c) \/ OddsPapiFixtures(c)
    \/ OddsPapiFetchOdds(c) \/ OddsPapiMarkets(c) \/ OddsPapiOdds(c)
    \/ OddsPapiRequestFails(c) \/ OddsPapiOddsEscape(c) \/ OddsPapiCancelled(c)

-----------------------------------------------------------------------------
(* What the quoted outcomes of one market pay                              *)

Side(label) ==
  CASE label = "1" -> "home" [] label = "2" -> "away" [] label = "x" -> "draw"
    [] OTHER -> label

\* The kind of bet, from the labels the adapter publishes.
OddsPapiKind(markets) ==
  IF \E q \in markets : q.handicap # NoValue THEN "handicap"
  ELSE IF \E q \in markets : q.label \in {"over", "under"} THEN "total"
  ELSE IF \E q \in markets : q.label \in {"yes", "no"} THEN "both" ELSE "result"

OddsPapiMarketsSettle(markets, sport) ==
  LET lines == {q.line : q \in markets}
  IN  markets = {}
      \/ \E line \in lines :
           /\ lines = {line}
           /\ SettlesExclusively(OddsPapiKind(markets), line,
                {[side |-> Side(q.label), handicap |-> q.handicap] : q \in markets},
                sport = "football")
=============================================================================
