-------------------------- MODULE ProviderAdapters --------------------------
(***************************************************************************)
(* A provider adapter in use: one of the two HTTP adapters, called by      *)
(* several coroutines at a time, while the provider changes the fixture.   *)
(***************************************************************************)
EXTENDS OddsPapiProvider, TheOddsApiProvider

vars == <<httpVars, papiVars, eventCompetition>>

Init == HttpInit /\ OddsPapiInit /\ TheOddsApiInit

Step ==
  \/ vendor = "oddspapi" /\ OddsPapiNext /\ UNCHANGED eventCompetition
  \/ vendor = "the_odds_api" /\ TheOddsApiNext /\ UNCHANGED papiVars
  \/ FixtureMoves /\ UNCHANGED <<papiVars, eventCompetition>>
  \/ (\E c \in Callers : StreamOdds(c)) /\ UNCHANGED <<papiVars, eventCompetition>>

\* result only shows how the last call ended: it is forgotten before the next
\* step of the adapter.
Next ==
  \/ result = NoValue /\ Step
  \/ result # NoValue /\ Collect /\ UNCHANGED <<papiVars, eventCompetition>>

Spec == Init /\ [][Next]_vars

-----------------------------------------------------------------------------

\* Telemetry is operation-level (docs/providers/the-odds-api.md): a call that
\* returned emitted exactly one success, one that raised a ProviderError exactly
\* one failure of the same kind, whatever the number of requests it sent and the
\* failures of other calls meanwhile. health, which raises no ProviderError, emits
\* the failure it translates. Silent are refusals before the first request, the
\* quota answered from memory, an unsupported competition of The Odds API, and
\* the calls that end with an error the adapter does not translate: cancelled
\* ones, and odds of a bookmaker whose Provider is invalid, although "source-model
\* validation exceptions do not escape the adapter boundary" in the same document.
TelemetryAgrees ==
  result # NoValue =>
    LET raised == IF result.op = "health" THEN result.value # "healthy" ELSE ~result.ok
    IN  \/ result.asked = 0 /\ result.emitted = <<>>
        \/ ~raised /\ result.asked > 0 /\ result.emitted = <<Success>>
        \/ /\ raised /\ result.asked > 0 /\ Len(result.emitted) = 1
           /\ result.emitted[1].outcome = "FAILURE"
           /\ IF result.op = "health" THEN result.value = HealthState(result.emitted[1].kind)
              ELSE result.value = result.emitted[1].kind
        \/ /\ vendor = "the_odds_api" /\ result.op = "discover_events"
           /\ result.value = "UNSUPPORTED" /\ result.emitted = <<>>
        \/ ~result.ok /\ result.value \in Uncaught /\ result.emitted = <<>>

Fetched == result # NoValue /\ result.op = "fetch_odds" /\ result.ok /\ result.value # NoValue

\* An OddsPapi snapshot prices the fixture, with its teams and its start, that
\* event discovery reported of the event when the fetch began or while it
\* waited, even though the provider may have corrected or rescheduled it since.
SnapshotOfDiscoveredEvent ==
  Fetched /\ vendor = "oddspapi" => result.value.fixture \in result.value.seen

\* The selections an adapter publishes of a market exclude each other and leave
\* no result out: whatever the score, one of them wins and the others lose, or
\* all are refunded. It rests on the shape checks of both adapters, the sign of
\* handicaps and the outcomes of the catalogue that was cached when the fetch
\* began, which another call may have replaced.
MarketsSettleExclusively ==
  Fetched =>
    IF vendor = "oddspapi"
    THEN OddsPapiMarketsSettle(result.value.markets, SportOf[result.value.fixture.competition])
    ELSE TheOddsApiMarketsSettle(result.value.markets)

-----------------------------------------------------------------------------
(* The inductive invariant.                                                *)

\* The calls in flight. No call has emitted anything while it waits: the sports
\* list of discover_events is silent.
Discoveries ==
  [op : {"discover_competitions"}, at : {"/tournaments"}, read : Sports,
   seen : {{}}, emitted : {<<>>}]
    \cup [op : {"discover_events"}, at : {"/fixtures", "/events"}, read : Competitions,
          seen : {{}}, emitted : {<<>>}]

\* What fetch_odds read: OddsPapi the context and the catalogue, The Odds API
\* the competition.
PapiFetches ==
  {f \in [op : {"fetch_odds"}, at : {"/markets", "/odds"},
          read : [context : Fixtures, catalog : Catalogues \cup {NoValue}],
          seen : SUBSET Fixtures, emitted : {<<>>}] :
     /\ f.read.context \in f.seen
     /\ f.at = "/odds" => f.read.catalog \in Catalogues}
OddsApiFetches ==
  [op : {"fetch_odds"}, at : {"/odds"}, read : Competitions, seen : {{}}, emitted : {<<>>}]

Calls ==
  {Idle} \cup Discoveries \cup (IF vendor = "oddspapi" THEN PapiFetches ELSE OddsApiFetches)

AdapterInv ==
  /\ vendor \in Vendors
  /\ fixture \in Fixtures
  /\ call \in [Callers -> Calls]
  /\ eventContext \in Fixtures \cup {NoValue}
  /\ marketCatalog \in Catalogues \cup {NoValue}
  /\ eventCompetition \in Competitions \cup {NoValue}
=============================================================================
