---------------------------- MODULE ProviderHttp ----------------------------
(***************************************************************************)
(* What the two HTTP provider adapters, OddsPapiProvider and               *)
(* TheOddsApiProvider, have in common: an operation sends one request or   *)
(* two, waits for each answer, and ends by returning, by raising a         *)
(* ProviderError, or by an error no adapter catches.                       *)
(*                                                                         *)
(* Every await is a point where another coroutine of the same adapter, or  *)
(* the provider itself, may move: a call is kept in flight as a record     *)
(* naming the path it waits for and what it read before waiting. One event *)
(* id is followed; the fixture behind it may be corrected or rescheduled   *)
(* at any time.                                                            *)
(***************************************************************************)
EXTENDS Integers, Sequences, FiniteSets

CONSTANTS
  Callers,      \* coroutines that use the adapter
  Competitions, \* competitions (tournaments) of the provider
  SportOf,      \* the canonical sport of a competition
  Fixtures,     \* the identities the event may have
  Results,      \* the results the event may end with
  NoValue       \* None

Vendors == {"oddspapi", "the_odds_api"}
Sports == {"football", "tennis", "basketball"}

ASSUME SportOfAssumption == SportOf \in [Competitions -> Sports]
ASSUME FixturesAssumption ==
  Fixtures \subseteq [competition : Competitions, home : STRING, away : STRING, start : Nat]
ASSUME NoValueAssumption == NoValue \notin Int
ASSUME DistinctTeams == \A f \in Fixtures : f.home # f.away

VARIABLES
  vendor,     \* which adapter runs
  fixture,    \* external: the identity the provider gives the event now
  call,       \* the operation each caller has in flight
  rateLimit,  \* _last_rate_limit
  result      \* how the call that ended in the last step ended, or NoValue

httpVars == <<vendor, fixture, call, rateLimit, result>>

-----------------------------------------------------------------------------
(* Errors                                                                  *)

\* What a request may come back with instead of a usable payload.
Failures == {"transport", "malformed"} \cup {"302", "400", "401", "403", "404", "429", "500"}

\* Both adapters refuse 400; OddsPapi also 404, 405, 409 and 422.
RejectedRequests == IF vendor = "oddspapi" THEN {"400", "404", "405", "409", "422"} ELSE {"400"}

\* _http_error, and the transport and schema errors of _request_json and
\* _validated_payload_error
ErrorKind(failure) ==
  CASE failure = "transport" -> "TRANSPORT"
    [] failure = "malformed" -> "MALFORMED_RESPONSE"
    [] failure = "401" -> "AUTHENTICATION"
    [] failure = "403" -> "AUTHORIZATION"
    [] failure = "429" -> "RATE_LIMITED"
    [] failure \in RejectedRequests -> "INVALID_REQUEST"
    [] OTHER -> "UPSTREAM"

\* The errors that leave an operation as they are: the cancellation of the task
\* that called it, and the DomainValidationError of a bookmaker's Provider.
Uncaught == {"CANCELLED", "DOMAIN_VALIDATION"}

Success == [outcome |-> "SUCCESS", kind |-> NoValue]
Failure(kind) == [outcome |-> "FAILURE", kind |-> kind]

-----------------------------------------------------------------------------
(* Calls                                                                   *)

Idle == [op |-> "none"]

\* A call of op that waits for path, after events. read holds what it read from the adapter
\* before it waited, seen what event discovery reported of the event since.
Waiting(op, path, read, seen, events) ==
  [op |-> op, at |-> path, read |-> read, seen |-> seen, emitted |-> events]

Awaits(c, op, path) == call[c].op = op /\ call[c].at = path

Begin(c, op, path, read, seen, events) ==
  /\ call[c] = Idle
  /\ call' = [call EXCEPT ![c] = Waiting(op, path, read, seen, events)]
  /\ result' = NoValue

\* A call that reads nothing of the adapter before it waits for its only request
\* is one step: no step of another call can tell when it was sent.
AtOnce(c, op, asked, ok, value, events) ==
  /\ call[c] = Idle
  /\ call' = call
  /\ result' = [op |-> op, ok |-> ok, value |-> value, asked |-> asked, emitted |-> events]

\* A refusal before any request is sent: no telemetry event.
Refuse(c, op, kind) == AtOnce(c, op, 0, FALSE, kind, <<>>)

\* The call goes on to a second request.
Continue(c, path, read) ==
  /\ call' = [call EXCEPT ![c].at = path, ![c].read = read]
  /\ result' = NoValue

\* The call ends; calls is what the other callers' records have become.
EndAmong(calls, c, ok, value, events) ==
  /\ call' = [calls EXCEPT ![c] = Idle]
  /\ result' = [op |-> call[c].op, ok |-> ok, value |-> value, asked |-> 1,
                emitted |-> call[c].emitted \o events]

End(c, ok, value, events) == EndAmong(call, c, ok, value, events)

\* health turns every error into an answer.
HealthState(kind) ==
  IF kind \in {"RATE_LIMITED", "MALFORMED_RESPONSE"} THEN "degraded" ELSE "unavailable"

\* The answer of a request is an error: the failure is emitted, then raised.
EndFailed(c, kind) == End(c, FALSE, kind, <<Failure(kind)>>)
FailAtOnce(c, op, kind) ==
  IF op = "health" THEN AtOnce(c, op, 1, TRUE, HealthState(kind), <<Failure(kind)>>)
  ELSE AtOnce(c, op, 1, FALSE, kind, <<Failure(kind)>>)

\* The executor's asyncio.timeout, which by default is shorter than the timeout
\* of the request, or the end of the calling task cancels the await of the
\* answer. simple are the operations that are one step.
Cancelled(c, simple) ==
  /\ \/ call[c] # Idle /\ End(c, FALSE, "CANCELLED", <<>>)
     \/ \E op \in simple : AtOnce(c, op, 1, FALSE, "CANCELLED", <<>>)
  /\ UNCHANGED <<vendor, fixture, rateLimit>>

\* A discovery of the event is reported to the calls in flight (history).
Reported(f) ==
  [d \in Callers |-> IF call[d].op = "fetch_odds"
                     THEN [call[d] EXCEPT !.seen = @ \cup {f}] ELSE call[d]]

\* stream_odds: both adapters refuse before they return an iterator.
StreamOdds(c) ==
  /\ Refuse(c, "stream_odds", "UNSUPPORTED")
  /\ UNCHANGED <<vendor, fixture, rateLimit>>

\* external: the provider corrects or reschedules the fixture.
FixtureMoves ==
  /\ fixture' \in {f \in Fixtures \ {fixture} : f.competition = fixture.competition}
  /\ result' = NoValue
  /\ UNCHANGED <<vendor, call, rateLimit>>

\* The caller has the result.
Collect ==
  /\ result' = NoValue
  /\ UNCHANGED <<vendor, fixture, call, rateLimit>>

HttpInit ==
  /\ vendor \in Vendors
  /\ fixture \in Fixtures
  /\ call = [c \in Callers |-> Idle]
  /\ rateLimit = NoValue
  /\ result = NoValue

-----------------------------------------------------------------------------
(* What a market pays                                                      *)

\* The result of an event: goal margin for the home side, total goals and whether
\* both sides scored. Lines and handicaps are in half goals.
ASSUME ResultsAssumption == Results \subseteq [margin : Int, total : Nat, both : BOOLEAN]

\* The worth of a stake on a selection: 1 won, 0 refunded, -1 lost.
Sign(n) == IF n > 0 THEN 1 ELSE IF n = 0 THEN 0 ELSE -1
Settle(kind, line, selection, r) ==
  CASE kind = "total" /\ selection.side = "over"  -> Sign(2 * r.total - line)
    [] kind = "total" /\ selection.side = "under" -> Sign(line - 2 * r.total)
    [] kind = "handicap" /\ selection.side = "home" -> Sign(2 * r.margin + selection.handicap)
    [] kind = "handicap" /\ selection.side = "away" -> Sign(selection.handicap - 2 * r.margin)
    [] kind = "both" /\ selection.side = "yes" -> IF r.both THEN 1 ELSE -1
    [] kind = "both" /\ selection.side = "no"  -> IF r.both THEN -1 ELSE 1
    [] kind = "result" /\ selection.side = "home" -> IF r.margin > 0 THEN 1 ELSE -1
    [] kind = "result" /\ selection.side = "away" -> IF r.margin < 0 THEN 1 ELSE -1
    [] kind = "result" /\ selection.side = "draw" -> IF r.margin = 0 THEN 1 ELSE -1
    [] OTHER -> -1

\* Of the selections, for every result either one wins and the others lose, or
\* all are refunded. A contest that cannot be drawn has no result with margin 0.
SettlesExclusively(kind, line, selections, drawn) ==
  \A r \in {x \in Results : drawn \/ x.margin # 0} :
    LET worth(s) == Settle(kind, line, s, r)
    IN  \/ \A s \in selections : worth(s) = 0
        \/ \E s \in selections : worth(s) = 1 /\ \A t \in selections \ {s} : worth(t) = -1
=============================================================================
