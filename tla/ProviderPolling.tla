-------------------------- MODULE ProviderPolling ---------------------------
(***************************************************************************)
(* One polling cycle after another of RealtimeIngestionRuntime             *)
(* (ingestion/realtime.py): bounded-concurrency polls of the provider      *)
(* adapters, the cooldowns of ProviderRateGate, the states of              *)
(* ProviderHealthTracker, the collector's walk over a provider             *)
(* (ingestion/collector.py), the retries of ProviderExecutor               *)
(* (providers/resilience.py) and the rate-limit metadata of the adapters.  *)
(*                                                                         *)
(* The providers' servers are external: every request is answered in one   *)
(* of the ways the adapters tell apart. Clocks are relative: a variable    *)
(* holds the time that is left until a moment, and Tick lets time pass.    *)
(***************************************************************************)
EXTENDS Integers, FiniteSets

CONSTANTS
  Providers,        \* the adapters, numbered in the order of their provider ids
  Declaring,        \* those with the RATE_LIMIT_METADATA capability
  Caching,          \* those whose rate_limit() repeats the latest metadata (The Odds API)
  MaxConcurrency,   \* policy.max_concurrency
  MaxAttempts,      \* provider_call_policy.max_attempts
  Backoff,          \* the local part of _retry_delay
  FallbackCooldown, \* policy.rate_limit_fallback_cooldown
  RetryAfters,      \* the Retry-After values the providers send
  MaxCompetitions,  \* bound: competitions a provider lists
  MaxEvents,        \* bound: events of a competition
  None              \* no value

ASSUME ProvidersAssumption == /\ Providers \subseteq Nat
                              /\ IsFiniteSet(Providers)
                              /\ Declaring \subseteq Providers
                              /\ Caching \subseteq Declaring
ASSUME LimitsAssumption == /\ MaxConcurrency \in Nat \ {0}
                           /\ MaxAttempts \in Nat \ {0}
                           /\ MaxCompetitions \in Nat
                           /\ MaxEvents \in Nat
ASSUME DelayAssumption == /\ FallbackCooldown \in Nat \ {0}
                          /\ Backoff \in Nat
                          /\ RetryAfters \subseteq Nat
                          /\ None \notin Int

RetryAfter == RetryAfters \cup {None}

\* RateLimitSnapshot, with remaining cut down to "none left" and "some left".
\* No adapter fills in resets_at.
Snapshot == [remaining : {0, 1, None}, retryAfter : RetryAfter]

\* What an awaited call comes to: a result, or the ProviderError after the
\* executor's translation, and the Retry-After header of the last answer, None
\* when it has none. Timeouts, transport failures and 5xx answers are "transient";
\* other statuses but 2xx and 429, and payloads that fail validation, "fatal".
Outcomes == [kind : {"ok", "fatal", "rate_limited", "transient"}, retryAfter : RetryAfter]

Retryable(outcome) == outcome.kind \in {"rate_limited", "transient"}

Operations == {"rate_limit", "supported_sports", "discover_competitions",
               "discover_events", "fetch_odds", "finished"}

VARIABLES
  stage,      \* "idle", "queued" for the semaphore, "preflight", "collecting", "polled"
  poll,       \* the local variables of _poll_adapter and the calls it makes
  sleeping,   \* time left of the executor's sleep before the next attempt
  cached,     \* _last_rate_limit of a caching adapter, or None
  gate,       \* time left until _next_allowed_at; 0 when absent or past
  health      \* state and consecutive_failures (counted up to three)

vars == <<stage, poll, sleeping, cached, gate, health>>

\* call is the operation under way, attempt the executor's attempt of it;
\* competitions and events are those still to visit; failed and collected say
\* whether there is an issue and a snapshot; limited holds the retry_after of
\* the RATE_LIMITED issues of each operation.
Starting(operation, hasIssue) ==
  [call |-> operation, attempt |-> 1, competitions |-> 0, events |-> 0,
   failed |-> hasIssue, collected |-> FALSE, limited |-> [o \in Operations |-> {}]]
Fresh == Starting("finished", FALSE)

Larger(m, n) == IF m > n THEN m ELSE n
Smaller(m, n) == IF m < n THEN m ELSE n

-----------------------------------------------------------------------------
(* ProviderRateGate                                                        *)

\* observe: the cooldown that metadata leaves behind; 0 removes the entry.
Observed(snapshot) ==
  IF snapshot.retryAfter # None THEN snapshot.retryAfter
  ELSE IF snapshot.remaining = 0 THEN FallbackCooldown ELSE 0

\* observe_retry_after
Cooldown(retryAfter) ==
  IF retryAfter = None THEN FallbackCooldown ELSE Larger(retryAfter, FallbackCooldown)

(* ProviderHealthTracker.record                                            *)

Failing(hasSnapshot, failures) ==
  [state |-> IF ~hasSnapshot /\ failures = 3 THEN "unavailable" ELSE "degraded",
   failures |-> failures]

\* Fault: a throttled poll is counted but leaves the state alone.
RecordedSilently(old, hasSnapshot, hasIssue, throttled) ==
  IF throttled THEN old
  ELSE IF hasIssue THEN Failing(hasSnapshot, Smaller(old.failures + 1, 3))
  ELSE [state |-> "healthy", failures |-> 0]

Recorded(old, hasSnapshot, hasIssue, throttled) ==
  IF throttled THEN [state |-> "degraded", failures |-> old.failures]
  ELSE IF hasIssue THEN Failing(hasSnapshot, Smaller(old.failures + 1, 3))
  ELSE [state |-> "healthy", failures |-> 0]

-----------------------------------------------------------------------------
Init ==
  /\ stage = [p \in Providers |-> "idle"]
  /\ poll = [p \in Providers |-> Fresh]
  /\ sleeping = [p \in Providers |-> 0]
  /\ cached = [p \in Providers |-> None]
  /\ gate = [p \in Providers |-> 0]
  /\ health = [p \in Providers |-> [state |-> "healthy", failures |-> 0]]

Earlier(left) == [p \in Providers |-> Larger(left[p] - 1, 0)]

Tick ==
  /\ gate' = Earlier(gate)
  /\ sleeping' = Earlier(sleeping)
  /\ UNCHANGED <<stage, poll, cached, health>>

\* poll_once hands every adapter to the semaphore.
StartCycle ==
  /\ \A p \in Providers : stage[p] = "idle"
  /\ stage' = [p \in Providers |-> "queued"]
  /\ UNCHANGED <<poll, sleeping, cached, gate, health>>

\* gather returns when every poll has.
EndCycle ==
  /\ \A p \in Providers : stage[p] = "polled"
  /\ stage' = [p \in Providers |-> "idle"]
  /\ UNCHANGED <<poll, sleeping, cached, gate, health>>

Polling == {p \in Providers : stage[p] \in {"preflight", "collecting"}}

\* Fault: one slot too many.
HasExtraSlot(p) ==
  /\ Cardinality(Polling) <= MaxConcurrency
  /\ \A q \in Providers : q < p => stage[q] # "queued"

\* The semaphore has a slot, and it is the turn of p: waiters are served in
\* the order in which gather created them.
HasSlot(p) ==
  /\ Cardinality(Polling) < MaxConcurrency
  /\ \A q \in Providers : q < p => stage[q] # "queued"

\* A poll returns; its local variables are gone.
Return(p, hasSnapshot, hasIssue, throttled) ==
  /\ stage' = [stage EXCEPT ![p] = "polled"]
  /\ poll' = [poll EXCEPT ![p] = Fresh]
  /\ health' = [health EXCEPT ![p] = Recorded(@, hasSnapshot, hasIssue, throttled)]

\* _throttled_result
ReturnThrottled(p) == Return(p, FALSE, poll[p].failed, TRUE)

Await(p, newStage, operation, hasIssue) ==
  /\ stage' = [stage EXCEPT ![p] = newStage]
  /\ poll' = [poll EXCEPT ![p] = Starting(operation, hasIssue)]
  /\ UNCHANGED health

\* Fault: a throttled poll starts the cooldown over.
BeginRearming(p) ==
  /\ stage[p] = "queued"
  /\ HasSlot(p)
  /\ \/ /\ gate[p] > 0
        /\ gate' = [gate EXCEPT ![p] = FallbackCooldown]
        /\ ReturnThrottled(p)
     \/ gate[p] = 0 /\ p \in Declaring /\ Await(p, "preflight", "rate_limit", FALSE) /\ UNCHANGED gate
     \/ gate[p] = 0 /\ p \notin Declaring /\ Await(p, "collecting", "supported_sports", FALSE) /\ UNCHANGED gate
  /\ UNCHANGED <<sleeping, cached>>

\* _poll_adapter up to its first await.
Begin(p) ==
  /\ stage[p] = "queued"
  /\ HasSlot(p)
  /\ \/ gate[p] > 0 /\ ReturnThrottled(p)
     \/ gate[p] = 0 /\ p \in Declaring /\ Await(p, "preflight", "rate_limit", FALSE)
     \/ gate[p] = 0 /\ p \notin Declaring /\ Await(p, "collecting", "supported_sports", FALSE)
  /\ UNCHANGED <<sleeping, cached, gate>>

\* Fault: metadata sets the cooldown for the next poll only.
MetadataForLater(p, snapshot) ==
  /\ gate' = IF snapshot = None THEN gate ELSE [gate EXCEPT ![p] = Observed(snapshot)]
  /\ Await(p, "collecting", "supported_sports", FALSE)

\* The preflight call returned metadata (None: there is none).
Metadata(p, snapshot) ==
  IF snapshot = None
  THEN Await(p, "collecting", "supported_sports", FALSE) /\ UNCHANGED gate
  ELSE /\ gate' = [gate EXCEPT ![p] = Observed(snapshot)]
       /\ IF Observed(snapshot) > 0 THEN ReturnThrottled(p)
          ELSE Await(p, "collecting", "supported_sports", FALSE)

\* rate_limit() of a caching adapter that has metadata: no request is made.
CachedMetadata(p) ==
  /\ stage[p] = "preflight"
  /\ cached[p] # None
  /\ sleeping[p] = 0
  /\ Metadata(p, cached[p])
  /\ UNCHANGED <<sleeping, cached>>

-----------------------------------------------------------------------------
(* One attempt of ProviderExecutor.run that sends a request.               *)

Asking(p) ==
  \/ stage[p] = "collecting" /\ poll[p].call # "finished"
  \/ stage[p] = "preflight" /\ cached[p] = None

\* _capture_rate_limit: what the headers of an answer, of any status, leave in a
\* caching adapter. A timeout or a transport failure has no answer.
Captures(p, outcome) ==
  IF p \notin Caching THEN {None}
  ELSE {s \in Snapshot : s.retryAfter = outcome.retryAfter}
         \cup (IF outcome.retryAfter = None THEN {cached[p]} ELSE {})

\* Faults: one attempt too many; an attempt that is not counted.
RetriesOnceMore(n, outcome) == Retryable(outcome) /\ n <= MaxAttempts
RetriedUncounted(n) == n

Retries(n, outcome) == Retryable(outcome) /\ n < MaxAttempts
Retried(n) == n + 1
RetryDelay(outcome) ==
  IF outcome.retryAfter = None THEN Backoff ELSE Larger(Backoff, outcome.retryAfter)

Retry(p, outcome) ==
  /\ Retries(poll[p].attempt, outcome)
  /\ poll' = [poll EXCEPT ![p].attempt = Retried(@)]
  /\ sleeping' = [sleeping EXCEPT ![p] = RetryDelay(outcome)]
  /\ UNCHANGED <<stage, gate, health>>

\* The preflight call ended: with metadata, with a RATE_LIMITED error that
\* throttles the poll, or with another issue (metadata of another provider is
\* one too) that does not keep the poll from going on.
PreflightEnds(p, outcome) ==
  /\ stage[p] = "preflight"
  /\ ~Retries(poll[p].attempt, outcome)
  /\ \/ /\ outcome.kind = "ok"
        /\ \E s \in IF p \in Caching THEN {cached'[p]} ELSE Snapshot \cup {None} : Metadata(p, s)
     \/ /\ outcome.kind = "rate_limited"
        /\ gate' = [gate EXCEPT ![p] = Cooldown(outcome.retryAfter)]
        /\ ReturnThrottled(p)
     \/ /\ outcome.kind \in {"ok", "transient", "fatal"}
        /\ Await(p, "collecting", "supported_sports", TRUE)
        /\ UNCHANGED gate
  /\ UNCHANGED sleeping

\* Where collect_snapshots goes after a call: a call that fails gives up what
\* it would have listed and nothing else.
Visit(competitions, events) ==
  IF events > 0 THEN "fetch_odds"
  ELSE IF competitions > 0 THEN "discover_events" ELSE "finished"

Places == [call : Operations, competitions : 0..MaxCompetitions, events : 0..MaxEvents]

Place(competitions, events) ==
  [call |-> Visit(competitions, events), competitions |-> competitions, events |-> events]

Follows(place, local, ok) ==
  \/ local.call = "supported_sports" /\ place = Place(0, 0)
  \/ /\ local.call = "supported_sports" /\ ok
     /\ place = [call |-> "discover_competitions", competitions |-> 0, events |-> 0]
  \/ /\ local.call = "discover_competitions"
     /\ \E c \in 0..MaxCompetitions : (ok \/ c = 0) /\ place = Place(c, 0)
  \/ /\ local.call = "discover_events"
     /\ \E e \in 0..MaxEvents : (ok \/ e = 0) /\ place = Place(local.competitions - 1, e)
  \/ local.call = "fetch_odds" /\ place = Place(local.competitions, local.events - 1)

\* fetch_odds returns a snapshot, none, or one that belongs to another provider
\* or event, which is an issue.
Results(local, ok) ==
  {[snapshot |-> FALSE, failed |-> local.failed \/ ~ok]} \cup
  {result \in {[snapshot |-> TRUE, failed |-> local.failed], [snapshot |-> FALSE, failed |-> TRUE]} :
     local.call = "fetch_odds" /\ ok}

Limited(local, outcome) ==
  IF outcome.kind # "rate_limited" THEN local.limited
  ELSE [local.limited EXCEPT ![local.call] =
          IF local.call = "fetch_odds" THEN @ \cup {outcome.retryAfter} ELSE {outcome.retryAfter}]

CollectionProceeds(p, outcome) ==
  LET local == poll[p]
      ok == outcome.kind = "ok" IN
  /\ stage[p] = "collecting"
  /\ ~Retries(local.attempt, outcome)
  /\ \E place \in Places, result \in Results(local, ok) :
       /\ Follows(place, local, ok)
       /\ poll' = [poll EXCEPT ![p] =
            [call |-> place.call, attempt |-> 1,
             competitions |-> place.competitions, events |-> place.events,
             failed |-> result.failed, collected |-> local.collected \/ result.snapshot,
             limited |-> Limited(local, outcome)]]
  /\ UNCHANGED <<stage, sleeping, gate, health>>

Attempt(p, outcome) ==
  /\ Asking(p)
  /\ sleeping[p] = 0
  /\ \E s \in Captures(p, outcome) : cached' = [cached EXCEPT ![p] = s]
  /\ \/ Retry(p, outcome)
     \/ PreflightEnds(p, outcome)
     \/ CollectionProceeds(p, outcome)

\* The RATE_LIMITED issues are observed in the order of the sorted issues, and
\* each replaces the one before: the last stands. fetch_odds issues sort after
\* those of the discoveries, among themselves by event id, which come in any
\* order. A supported_sports issue is alone.
LastLimits(p) ==
  LET of == poll[p].limited IN
  IF of["fetch_odds"] # {} THEN of["fetch_odds"]
  ELSE of["discover_events"] \cup of["discover_competitions"] \cup of["supported_sports"]

\* _poll_adapter after collect_snapshots.
Finish(p) ==
  /\ stage[p] = "collecting"
  /\ poll[p].call = "finished"
  /\ \/ LastLimits(p) = {} /\ UNCHANGED gate
     \/ \E retryAfter \in LastLimits(p) : gate' = [gate EXCEPT ![p] = Cooldown(retryAfter)]
  /\ Return(p, poll[p].collected, poll[p].failed, LastLimits(p) # {})
  /\ UNCHANGED <<sleeping, cached>>

Poll(p) ==
  \/ Begin(p)
  \/ CachedMetadata(p)
  \/ \E outcome \in Outcomes : Attempt(p, outcome)
  \/ Finish(p)

Next ==
  \/ Tick
  \/ StartCycle
  \/ EndCycle
  \/ \E p \in Providers : Poll(p)

\* asyncio runs every task that is ready and asyncio.timeout ends every attempt;
\* cycles() starts the next cycle; time passes.
Fairness ==
  /\ WF_vars(Tick)
  /\ WF_vars(StartCycle)
  /\ WF_vars(EndCycle)
  /\ \A p \in Providers : WF_vars(Poll(p))

Spec == Init /\ [][Next]_vars /\ Fairness

-----------------------------------------------------------------------------
Local == [call : Operations, attempt : 1..MaxAttempts,
          competitions : 0..MaxCompetitions, events : 0..MaxEvents,
          failed : BOOLEAN, collected : BOOLEAN,
          limited : [Operations -> SUBSET RetryAfter]]

Stages == {"idle", "queued", "preflight", "collecting", "polled"}
Health == [state : {"healthy", "degraded", "unavailable"}, failures : 0..3]

TypeOK ==
  /\ stage \in [Providers -> Stages]
  /\ poll \in [Providers -> Local]
  /\ sleeping \in [Providers -> Nat]
  /\ cached \in [Providers -> Snapshot \cup {None}]
  /\ gate \in [Providers -> Nat]
  /\ health \in [Providers -> Health]

\* No provider is asked anything while its cooldown runs: a provider whose poll
\* has gone past the two gate checks of _poll_adapter has none, however the
\* cooldown was set and whatever the other polls do meanwhile.
PolledOnlyWhenOpen == \A p \in Polling : gate[p] = 0

\* A provider that is cooling down is reported degraded: neither healthy, which
\* would hide that its prices stand still, nor unavailable.
CoolingIsDegraded == \A p \in Providers : gate[p] > 0 => health[p].state = "degraded"

\* At most max_concurrency providers are polled at a time.
BoundedConcurrency == Cardinality(Polling) <= MaxConcurrency

\* Every cycle comes to an end for every provider, whatever the providers
\* answer: attempts are bounded, a throttled or failed poll gives its slot back.
CycleCompletes == \A p \in Providers : stage[p] = "queued" ~> stage[p] = "polled"

\* A cooldown ends: a provider that is cooling down is asked again some day,
\* with nothing but the passing of time, if rate_limit() is a call of its own.
AskedAgain == \A p \in Providers \ Caching : gate[p] > 0 ~> Asking(p)

\* The same of a provider whose rate_limit() repeats the latest metadata.
CachedAskedAgain == \A p \in Caching : gate[p] > 0 ~> Asking(p)

-----------------------------------------------------------------------------
\* What the walk of the collector relies on: it only visits what is listed.
WalkInv ==
  \A p \in Providers :
    /\ poll[p].call = "discover_events" => poll[p].competitions > 0
    /\ poll[p].call = "fetch_odds" => poll[p].events > 0
    /\ stage[p] = "collecting" => poll[p].call # "rate_limit"

=============================================================================
