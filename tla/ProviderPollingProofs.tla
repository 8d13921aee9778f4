----------------------- MODULE ProviderPollingProofs ------------------------
(***************************************************************************)
(* Proofs about ProviderPolling: the cooldown and health invariants hold   *)
(* for any number of providers, any concurrency, any retry policy and any  *)
(* Retry-After values.                                                     *)
(***************************************************************************)
EXTENDS ProviderPolling, FiniteSetTheorems, TLAPS

\* The cooldown that follows a RATE_LIMITED issue is never empty
\* (observe_retry_after adds at least the fallback).
LEMMA CooldownIsPositive ==
  ASSUME NEW r \in RetryAfter
  PROVE  Cooldown(r) \in Nat \ {0}
BY DelayAssumption DEF Cooldown, RetryAfter, Larger

\* The cooldown that metadata leaves behind is a duration (observe).
LEMMA ObservedIsDuration ==
  ASSUME NEW s \in Snapshot
  PROVE  Observed(s) \in Nat
BY DelayAssumption DEF Observed, Snapshot, RetryAfter

\* What record writes is a health record, degraded if the poll was throttled
\* (ProviderHealthTracker.record).
LEMMA RecordedIsHealth ==
  ASSUME NEW h \in Health, NEW a \in BOOLEAN, NEW b \in BOOLEAN, NEW t \in BOOLEAN
  PROVE  /\ Recorded(h, a, b, t) \in Health
         /\ t => Recorded(h, a, b, t).state = "degraded"
<1>1. Smaller(h.failures + 1, 3) \in 0..3
  BY DEF Health, Smaller
<1>2. ASSUME NEW f \in 0..3 PROVE Failing(a, f) \in Health
  BY DEF Failing, Health
<1>3. QED
  BY <1>1, <1>2 DEF Recorded, Health

\* The local variables a poll starts a stage with are well formed.
LEMMA StartingIsLocal ==
  ASSUME NEW o \in Operations, NEW b \in BOOLEAN
  PROVE  Starting(o, b) \in Local
BY LimitsAssumption DEF Starting, Local

\* The collector only visits what is listed (collect_snapshots).
LEMMA WalkIsSound ==
  ASSUME NEW local \in Local, NEW ok \in BOOLEAN, NEW place,
         local.call = "discover_events" => local.competitions > 0,
         local.call = "fetch_odds" => local.events > 0,
         Follows(place, local, ok)
  PROVE  /\ place \in Places
         /\ place.call # "rate_limit"
         /\ place.call = "discover_events" => place.competitions > 0
         /\ place.call = "fetch_odds" => place.events > 0
<1> DEFINE Good(x) == /\ x \in Places
                      /\ x.call # "rate_limit"
                      /\ x.call = "discover_events" => x.competitions > 0
                      /\ x.call = "fetch_odds" => x.events > 0
<1>1. ASSUME NEW c \in 0..MaxCompetitions, NEW e \in 0..MaxEvents
      PROVE  Good(Place(c, e))
  BY DEF Place, Places, Visit, Operations
<1>2. 0 \in 0..MaxCompetitions /\ 0 \in 0..MaxEvents
  BY LimitsAssumption
<1>3. local.competitions \in 0..MaxCompetitions /\ local.events \in 0..MaxEvents
  BY DEF Local
<1>4. Good([call |-> "discover_competitions", competitions |-> 0, events |-> 0])
  BY <1>2 DEF Places, Operations
<1> SUFFICES Good(place)
  OBVIOUS
<1> HIDE DEF Good
<1>5. CASE local.call = "supported_sports"
  BY <1>1, <1>2, <1>4, <1>5 DEF Follows
<1>6. CASE local.call = "discover_competitions"
  BY <1>1, <1>2, <1>6 DEF Follows
<1>7. CASE local.call = "discover_events"
  <2>1. local.competitions - 1 \in 0..MaxCompetitions
    BY <1>3, <1>7, LimitsAssumption
  <2>2. QED
    BY <1>1, <1>7, <2>1 DEF Follows
<1>8. CASE local.call = "fetch_odds"
  <2>1. local.events - 1 \in 0..MaxEvents
    BY <1>3, <1>8, LimitsAssumption
  <2>2. QED
    BY <1>1, <1>3, <1>8, <2>1 DEF Follows
<1>9. QED
  BY <1>5, <1>6, <1>7, <1>8 DEF Follows

-----------------------------------------------------------------------------
\* One provider's part of the inductive invariant Core.
Fine(p) ==
  /\ poll[p].call = "discover_events" => poll[p].competitions > 0
  /\ poll[p].call = "fetch_odds" => poll[p].events > 0
  /\ stage[p] = "collecting" => poll[p].call # "rate_limit"
  /\ stage[p] \in {"preflight", "collecting"} => gate[p] = 0
  /\ gate[p] > 0 => health[p].state = "degraded"

Core == TypeOK /\ \A p \in Providers : Fine(p)

\* Core is the type invariant, what the collector's walk relies on, and the two
\* cooldown invariants, none of which is inductive without the others.
LEMMA CoreInParts == Core <=> TypeOK /\ WalkInv /\ PolledOnlyWhenOpen /\ CoolingIsDegraded
BY DEF Core, Fine, WalkInv, PolledOnlyWhenOpen, Polling, CoolingIsDegraded

\* A step of provider p leaves the others alone.
Only(p) ==
  /\ p \in Providers
  /\ \E v : stage' = [stage EXCEPT ![p] = v]
  /\ \E v : poll' = [poll EXCEPT ![p] = v]
  /\ \E v : gate' = [gate EXCEPT ![p] = v]
  /\ \E v : health' = [health EXCEPT ![p] = v]

\* What is right about another provider stays right.
LEMMA OthersStayFine ==
  ASSUME TypeOK, NEW p, Only(p), NEW q \in Providers \ {p}, Fine(q)
  PROVE  Fine(q)'
<1>1. stage'[q] = stage[q] /\ poll'[q] = poll[q] /\ gate'[q] = gate[q] /\ health'[q] = health[q]
  BY DEF Only, TypeOK
<1>2. QED
  BY <1>1 DEF Fine

\* A poll that returns is fine if it leaves no cooldown, or was throttled
\* (_throttled_result and the end of _poll_adapter).
LEMMA ReturnIsFine ==
  ASSUME Core, NEW p \in Providers, NEW a \in BOOLEAN, NEW b \in BOOLEAN, NEW t \in BOOLEAN,
         NEW g \in Nat, g > 0 => t, gate' = [gate EXCEPT ![p] = g],
         Return(p, a, b, t), UNCHANGED sleeping,
         cached' \in [Providers -> Snapshot \cup {None}]
  PROVE  Core'
<1>1. Recorded(health[p], a, b, t) \in Health /\ (t => Recorded(health[p], a, b, t).state = "degraded")
  BY RecordedIsHealth DEF Core, TypeOK
<1>2. Fresh \in Local /\ Fresh.call = "finished"
  BY StartingIsLocal DEF Fresh, Starting, Operations
<1>3. TypeOK'
  BY <1>1, <1>2 DEF Core, TypeOK, Return, Stages
<1>4. Only(p)
  BY DEF Only, Return
<1>5. stage'[p] = "polled" /\ poll'[p] = Fresh /\ gate'[p] = g
      /\ health'[p] = Recorded(health[p], a, b, t)
  BY DEF Core, TypeOK, Return
<1>6. Fine(p)'
  BY <1>1, <1>2, <1>5 DEF Fine
<1>7. QED
  BY <1>3, <1>4, <1>6, OthersStayFine DEF Core

\* A poll that goes on to its next stage without a cooldown is fine.
LEMMA AwaitIsFine ==
  ASSUME Core, NEW p \in Providers, NEW b \in BOOLEAN,
         NEW st \in {"preflight", "collecting"},
         NEW o \in {"rate_limit", "supported_sports"}, st = "collecting" => o = "supported_sports",
         Await(p, st, o, b), gate' = [gate EXCEPT ![p] = 0], UNCHANGED sleeping,
         cached' \in [Providers -> Snapshot \cup {None}]
  PROVE  Core'
<1>1. Starting(o, b) \in Local /\ Starting(o, b).call = o
  BY StartingIsLocal DEF Operations, Starting
<1>2. TypeOK'
  BY <1>1 DEF Core, TypeOK, Await, Stages
<1>3. Only(p)
  BY DEF Only, Await, Core, TypeOK
<1>4. stage'[p] = st /\ poll'[p] = Starting(o, b) /\ gate'[p] = 0
  BY DEF Core, TypeOK, Await
<1>5. Fine(p)'
  BY <1>1, <1>4 DEF Fine
<1>6. QED
  BY <1>2, <1>3, <1>5, OthersStayFine DEF Core

\* Metadata either throttles the poll or lets it go on with no cooldown
\* (ProviderRateGate.observe and the check after it).
LEMMA MetadataIsFine ==
  ASSUME Core, NEW p \in Providers, NEW s \in Snapshot \cup {None},
         stage[p] = "preflight", Metadata(p, s), UNCHANGED sleeping,
         cached' \in [Providers -> Snapshot \cup {None}]
  PROVE  Core'
<1>1. gate[p] = 0 /\ poll[p].failed \in BOOLEAN
  BY DEF Core, Fine, TypeOK, Local
<1>2. CASE s = None
  <2>1. gate' = [gate EXCEPT ![p] = 0]
    BY <1>1, <1>2 DEF Metadata, Core, TypeOK
  <2>2. Await(p, "collecting", "supported_sports", FALSE)
    BY <1>2 DEF Metadata
  <2>3. QED
    BY <2>1, <2>2, AwaitIsFine
<1>3. CASE s # None /\ Observed(s) > 0
  <2>1. Observed(s) \in Nat
    BY <1>3, ObservedIsDuration
  <2>2. gate' = [gate EXCEPT ![p] = Observed(s)] /\ Return(p, FALSE, poll[p].failed, TRUE)
    BY <1>3 DEF Metadata, ReturnThrottled
  <2>3. QED
    BY <1>1, <2>1, <2>2, ReturnIsFine
<1>4. CASE s # None /\ ~(Observed(s) > 0)
  <2>1. Observed(s) = 0
    BY <1>4, ObservedIsDuration
  <2>2. gate' = [gate EXCEPT ![p] = 0] /\ Await(p, "collecting", "supported_sports", FALSE)
    BY <1>4, <2>1 DEF Metadata
  <2>3. QED
    BY <2>2, AwaitIsFine
<1>5. QED
  BY <1>2, <1>3, <1>4

\* Core survives the first step of a poll.
LEMMA BeginIsFine ==
  ASSUME Core, NEW p \in Providers, Begin(p)
  PROVE  Core'
<1>1. poll[p].failed \in BOOLEAN /\ gate[p] \in Nat /\ gate' = [gate EXCEPT ![p] = gate[p]]
      /\ UNCHANGED sleeping
      /\ cached' \in [Providers -> Snapshot \cup {None}]
  BY DEF Core, TypeOK, Local, Begin
<1>2. CASE gate[p] > 0 /\ ReturnThrottled(p)
  <2>1. Return(p, FALSE, poll[p].failed, TRUE)
    BY <1>2 DEF ReturnThrottled
  <2>2. QED
    BY <1>1, <2>1, ReturnIsFine
<1>3. CASE gate[p] = 0 /\ Await(p, "preflight", "rate_limit", FALSE)
  BY <1>1, <1>3, AwaitIsFine
<1>4. CASE gate[p] = 0 /\ Await(p, "collecting", "supported_sports", FALSE)
  BY <1>1, <1>4, AwaitIsFine
<1>5. QED
  BY <1>2, <1>3, <1>4 DEF Begin

\* Core survives a preflight that is answered from the cache.
LEMMA CachedMetadataIsFine ==
  ASSUME Core, NEW p \in Providers, CachedMetadata(p)
  PROVE  Core'
<1>1. cached[p] \in Snapshot \cup {None} /\ UNCHANGED sleeping
      /\ cached' \in [Providers -> Snapshot \cup {None}]
  BY DEF Core, TypeOK, CachedMetadata
<1>2. QED
  BY <1>1, MetadataIsFine DEF CachedMetadata

\* Core survives an attempt that will be retried.
LEMMA RetryIsFine ==
  ASSUME Core, NEW p \in Providers, NEW outcome \in Outcomes, Retry(p, outcome),
         cached' \in [Providers -> Snapshot \cup {None}]
  PROVE  Core'
<1>1. RetryDelay(outcome) \in Nat
  BY DelayAssumption DEF RetryDelay, Larger, Outcomes, RetryAfter
<1>2. poll[p].attempt + 1 \in 1..MaxAttempts
  BY LimitsAssumption DEF Core, TypeOK, Local, Retry, Retries
<1>3. /\ poll' \in [Providers -> Local]
      /\ \A q \in Providers : /\ poll'[q].call = poll[q].call
                              /\ poll'[q].competitions = poll[q].competitions
                              /\ poll'[q].events = poll[q].events
  BY <1>2 DEF Core, TypeOK, Local, Retry, Retried
<1>4. TypeOK'
  BY <1>1, <1>3 DEF Core, TypeOK, Retry
<1>5. QED
  BY <1>3, <1>4 DEF Core, Fine, Retry

\* Core survives the end of a preflight call.
LEMMA PreflightEndsFine ==
  ASSUME Core, NEW p \in Providers, NEW outcome \in Outcomes, PreflightEnds(p, outcome),
         cached' \in [Providers -> Snapshot \cup {None}]
  PROVE  Core'
<1>1. stage[p] = "preflight" /\ UNCHANGED sleeping /\ poll[p].failed \in BOOLEAN
      /\ gate[p] = 0 /\ gate \in [Providers -> Nat]
  BY DEF PreflightEnds, Core, TypeOK, Local, Fine
<1>2. CASE \E s \in IF p \in Caching THEN {cached'[p]} ELSE Snapshot \cup {None} : Metadata(p, s)
  <2>1. PICK s \in Snapshot \cup {None} : Metadata(p, s)
    BY <1>2
  <2>2. QED
    BY <1>1, <2>1, MetadataIsFine
<1>3. CASE gate' = [gate EXCEPT ![p] = Cooldown(outcome.retryAfter)] /\ ReturnThrottled(p)
  <2>1. Cooldown(outcome.retryAfter) \in Nat
    BY CooldownIsPositive DEF Outcomes, RetryAfter
  <2>2. Return(p, FALSE, poll[p].failed, TRUE)
    BY <1>3 DEF ReturnThrottled
  <2>3. QED
    BY <1>1, <1>3, <2>1, <2>2, ReturnIsFine
<1>4. CASE Await(p, "collecting", "supported_sports", TRUE) /\ UNCHANGED gate
  <2>1. gate' = [gate EXCEPT ![p] = 0]
    BY <1>1, <1>4
  <2>2. QED
    BY <1>1, <1>4, <2>1, AwaitIsFine
<1>5. QED
  BY <1>2, <1>3, <1>4 DEF PreflightEnds

\* A call of the collector either leaves an issue or does not.
LEMMA ResultsAreBoolean ==
  ASSUME NEW local, NEW ok \in BOOLEAN, local.failed \in BOOLEAN, NEW result \in Results(local, ok)
  PROVE  result.failed \in BOOLEAN
<1> DEFINE issue == local.failed \/ ~ok
<1>1. \/ result = [snapshot |-> FALSE, failed |-> issue]
      \/ result = [snapshot |-> TRUE, failed |-> local.failed]
      \/ result = [snapshot |-> FALSE, failed |-> TRUE]
  BY Zenon DEF Results
<1>2. issue \in BOOLEAN
  OBVIOUS
<1> HIDE DEF issue
<1>3. ASSUME NEW a, NEW b \in BOOLEAN, result = [snapshot |-> a, failed |-> b]
      PROVE  result.failed \in BOOLEAN
  BY <1>3, Zenon
<1>4. QED
  BY <1>1, <1>2, <1>3, Zenon

\* Core survives every step of the collector's walk.
LEMMA CollectionIsFine ==
  ASSUME Core, NEW p \in Providers, NEW outcome \in Outcomes, CollectionProceeds(p, outcome),
         cached' \in [Providers -> Snapshot \cup {None}]
  PROVE  Core'
<1> DEFINE local == poll[p]
           ok == outcome.kind = "ok"
<1>1. local \in Local /\ (local.call = "discover_events" => local.competitions > 0)
      /\ (local.call = "fetch_odds" => local.events > 0)
  BY DEF Core, TypeOK, Fine
<1>2. PICK place \in Places, result \in Results(local, ok) :
        /\ Follows(place, local, ok)
        /\ poll' = [poll EXCEPT ![p] =
             [call |-> place.call, attempt |-> 1,
              competitions |-> place.competitions, events |-> place.events,
              failed |-> result.failed, collected |-> local.collected \/ result.snapshot,
              limited |-> Limited(local, outcome)]]
  BY DEF CollectionProceeds
<1>3. /\ place.call # "rate_limit"
      /\ place.call = "discover_events" => place.competitions > 0
      /\ place.call = "fetch_odds" => place.events > 0
  BY <1>1, <1>2, WalkIsSound
<1>4. result.failed \in BOOLEAN /\ (local.collected \/ result.snapshot) \in BOOLEAN
  <2>1. local.failed \in BOOLEAN /\ ok \in BOOLEAN
    BY <1>1 DEF Local
  <2>2. result.failed \in BOOLEAN
    BY <2>1, ResultsAreBoolean
  <2>3. QED
    BY <2>2
<1>5. Limited(local, outcome) \in [Operations -> SUBSET RetryAfter]
  BY <1>1 DEF Limited, Local, Outcomes, RetryAfter
<1>6. 1 \in 1..MaxAttempts
  BY LimitsAssumption
<1> HIDE DEF local, ok
<1>7. poll' \in [Providers -> Local]
  BY <1>2, <1>4, <1>5, <1>6 DEF Core, TypeOK, Local, Places
<1>8. TypeOK'
  BY <1>7 DEF Core, TypeOK, CollectionProceeds
<1>9. /\ poll'[p].call = place.call
      /\ poll'[p].competitions = place.competitions /\ poll'[p].events = place.events
  BY <1>2 DEF Core, TypeOK
<1>10. Fine(p)'
  BY <1>3, <1>9 DEF Core, Fine, CollectionProceeds
<1>11. ASSUME NEW q \in Providers \ {p} PROVE Fine(q)'
  BY <1>2 DEF Core, TypeOK, Fine, CollectionProceeds
<1>12. QED
  BY <1>8, <1>10, <1>11 DEF Core

\* Core survives the return of a poll: a cooldown comes with a throttled result.
LEMMA FinishIsFine ==
  ASSUME Core, NEW p \in Providers, Finish(p)
  PROVE  Core'
<1>1. /\ poll[p] \in Local /\ gate[p] = 0 /\ gate \in [Providers -> Nat]
      /\ UNCHANGED sleeping
      /\ cached' \in [Providers -> Snapshot \cup {None}]
  BY DEF Core, TypeOK, Fine, Finish
<1>2. poll[p].collected \in BOOLEAN /\ poll[p].failed \in BOOLEAN
  BY <1>1 DEF Local
<1>3. CASE LastLimits(p) = {}
  <2>1. gate' = [gate EXCEPT ![p] = 0] /\ Return(p, poll[p].collected, poll[p].failed, FALSE)
    BY <1>1, <1>3 DEF Finish, Return, Recorded
  <2>2. PICK g \in Nat, t \in BOOLEAN : /\ g > 0 => t
                                        /\ gate' = [gate EXCEPT ![p] = g]
                                        /\ Return(p, poll[p].collected, poll[p].failed, t)
    <3>1. 0 \in Nat /\ FALSE \in BOOLEAN /\ (0 > 0 => FALSE)
      OBVIOUS
    <3>2. QED
      BY <2>1, <3>1, Zenon
  <2>3. QED
    BY <1>1, <1>2, <2>2, ReturnIsFine, Zenon
<1>4. CASE LastLimits(p) # {}
  <2>1. PICK r \in LastLimits(p) : gate' = [gate EXCEPT ![p] = Cooldown(r)]
    BY <1>4 DEF Finish
  <2>2. r \in RetryAfter
    BY <1>1, <2>1 DEF LastLimits, Local, Operations
  <2>3. Cooldown(r) \in Nat
    BY <2>2, CooldownIsPositive
  <2>4. Return(p, poll[p].collected, poll[p].failed, TRUE)
    BY <1>4 DEF Finish, Return, Recorded
  <2>5. QED
    BY <1>1, <1>2, <2>1, <2>3, <2>4, ReturnIsFine
<1>5. QED
  BY <1>3, <1>4

\* Core survives an attempt of the executor.
LEMMA AttemptIsFine ==
  ASSUME Core, NEW p \in Providers, NEW outcome \in Outcomes, Attempt(p, outcome)
  PROVE  Core'
<1>1. cached' \in [Providers -> Snapshot \cup {None}]
  <2>1. PICK s \in Captures(p, outcome) : cached' = [cached EXCEPT ![p] = s]
    BY DEF Attempt
  <2>2. s \in Snapshot \cup {None}
    BY DEF Captures, Core, TypeOK
  <2>3. QED
    BY <2>1, <2>2 DEF Core, TypeOK
<1>2. QED
  BY <1>1, RetryIsFine, PreflightEndsFine, CollectionIsFine DEF Attempt

\* Time that passes only shortens waits.
LEMMA EarlierIsShorter ==
  ASSUME NEW left \in [Providers -> Nat]
  PROVE  /\ Earlier(left) \in [Providers -> Nat]
         /\ \A p \in Providers : left[p] = 0 => Earlier(left)[p] = 0
         /\ \A p \in Providers : Earlier(left)[p] > 0 => left[p] > 0
BY DEF Earlier, Larger

\* Core is an inductive invariant.
LEMMA CoreIsInductive ==
  ASSUME Core, [Next]_vars
  PROVE  Core'
<1>1. CASE Tick
  <2>1. TypeOK'
    BY <1>1, EarlierIsShorter DEF Tick, Core, TypeOK
  <2>2. QED
    BY <1>1, <2>1, EarlierIsShorter DEF Tick, Core, TypeOK, Fine
<1>2. CASE StartCycle
  BY <1>2 DEF StartCycle, Core, TypeOK, Stages, Fine
<1>3. CASE EndCycle
  BY <1>3 DEF EndCycle, Core, TypeOK, Stages, Fine
<1>4. CASE \E p \in Providers : Poll(p)
  BY <1>4, BeginIsFine, CachedMetadataIsFine, AttemptIsFine, FinishIsFine DEF Poll
<1>5. CASE UNCHANGED vars
  BY <1>5 DEF vars, Core, TypeOK, Fine
<1>6. QED
  BY <1>1, <1>2, <1>3, <1>4, <1>5 DEF Next

\* Core holds at the start.
LEMMA CoreHoldsInitially ==
  ASSUME Init
  PROVE  Core
<1>1. Fresh \in Local /\ Fresh.call = "finished"
  BY StartingIsLocal DEF Fresh, Starting, Operations
<1>2. QED
  BY <1>1 DEF Init, Core, TypeOK, Fine, Stages, Health

-----------------------------------------------------------------------------
\* Every variable keeps its type, and with it an executor makes at most
\* max_attempts attempts and a failure counter stays within its bounds, for any
\* number of providers and any answers (_poll_adapter, ProviderExecutor.run).
THEOREM TypeCorrect == Spec => []TypeOK
<1>1. Core => TypeOK
  BY DEF Core
<1>2. QED
  BY <1>1, CoreHoldsInitially, CoreIsInductive, PTL DEF Spec

\* No provider is asked anything while its cooldown runs (the gate checks of
\* _poll_adapter against everything that sets _next_allowed_at).
THEOREM CooldownIsRespected == Spec => []PolledOnlyWhenOpen
<1>1. Core => PolledOnlyWhenOpen
  BY CoreInParts
<1>2. QED
  BY <1>1, CoreHoldsInitially, CoreIsInductive, PTL DEF Spec

\* A provider that is cooling down is reported degraded (ProviderRateGate and
\* ProviderHealthTracker agree at the end of every poll).
THEOREM CooldownIsReported == Spec => []CoolingIsDegraded
<1>1. Core => CoolingIsDegraded
  BY CoreInParts
<1>2. QED
  BY <1>1, CoreHoldsInitially, CoreIsInductive, PTL DEF Spec

\* A step puts at most one provider more into a poll, and only into a free slot.
LEMMA SlotsAreRespected ==
  ASSUME TypeOK, BoundedConcurrency, [Next]_vars
  PROVE  BoundedConcurrency'
<1>1. /\ IsFiniteSet(Providers) /\ Polling \subseteq Providers /\ Polling' \subseteq Providers
      /\ MaxConcurrency \in Nat
  BY ProvidersAssumption, LimitsAssumption DEF Polling
<1>2. IsFiniteSet(Polling) /\ IsFiniteSet(Polling') /\ Cardinality(Polling) \in Nat
  BY <1>1, FS_Subset, FS_CardinalityType
<1>3. ASSUME Polling' \subseteq Polling PROVE BoundedConcurrency'
  <2>1. Cardinality(Polling') <= Cardinality(Polling)
    BY <1>2, <1>3, FS_Subset
  <2>2. Cardinality(Polling') \in Nat
    BY <1>2, FS_CardinalityType
  <2>3. QED
    BY <1>1, <1>2, <2>1, <2>2 DEF BoundedConcurrency
<1>4. ASSUME NEW p \in Providers, Begin(p) PROVE BoundedConcurrency'
  <2>1. Polling' \subseteq Polling \cup {p}
    BY <1>4 DEF TypeOK, Begin, ReturnThrottled, Return, Await, Polling
  <2>2. IsFiniteSet(Polling \cup {p}) /\ Cardinality(Polling \cup {p}) <= Cardinality(Polling) + 1
    <3>1. /\ IsFiniteSet(Polling \cup {p})
          /\ \/ Cardinality(Polling \cup {p}) = Cardinality(Polling)
             \/ Cardinality(Polling \cup {p}) = Cardinality(Polling) + 1
      BY <1>2, FS_AddElement, Zenon
    <3>2. QED
      BY <1>2, <3>1
  <2>3. Cardinality(Polling') <= Cardinality(Polling \cup {p})
        /\ Cardinality(Polling') \in Nat /\ Cardinality(Polling \cup {p}) \in Nat
    BY <1>2, <2>1, <2>2, FS_Subset, FS_CardinalityType
  <2>4. Cardinality(Polling) + 1 <= MaxConcurrency
    BY <1>1, <1>2, <1>4 DEF Begin, HasSlot
  <2>5. QED
    BY <1>1, <1>2, <2>2, <2>3, <2>4 DEF BoundedConcurrency
<1>5. ASSUME NEW p \in Providers, Poll(p), ~Begin(p) PROVE Polling' \subseteq Polling
  <2>1. stage[p] \in {"preflight", "collecting"}
    BY <1>5 DEF Poll, CachedMetadata, Attempt, Asking, Finish
  <2>2. \A q \in Providers \ {p} : stage'[q] = stage[q]
    <3>1. ASSUME NEW s, Metadata(p, s) PROVE \A q \in Providers \ {p} : stage'[q] = stage[q]
      BY <3>1 DEF TypeOK, Metadata, Await, ReturnThrottled, Return
    <3>2. CASE CachedMetadata(p)
      BY <3>1, <3>2 DEF CachedMetadata
    <3>3. CASE Finish(p)
      BY <3>3 DEF TypeOK, Finish, Return
    <3>4. ASSUME NEW outcome \in Outcomes, Attempt(p, outcome)
          PROVE  \A q \in Providers \ {p} : stage'[q] = stage[q]
      <4>1. CASE Retry(p, outcome)
        BY <4>1 DEF Retry
      <4>2. CASE PreflightEnds(p, outcome)
        <5>1. \/ \E s : Metadata(p, s)
              \/ ReturnThrottled(p)
              \/ Await(p, "collecting", "supported_sports", TRUE)
          BY <4>2 DEF PreflightEnds
        <5>2. QED
          BY <3>1, <5>1 DEF TypeOK, ReturnThrottled, Return, Await
      <4>3. CASE CollectionProceeds(p, outcome)
        BY <4>3 DEF CollectionProceeds
      <4>4. QED
        BY <3>4, <4>1, <4>2, <4>3 DEF Attempt
    <3>5. QED
      BY <1>5, <3>2, <3>3, <3>4 DEF Poll
  <2>3. QED
    BY <2>1, <2>2 DEF Polling
<1>6. CASE StartCycle \/ EndCycle \/ Tick \/ UNCHANGED vars
  <2>1. Polling' \subseteq Polling
    BY <1>6 DEF StartCycle, EndCycle, Tick, vars, Polling
  <2>2. QED
    BY <1>3, <2>1
<1>7. QED
  BY <1>3, <1>4, <1>5, <1>6 DEF Next

\* At most max_concurrency providers are polled at a time, however the polls
\* interleave (the semaphore of poll_once).
THEOREM ConcurrencyIsBounded == Spec => []BoundedConcurrency
<1>1. Init => BoundedConcurrency
  <2>1. ASSUME Init PROVE Polling = {}
    BY <2>1 DEF Init, Polling
  <2>2. QED
    BY <2>1, FS_EmptySet, LimitsAssumption DEF BoundedConcurrency
<1>2. QED
  BY <1>1, TypeCorrect, SlotsAreRespected, PTL DEF Spec

=============================================================================
