# Verification of ArbiScan

ArbiScan polls odds providers, keeps the current prices in memory, aligns them
into best-price books of canonical markets and reports the books whose implied
probabilities sum to less than one. This directory holds TLA+ models of the
parts whose correctness depends on the order of events, the TLC runs that check
them on small instances, and TLAPS proofs for every instance. File paths below
are relative to `src/arbiscan/` of the repository.

## 1. Inventory

| Part | State | Operations | What is hard |
|---|---|---|---|
| `LiveQuoteStore` (`ingestion/realtime.py`) | one `QuoteVersion` per `QuoteKey` | `apply`, `fresh_versions`, `stale_count`, `evict_stale` | duplicated, reordered and skewed quotes; two places that decide what is stale |
| `RealtimeIngestionRuntime`, `ProviderRateGate`, `ProviderHealthTracker` (`ingestion/realtime.py`) | next allowed time and health per provider | `poll_once`, `observe`, `observe_retry_after`, `record` | concurrent polls sharing gate and tracker; cooldowns that must start, hold and end |
| `collect_snapshots` (`ingestion/collector.py`), `ProviderExecutor` (`providers/resilience.py`) | local to a poll | the walk over sports, competitions, events; timeout and retry | partial failure, bounded attempts, `Retry-After` |
| `MultiSourceLiveQuoteStore`, `consolidate_quotes` (`ingestion/multisource*.py`) | one store per transport, invalidated observations | `apply`, `invalidate_observations`, `evict_stale`, `consolidate` | two feeds of one bookmaker; invalidation of one feed only |
| `RealtimeScanner` and its multi-source subclass (`services/`) | the store, invalidated keys | `run_cycle`, `cycles` | state written in one cycle and used in a later one |
| `normalize_source_snapshot` (`normalization/strict.py`) | none | one pass over a snapshot | time gates that differ from the store's |
| `build_market_books` (`marketbook/builder.py`), `evaluate_market` (`arbitrage/core.py`) | none | best price per selection, exact implied sum | ties, completeness, exactness |
| Adapters (`providers/the_odds_api.py`, `providers/oddspapi.py`) | latest rate-limit metadata; competition and event contexts; market catalogue | `health`, `rate_limit`, `discover_*`, `fetch_odds`, `stream_odds` | state read before an await and used after it; operations of two requests; markets that must settle exclusively |
| `CanonicalRegistry`, domain constructors, `assess_market_support` (`matching/catalog.py`, `domain/models.py`, `normalization/market_support.py`) | immutable catalogue and its indexes | construction, lookup | one rule spread over four places |
| `EventMatcher`, aliases, `MatchedCanonicalIdHooks` (`matching/`, `normalization/aliases.py`, `normalization/event_identity.py`) | cache of decisions | `prepare_event_evidence`, `match` | an index and a cache that must not change a decision |
| `revalidate_opportunity` (`lifecycle/`), `allocate_stakes` (`arbitrage/staking.py`) | none | re-evaluation with the quotes of the moment; rounded stakes | changed, aged and future quotes; rounding, increments, bounds |
| Exchange portfolios (`arbitrage/exchange.py`) | none | acceptance and yield | shared liquidity, commission on the account |
| `AlertTracker` (`dashboard/service.py`) | state and fingerprint per market | `evaluate` | alerts lost or repeated while items come, change and go |
| `run_backtest` (`backtesting/`) | a store, open intervals, counters | replay of a corpus with a latency | must agree with the live scanner, which evicts |
| `SqliteAuditStore` (`persistence/store.py`) | five tables | `migrate`, `persist_*`, `purge_quotes_before`, `reconstruct_opportunity` | several processes, implicit transactions, crashes |
| Refundable books, dashboard rendering, API, observability, source enablement, synthetic providers | see section 9 | | |

Interaction: `run_cycle` awaits `poll_once`, which runs `_poll_adapter` for each
adapter under a semaphore; each poll walks its provider with
`collect_snapshots`, every call of which goes through `ProviderExecutor`. After
the await, `run_cycle` runs to its end without another one: it normalizes every
snapshot, hands the quotes to the store, updates the source invalidations,
evicts, reads the eligible quotes, builds the books and evaluates them.
Normalization asks the hooks for the canonical event, which `EventMatcher`
decides beforehand. An opportunity is re-evaluated by `revalidate_opportunity`,
shown and alerted on by the dashboard, and stored by `SqliteAuditStore`. The
backtest drives the store, the books and the re-evaluation from a recorded
corpus instead of polls.

What makes each part correct: the result of `apply` is a function of the set of
quotes and does not let a source clock run back beyond the tolerance; eviction
is invisible to readers; a provider is never asked during its cooldown, and is
asked again after it; every cycle ends; a suspended price leaves the very cycle
that reports it and a resumed one returns; one bookmaker slot has one price; an
opportunity consists of live prices and is the best the eligible prices allow;
what is called actionable wins whichever selection wins, and no safe stakes are
missed; alerts tell exactly what is shown; an adapter's answer describes the
event that was discovered, and its markets settle exclusively; neither index nor
cache changes which event is matched; a replay detects what the live scanner
would have detected.

## 2. Modules

| Module | Models | Used by |
|---|---|---|
| `LiveQuoteStore` | the live quote store | `RealtimeScanner` (INSTANCE), proofs |
| `MarketBook` | consolidation, best-price book, arbitrage test: operators without state | `RealtimeScanner` (EXTENDS) |
| `RealtimeScanner` | the scan cycle of the single-source and the multi-source scanner, composed of the two above | proofs |
| `ProviderPolling` | a polling cycle: gate, health, collector, executor, metadata | proofs |
| `AuditStore` | calls of several processes on the audit database | `Persistence` (EXTENDS), proofs |
| `SchemaMigration` | `migrate` of several processes | `Persistence` (INSTANCE) |
| `Persistence` | a database that is migrated, used and migrated again | proofs |
| `ProviderHttp` | what the HTTP adapters share: requests, answers, telemetry, health | both adapters (EXTENDS) |
| `OddsPapiProvider`, `TheOddsApiProvider` | the two adapters | `ProviderAdapters` (EXTENDS) |
| `ProviderAdapters` | an adapter called by several coroutines while the provider changes the fixture | proofs |
| `StakePlanning` | `allocate_stakes`: operators without state | `OpportunityAdvice` (EXTENDS) |
| `ExchangePortfolio` | exchange portfolios: operators without state | `OpportunityAdvice` (EXTENDS) |
| `OpportunityAdvice` | re-evaluation of opportunities and alerts | proofs |
| `CanonicalRegistry` | what the catalogue admits and which markets are supported: operators | `EventMatching` (EXTENDS) |
| `EventMatching` | aliases, evidence, matcher with index and cache, hooks | proofs |
| `Replay` | `run_backtest`, with `LiveQuoteStore` (INSTANCE, no eviction) and `MarketBook` | proofs |
| `MC...` | finite inputs for TLC | |
| `LiveQuoteStoreProofs`, `RealtimeScannerProofs`, `ProviderPollingProofs`, `PersistenceProofs` (with `AuditStore`), `ProviderAdaptersProofs`, `EventMatchingProofs`, `OpportunityAdviceProofs`, `ReplayProofs` | theorems | |

### LiveQuoteStore

`current` is `_current`. `Apply` starts a call with a batch out of `Batches`;
`ApplyQuote` is one iteration of the loop over the sorted quotes (a quote of
`pending` that nothing else of `pending` sorts before; equal sort keys are taken
in any order, as the caller may list them). The admission tests are the
operators `Impossible`, `FarBackward`, `Duplicate` and `UnconfirmedBackward`, in
the order of the code; `NextVersion` is the assignment. Because `apply` has no
await, every other action waits for `pending` to be empty. `batch`, `observed`
and `before` are what the call was given and found; they are history the
properties refer to. Prices and source ids are one model value, `offer`: the
fingerprint only compares them.

### MarketBook and RealtimeScanner

A *report* is what one snapshot says of the market: its time, whether the market
is active and, for each selection, an offer, "inactive", a price that
`normalize_odds` refuses, or nothing. `Detect` is the part of `run_cycle` from
the end of the await to the call of `store.apply`, `ApplyOne` one iteration of
that call, and `Conclude` everything after it. `MultiSource` selects the
overrides of `MultiSourceRealtimeScanner`: `KeyOf` then tells transports apart,
marks are set before `apply` and lifted by accepted active versions; otherwise
they are updated after `apply` by `_update_source_invalidations`. Identity
mapping is abstracted: every report is of a mapped, supported market. Prices
are integers (decimal odds times `PriceScale`), so the comparison of the implied
sum with one is exact, as in the code; the rounding of the reported margin to
the decimal context is not modelled. `lastWord` is history: what the source last
said of a key. The clock is monotonic.

The scanner is shown to implement the store's specification (`StoreSpec`, the
identity as refinement mapping), so what is proved of `LiveQuoteStore` holds for
the store inside the scanner, for the batches that normalization can produce.

### ProviderPolling

`stage[p]` is where the poll of a provider stands, `poll[p]` the local variables
of `_poll_adapter` and of the calls below it, `gate[p]` the time left of
`_next_allowed_at`, `sleeping[p]` that of the executor's sleep. Clocks are
relative and `Tick` lets time pass; no bound on time is needed. `Begin` is
`_poll_adapter` up to its first await, `CachedMetadata` and `Attempt` are the
completions of an awaited call (an attempt is retried, ends the preflight, or
moves the collector on), `Finish` is the rest of `_poll_adapter`. The servers
are external: an attempt ends in any outcome the adapters tell apart, and an
answer of any status may carry a `Retry-After`. The
semaphore serves its waiters in order. The failure counter is counted up to
three, where its only test stops telling values apart. Exponential backoff and
jitter are one constant, `Backoff`; the collector's lists are of any length up
to `MaxCompetitions` and `MaxEvents`. `resets_at` is left out, since no adapter
fills it in.

### AuditStore and SchemaMigration

`db` is the committed database: the payload of each row of
`canonical_snapshots`, the number of its `audit_events`, `opportunity_quotes`
(`links`) and `opportunity_stake_plans` (`plans`). `call[p]` is where the call of
a process stands: `Lookup` is the SELECT of `_upsert`, `Insert` its INSERTs,
`LinkEvidence` the rest of `persist_opportunity`, `Purge` the DELETE of
`purge_quotes_before`. What matters is when SQLite has a transaction open. The
`sqlite3` module opens one before the first INSERT or DELETE of a call and not
before a SELECT or a CREATE; from then on the call is the `writer` and sees
`work`, its own copy, which `Commit` makes `db` and `Abort` (an exception, a
lock that is not free within the timeout, a crash) discards. Statements between
which no other process can come are one step: once the lock is held nobody else
writes. `Reconstructs` is `reconstruct_opportunity`; payloads are model values,
with the fields the code reads out of them as functions (`QuotesOf`,
`OpportunityOf`, `OccurredAt`), so `dumps` and `loads` are taken to be inverse.
`acknowledged` and `overlapped` are history: the calls of `persist_opportunity`
that returned, and the processes with a purge since their call began.

`SchemaMigration` has the same notion of a transaction. A CREATE outside one is
durable at once; the INSERT of the first due version opens one, in which the
statements of the later versions run. A database is new or has version 1.
`Persistence` composes the two: a call on a database without the tables fails at
its first statement and is left out, and migrations are not interleaved with
calls, since once the schema is current a migration only reads.

### Provider adapters

`call[c]` is the operation a coroutine has in flight, waiting for the answer of
one request, with what it read before waiting. `ProviderHttp` has the parts that both adapters have:
how a status or a malformed body becomes a `ProviderError`, which telemetry an
operation emits, how `health` translates errors. Two ends are not translated.
The `asyncio.timeout` of the executor, 5 seconds by default where the adapters'
requests have 10, or the end of the calling task cancels an operation while it
waits for an answer, in the middle of two requests too (`Cancelled`); and a
bookmaker that `ProviderId` or `Provider` refuses ends `fetch_odds` with their
`DomainValidationError` (`TheOddsApiOddsEscape`, `OddsPapiOddsEscape`). Payloads are abstracted to what
the parsers tell apart: a fixture is a competition, two teams and a start, a
catalogue record or a raw market is its kind, period, line and outcomes. The
provider may correct the fixture and change its catalogue between any two steps.
`seen` in a snapshot is history: the identities that discovery reported while
the fetch was under way. URL building, authentication and byte-level decoding
are left out.

### StakePlanning, ExchangePortfolio and OpportunityAdvice

In `StakePlanning` money is counted in quanta and prices in tenths, so that
payouts are rounded down exactly where the code does it. The only effect of the 50-digit context at
these magnitudes is a quotient on the grid that comes out just below it, so the
first target is a set of two. `Report` detects an opportunity, `Revalidate` is
`revalidate_opportunity` with the quotes of the moment as input, followed by
`AlertTracker`, and `EvaluatePortfolio` evaluates an exchange portfolio.
`ExchangePortfolio` is `evaluate_exchange_portfolio` with what the constructors
of the stakes refuse: any number of runners, bookmaker and exchange legs, legs of
several events or markets (refused) and inactive ones (refused). The code rounds
nothing there, so its decimals are whole numbers of a unit, `OddsUnit` and
`RateUnit`, which may be any. `Search` is the loop of
`_find_safe_discrete_plan` as a function of its target. `tracked` is the dicts
of `AlertTracker`, with the keys it has seen; `believed` is history: the item of
the last alert of a market.

### CanonicalRegistry and EventMatching

`BuildMatcher` constructs a registry and a matcher over it, `Match` is one call
of `match` including the cache, `PrepareFails` a source event whose evidence is
not complete. Names are opaque keys that are already normalized; times are
minutes. `Decide` is `_match_uncached`: filter, score, threshold, ambiguity
margin; `Fails` has the tests of `_evaluate_candidate` by the reason they give,
in the order of `RejectionReasons`, and the first that fails is the rejection. `CanonicalRegistry` has the rules of the constructors, line by line, and
a settlement (`Wins`) that only the properties use.

### Replay

One market. `ApplyBatch` is a round of the inner loop, `Detect` the rest of a
round of the outer one, `Finish` closes the interval that is open at the end.
Whether stakes can be planned is `StakePlanning`'s question: here a policy names
the books it has a plan for. The specification it is compared with is the live
store with eviction after every batch, evaluated at the same moment.

## 3. Runs

| Run | Instance | Checks | Result |
|---|---|---|---|
| `store` | 2 keys, 2 offers, source times 0..3 or none, every status, clock to 2, batches of up to 2 | `TypeOK`, `NoImpossibleVersion`, `ApplyOutcome`, `BoundedRegression`, `EvictionInvisible` | pass |
| `scanner_single` | 1 feed, 2 bookmakers, 2 selections, 2 prices, clock to 3, event at 3 | `TypeOK`, `BestBookWins`, `OpportunityIsLive`, `ExplicitlyInactiveLeaves`, `ResumesAtOnce`, `StoreSpec` | pass |
| `scanner_multi` | 2 feeds of 1 bookmaker | `SuspendedNotEligible`, `SlotSurvives`, `OneQuotePerSlot` | pass |
| `scanner_suspended` | 3 polls of one feed: a quote, its suspension, an older report of it; no skew allowed | `SuspendedNotEligible` | violated: finding 1 |
| `polling_cycle` | 2 providers, 1 slot, one caching its metadata, 2 attempts | `TypeOK`, `PolledOnlyWhenOpen`, `CoolingIsDegraded`, `BoundedConcurrency`, `CycleCompletes`, `AskedAgain` | pass |
| `polling_cached` | 1 provider that caches its metadata | `CachedAskedAgain` | violated: finding 2 |
| `persistence` | 2 processes, 1 opportunity of 2 quotes, 2 contents of one quote id, 1 plan, 2 cutoffs; a new or an older database, the two versions of the code | `TypeOK`, `WholeOpportunities`, `AuditableUnlessOverlapped`, `RecordedIsComplete`, `ReturnedIsCurrent`, `EvidenceProtected`, `AuditTrail` | pass |
| `migration_crash` | 1 process | `CanMigrate` | violated: finding 3 |
| `adapters` | 2 coroutines, 3 competitions, 5 identities of the fixture, 2 catalogues, all pairs of outcomes and points; any request may fail or be cancelled | `TelemetryAgrees`, `SnapshotOfDiscoveredEvent`, `MarketsSettleExclusively` | pass |
| `advice` | 2 selections, 2 markets, 6 policies; 2 runners, all portfolios of up to 2 legs, of a bookmaker or an exchange, inactive and of another market too | `ActionableIsSafe`, `NoSafePlanMissed`, `PortfoliosEquivalent`, `AlertsExact` | pass |
| `matching` | every shape of a market of 2 selections; 5 registries of look-alike events, caches of 0 and 2 | `SupportedMarketsPartition`, `DecisionsAreExact`, `ContextOnlyConfirms` | pass |
| `replay` | corpora of 3 batches, 4 keys, 2 bookmakers, latencies 0 to 2 | `ReplayMatchesLive`, `FalsePositivesAreStale`, `ReportAddsUp` | pass |

Bounds. The admission tests compare one quote with one version of its key, so
two quotes in a batch and two calls reach every combination of tests; times
range over one tolerance and one window on each side of now. `MaxRevision` stops
a key that has been revised twice, `MaxTime` stops the clock; neither is in the
code, and the proofs hold for every value of both. Deadlock is checked in every
run but `replay`, which ends when the corpus does: elsewhere something always
stays possible. Two
selections and two bookmakers give every tie of `_best_quote`; two feeds give
every overlap. In `ProviderPolling`, two attempts tell "retry" from "give up",
and one competition with one or two events reaches every branch of the walk;
several slots multiply the states of independent polls and are covered by the
proofs, which hold for every `MaxConcurrency`.
In `AuditStore` a row is created at most `MaxCreations` times, twice, so that
every quote can be purged and come back; two quotes of which only one has two
contents reach a collision on the first and on a later `_upsert`. The proofs
hold for every bound, process and call.
Two coroutines reach every interleaving of a discovery with a fetch and of two
fetches that load the catalogue; a third would repeat them. The policies of
`advice` are chosen for their rounding: increments that do not divide each other,
minima above the proportional stake, maxima below it, an exposure off the grid.
The exhaustive reference `SafeStakes` enumerates every stake up to the exposure,
which is why bankrolls are at most 30 quanta. Three sources that differ in one
field suffice to fill a cache of two, hit it and evict from it. In `replay` the
gap between batches is 2, so a latency of 2 puts a batch at the very moment of a
detection, and the window of 2 makes quotes expire between batches.

## 4. Fairness

Only `ProviderPolling` states liveness. Weak fairness of `Poll(p)`: asyncio runs
every ready task and `asyncio.timeout` ends every attempt, so an awaited call
comes to some outcome. Weak fairness of `StartCycle` and `EndCycle`: `cycles()`
starts the next cycle after each one, and `gather` returns when its tasks have.
Weak fairness of `Tick`: time passes. No fairness is assumed of a particular
answer: a provider may fail for ever.

## 5. Findings

1. **A rejected quote lifts a suspension** (`scanner_suspended`).
   `_update_source_invalidations` lifts the mark of every key that has a
   normalized quote, before it is known whether the store accepted that quote.
   In the trace a price with source time 1 is stored, the next poll reports the
   market inactive and its keys are marked, and a third poll brings a report
   with source time 0. It passes normalization, the store rejects it as out of
   order, the mark is gone, and the stored copy, which its source called
   inactive, is eligible again. The multi-source scanner, which lifts marks only
   for accepted versions, does not have this behaviour (`scanner_multi`).
2. **A cooldown that renews itself** (`polling_cached`). The Odds API adapter
   answers `rate_limit()` from the metadata of its last answer; the gate turns
   it into a cooldown counted from now. Once that metadata says to wait, no
   request is made, so it is never replaced.
3. **An interrupted migration cannot be repeated** (`migration_crash`). The
   tables of the first due version are durable before the row that records it,
   so after a crash in between every later call stops at "already exists".

Modelled, but without a run of its own: `_source_markets` of The Odds API adapter
(`the_odds_api.py:323`) and `_shared_bookmaker_provider` of OddsPapi's
(`oddspapi.py:452`) build a `ProviderId` and a `Provider` from the answer. What
these refuse, an id of more than 200 characters or a name with a control
character, is a `DomainValidationError`, and neither the `except` of `fetch_odds`
(`the_odds_api.py:718`, `oddspapi.py:959`) nor any other translates it. The
operation ends without a telemetry event, although "Provider-specific exceptions
and source-model validation exceptions do not escape the adapter boundary"
(`docs/providers/the-odds-api.md:135`) and "Only `ProviderError` crosses the
adapter boundary for runtime provider failures" (`docs/providers/contract.md:68`);
the executor turns it into an `INTERNAL` error that is not retried, so the odds of
the event are lost for the other bookmakers too. `TelemetryAgrees` leaves these calls out.

Behaviour that a reader may not expect, and that contradicts no document clearly
enough to be a finding:

- Two events of one poll answered 429, with a long and a short `Retry-After`:
  the one observed last replaces the other, so the next poll may come before the
  longer wait is over. And after the first 429 the collector still asks for the
  remaining events.
- `persist_opportunity` finds quotes stored already with SELECTs outside any
  transaction. If another process purges one of them before the commit, the
  opportunity cannot be reconstructed; `AuditableUnlessOverlapped` therefore
  leaves out calls that a purge overlaps. Calls made one after the other by a
  single process, the deployment ADR 0010 chooses SQLite for, never overlap.
- Steps back within the tolerance, each in a call of its own, can add up.
- OddsPapi's catalogue is cached for the life of the process: once the provider
  changes the outcomes of a supported market, every fetch that quotes it is
  malformed until a restart. The Odds API adapter compares only the competition
  of an answer with the discovered event, not its teams and start.
- A stake constraint for a quote outside the opportunity makes `allocate_stakes`
  raise, so one policy with constraints serves one opportunity, and `run_backtest`
  with such a policy stops without a report (`Replay` has no such policy).
- An event with the provider's exact reference that is rescheduled by more than
  36 hours scores below the threshold and is not matched.
- Nothing checks the selections of a match winner, so `SupportedMarketsPartition`
  leaves match winners out.

## 6. Proofs

`LiveQuoteStoreProofs` proves, for any set of keys, any batches, any window,
tolerance and bound: `TypeOK`, `NoImpossibleVersion`, `ApplyOutcome`,
`BoundedRegression`, and the action property `EvictionInvisible`. `ApplyOutcome`
is not inductive by itself. `LoopInv` adds that the loop has handled a prefix of
the sorted batch (nothing pending sorts before anything handled), and that a key
present when the call started is still present; then accepting a quote makes it
the newest of those handled, and rejecting one leaves the newest in place. The
central lemma is that a quote the current version rejects as a duplicate or
out of order cannot be newer than it. `BoundedRegression` follows from
`ApplyOutcome`: the version that stands was itself accepted against the version
held before, or is at least as new as one that was.

`ProviderPollingProofs` proves, for any set of providers, any concurrency, retry
policy, cooldown and `Retry-After` values: `TypeOK` (which includes that no call
exceeds `max_attempts`), `PolledOnlyWhenOpen`, `CoolingIsDegraded` and
`BoundedConcurrency`. The first three are proved together: `Core` joins them
with what the collector's walk relies on (it is at `fetch_odds` only while
events are left). A poll that goes on has just seen its gate open, and whatever
closes a gate also ends the poll as throttled, which is what `record` turns into
"degraded". `BoundedConcurrency` needs only the types and the semaphore's guard.

`PersistenceProofs` proves of the audit store, for any processes, calls and cutoffs: `TypeOK`,
`WholeOpportunities`, `AuditableUnlessOverlapped`, and the action properties
`EvidenceProtected` and `AuditTrail`. `WholeOpportunities` speaks of the committed database only; the
inductive invariant adds what holds inside an open transaction (`Transaction`:
it only adds to the committed database, with one event per row, and only the
opportunity about to be linked is not whole) and what a call may rely on when it
links (`Progress`: it sees the row of its opportunity, which no other process
can remove). Three lemmas say what the statements do to a database
(`RowAdded`, `LinksAdded`, `PlanAdded`); `LinksAdded` is where INSERT OR IGNORE
is shown to complete a new opportunity and to leave a stored one alone.
`AuditableUnlessOverlapped` needs a second invariant on top (`AuditInv`): what a
call has looked up or inserted stays in its view as long as nobody purges
(`Seen`), and a stored plan belongs to the opportunity that has it
(`PlansBelong`), so that INSERT OR IGNORE never drops a plan that was asked for.

It goes on to prove, for any processes, versions and databases, that the
composition implements both the audit store and the migration
(`CompositionIsSound`), so the theorems about the audit store hold of a database
that is migrated between calls, and that `RecordedIsComplete` and
`ReturnedIsCurrent` hold. `MigrationInv` adds that the open transaction extends
the committed database with complete versions only, and that what a call no
longer has to do is done in the database it sees, whoever did it (`ScriptInv`).

`RealtimeScannerProofs` proves, for any feeds, bookmakers, keys, polls and
policies: `StoreSpec`, `TypeOK`, `OneQuotePerSlot`, `SlotSurvives`,
`OpportunityIsLive`, `ResumesAtOnce`; for the multi-source scanner
`SuspendedNotEligible`, for the single-source one `ExplicitlyInactiveLeaves`, and
for markets of two or more selections `BestBookWins`. The refinement comes first: each step of the scanner
is a step of the store or leaves it alone, and since its theorems are
instantiated for the batches that normalization hands over, the store's
inductive invariant is available for the rest. `ScanInv` adds what the marks
mean in every phase (`MarkInv`: in the multi-source scanner a key last reported
inactive is marked or holds nothing, and one whose version this cycle replaced is
not marked) and that the results between cycles are those of the state that
stands (`ResultInv`). The hypothesis `MultiSource` of `SuspensionHolds` cannot be
dropped: finding 1 is the counterexample. Books and consolidation choose a best
quote by a strict order on a finite set, which has a minimal element
(`FiniteMinimal`).

`BestBookWins` is about numbers. The implied sum of a choice of quotes is a
fraction whose denominator is the product of the prices and whose numerator is
the sum of what each price leaves of it, both folds over the selections.
`FoldExists` shows that such a fold is well defined on a finite set, by building
it up one cardinality at a time; `Products` and `Sums` then argue by a minimal
subset for which the claim fails (`MinimalSubset`): every price divides the
product, and two sums compare as their terms do. So higher prices make a smaller
implied sum (`BetterPricesSumLess`) and keep an arbitrage one
(`BetterPricesStayArbitrage`), whatever the prices and the margin. It remains
that everything the store calls fresh may compete for the book
(`OfferedMayCompete`: the store and `build_market_books` test freshness in code
of their own) and that the book has the best price of each selection. The
hypothesis of two selections is the test `build_market_books` makes; with one
selection there is no book to report.

`ProviderAdaptersProofs` proves, for any number of coroutines, fixtures,
catalogues, raw markets and results: `TelemetryAgrees`,
`SnapshotOfDiscoveredEvent` and `MarketsSettleExclusively`. `TelemetryAgrees` says
which ends are silent: a refusal before the first request, the quota answered from
memory, a competition The Odds API does not support, cancellation, and the error
that is not translated. Every other end has one event that agrees with it. `AdapterInv` types
what a call in flight has read before its await; with it every property follows
in the step that delivers the result. Exclusive settlement is a case analysis by
kind of market: the outcomes that the parsers leave of a catalogue record or a
raw market are mapped to what they win, and the two sides of a line or handicap
win, lose or are refunded together.

`EventMatchingProofs` proves, for any registries, sources, alias tables and cache
sizes: `DecisionsAreExact`, `ContextOnlyConfirms` and
`SupportedMarketsPartition`. An event outside the index fails one of the first
three tests, so the index changes no candidate; `CacheInv` says that every
remembered decision is the one a search would make now, which holds because the
registry of a matcher never changes; and the partition follows from the rules of
the constructors, kind by kind.

`OpportunityAdviceProofs` proves, for any number of selections and markets, any
prices, constraints, policies, quotes and portfolios: `ActionableIsSafe`,
`NoSafePlanMissed`, `PortfoliosEquivalent` and `AlertsExact`.
`AllocationIsSafe` is the heart: whatever `allocate_stakes` returns is one of the
`SafeStakes`. The search is a recursive function over targets and the total a
fold over a set. Both are shown to be well defined by building the function up,
one target or one cardinality at a time, and what they return is reasoned about
by least counterexamples (`LeastNatural`), which needs no induction over a
predicate. Nothing is needed of the continuous target where the search starts:
an accepted plan is safe wherever it was found. `AlertsExact` follows from
`TrackerAgrees`: state and fingerprint are those of the item of the last alert.

`AllocationIsComplete` is the converse, and `NoSafePlanMissed` follows from it in
every re-evaluation. The continuous target ends at a division of what the minima
leave over some of the selections (`TargetIsDivision`, `SomeStayFree`), and stakes
within the bankroll that respect the minima never win more than such a division on
every selection (`TargetBoundsPayout`). So the search starts at most one quantum
below the payout of any safe stakes: the model allows the division to come out a
quantum low, as a rounded `Decimal` may. A target at that payout or just below has
an accepted plan (`SafePlanAccepted`: its stakes are no larger, and where they
differ the cost drops at least as much as the payout), and the descent does not
pass it without finding one: above it either the stakes are the same, or some
selection can be lowered by an increment to a breakpoint that is not below it
(`SearchCompletes`).

`EquivalentPortfolios` is about sums over legs, for any number of runners, any
units and any legs, accepted or not. A leg taken in two parts draws on the same
liquidity level and the same account, so every sum over a level or an account is
split and added again (`SumOfParts`), and the two portfolios are accepted alike.
A back and a lay of one stake at one price in one account cancel for every winner
(`OpposedAddsNothing`), before commission and therefore after it. In a market of
two runners a lay turned into the back of the other has the same gross profit for
either winner, since its liability and its winnings change places. All three leave
each account's gross, so its commission, so the net profit of each outcome. The
back of a lay at price p has price p / (p - 1), which is a decimal of the unit
only if the unit is fine enough: `WholeLay` is a condition on the unit and not on
the lay, and `ProfitIsWhole` uses it.

`ReplayProofs` proves, for any corpora, configurations, windows and latencies:
`ReplayMatchesLive`, `FalsePositivesAreStale` and `ReportAddsUp`. The replay keeps a store that
never evicts, so it refuses what a live store, having forgotten the version that
stands in its way, admits. `StoresAgree` is the invariant that makes this
harmless: for every moment still to come, the live store holds the quote the
replay holds, or nothing, and where it holds nothing the replay's version has
expired. A batch preserves it (`StepAgrees`): both stores decide alike on a
version both hold (`AcceptAlike`), a quote refused for a version that has expired
is itself expired and is evicted at once (`RefusedIsExpired`), and what has
expired stays so as batches go on (`ExpiredStays`). Expired versions are in no
book, so at each moment the two stores have the same opportunities
(`FreshAlike`, `DetectionIsLive`), however many batches the latency has let in.
`FalsePositivesAreStale` rests on nested consolidation: relaxing the window only
adds stale quotes (`RelaxationAddsStale`), and a best-price choice over more
quotes that picks none of the added ones is the choice over fewer
(`ConsolidationNested`), so a book that is profitable only without the window has
a stale leg.

`ReportAddsUp` speaks of the finished report. `ReportInv` says it of the report so
far, with the open interval taken to end at the last moment done (`AllIntervals`):
the intervals divide the detections, and each says the truth of its own. Then the
end of the stream changes nothing, and a moment does one of three things to the
last interval: it closes it, where an end that is exclusive now covers what the
inclusive end covered before (`EndsMeet`); it starts one, of one detection
(`IntervalStarts`); or it goes on, with one moment and one detection more
(`IntervalGrows`), whose best margin is kept because the comparison of implied
sums is an order (`AtLeastIsOrder`). The earlier intervals have ended and cover
nothing new. The selected quotes of a book are counted for one bookmaker each,
which the corpus names (`LegsAreRecorded`), so their sum over the bookmakers grows
by the number of selections (`CountsAddUp`). And a bookmaker with an arbitrage of
its own implies one of all together: the book of more quotes has prices that are
no lower (`OwnBooks`).

The assumptions are those named in the modules: policies and constraints are
within the ranges their constructors enforce (`RealtimeIngestionPolicy`,
`ProviderCallPolicy`, `ProviderRateGate`, `ActionabilityPolicy`,
`StakeConstraint`), payloads and registries have the shape that the parsers and
constructors leave, prices are positive and margins not negative (`core.py`
refuses others), sets of keys, selections and aliases are finite, a key tells
apart what the scanner's key tells apart, a missing value is not a number or
version, and the batches of a corpus are sets of quotes.
`NoneAssumption` says that None is no open interval, `NoPlanAssumption` that the absence of a plan is not itself a plan,
`RunnersAssumption` that an exchange market has finitely many runners and at least
two, `UnitsAssumption` that the units are positive, and `PortfoliosAssumption` that
a portfolio is a sequence of legs as the constructors leave them.

Only model-checked:

- everything under fairness (`CycleCompletes`, `AskedAgain`), which is out of
  this prover's reach.

`ReplayInv` and `ReportInv`, the inductive invariants of the replay, were checked
by TLC on a part of the corpora of the `replay` run before they were proved; on all
of them they take too long to be part of it.

## 7. Plan

1. Done: live quote store, scan cycle, provider polling, audit store with schema
   migration, HTTP adapters, stakes and exchange portfolios with re-evaluation
   and alerts, registry and event matching, backtest; and a proof of
   every safety property.
2. Refundable settlement (`arbitrage/refundable.py`) against an enumeration of
   results, as `ExchangePortfolio` is checked; the timetable of `cycles()`.

## 8. Mutants

Each property of a passing run is broken by a plausible fault in one definition;
the faulty definitions stand before the definitions they stand in for, under the
comment "Fault".

## 9. Not modelled

Decoding of provider payloads, odds formats and names (string processing), and
a `Retry-After` too large for a `timedelta`;
serialization and corpus digests (data conversion); the HTTP API and web page
(stateless); metrics, logs and the summary totals of a backtest (no effect on
what is detected); labels of matching quality (a pure count); source enablement
(a selection at start-up); the vertical slice and the synthetic providers
(demonstration and test doubles); refundable books and the timetable of
`cycles()`, which are in the plan.
