------------------------------- MODULE Replay -------------------------------
(***************************************************************************)
(* The backtest: run_backtest (backtesting/replay.py) feeds a recorded     *)
(* corpus of quotes (backtesting/models.py) to a multi-source store that   *)
(* forgets nothing, and looks for arbitrage a fixed latency after every    *)
(* batch.                                                                  *)
(*                                                                         *)
(* One market. A corpus is a sequence of batches [observed, quotes]; a key *)
(* is a transport, a bookmaker and a selection. Whether stakes can be      *)
(* planned is StakePlanning's question: a policy names the books it finds  *)
(* an acceptable plan for, by their offers.                                *)
(***************************************************************************)
EXTENDS MarketBook, Sequences, FiniteSets

CONSTANTS
  Keys, Offers, SkewTolerance, NoVersion,
  ProviderOf,   \* the bookmaker of each key
  Unlimited,    \* timedelta.max
  Corpora,      \* sequences of batches a caller may hand over
  Configs,      \* [latency, providers, policy]
  None          \* no policy, no open interval

ASSUME KeysAssumption == Keys \subseteq Nat /\ IsFiniteSet(Keys)
ASSUME WindowAssumption == /\ FreshnessWindow \in Nat \ {0} /\ SkewTolerance \in Nat
                           /\ Unlimited \in Nat /\ Unlimited >= FreshnessWindow
ASSUME MarketAssumption == /\ IsFiniteSet(Selections) /\ Price \in [Offers -> Nat \ {0}]
                           /\ PriceScale \in Nat \ {0} /\ MinMargin \in Nat
ASSUME ConfigsAssumption == \A c \in Configs : c.latency \in Nat
ASSUME NoTimestampAssumption == NoTimestamp \notin Int

VARIABLES
  corpus, config,  \* the arguments
  next,            \* next_batch
  instant,         \* position in detection_times
  versions,        \* the store: the version of each key, or NoVersion
  detections, falsePositives, open, intervals,
  evaluations,     \* evaluation_count
  metrics          \* per bookmaker: the counts of ProviderReplayMetrics

vars == <<corpus, config, next, instant, versions, detections, falsePositives, open,
          intervals, evaluations, metrics>>

-----------------------------------------------------------------------------
(* backtesting/models.py                                                   *)

\* HistoricalQuoteBatch
ValidBatch(b) ==
  /\ b.quotes # {}
  /\ \A q, r \in b.quotes : q.key = r.key => q = r
  /\ \A q \in b.quotes : q.ingested <= b.observed

\* HistoricalQuoteCorpus. A quote id stands for the content of the quote, so it
\* is never used for another one.
ValidCorpus(c) ==
  /\ c # <<>>
  /\ \A i \in DOMAIN c : ValidBatch(c[i])
  /\ \A i \in 1..(Len(c) - 1) : c[i].observed < c[i + 1].observed

CorpusProviders(c) == UNION {{ProviderOf[q.key] : q \in c[i].quotes} : i \in DOMAIN c}

-----------------------------------------------------------------------------
(* The store, without eviction                                             *)

Store == INSTANCE LiveQuoteStore WITH
  FreshnessWindow <- Unlimited, Batches <- {}, MaxTime <- 0, MaxRevision <- 0, now <- 0,
  current <- versions, batch <- {}, pending <- {}, observed <- 0, before <- versions

ASSUME NoVersionAssumption == NoVersion \notin Store!Version
ASSUME CorporaAssumption == Corpora \subseteq Seq([observed : Int, quotes : SUBSET Store!Quote])

\* apply. A batch has one quote of a key at most, so the order does not matter.
Applied(held, b) ==
  [k \in Keys |->
     LET accepted == {q \in b.quotes : q.key = k /\ Store!Accepts(held[k], q, b.observed)}
     IN  IF accepted = {} THEN held[k]
         ELSE Store!NextVersion(held[k], CHOOSE q \in accepted : TRUE, b.observed)]

-----------------------------------------------------------------------------
(* backtesting/replay.py                                                   *)

DetectionTime(i) == corpus[i].observed + config.latency
Moment == DetectionTime(instant)

AllowedProviders == CorpusProviders(corpus) \cap config.providers

\* fresh_observations
CurrentQuotes == {versions[k].quote : k \in Store!FreshKeys(Moment)}

Age(q, moment) == moment - EffectiveAt(q)

\* _consolidated_eligible_quotes
ConsolidatedEligible(quotes, window) ==
  ConsolidateQuotes({q \in quotes : Age(q, Moment) <= window})

\* _counterfactual_freshness_window: one microsecond more than the oldest age
CounterfactualWindow ==
  LET ages == {Age(q, Moment) : q \in {x \in CurrentQuotes : EffectiveAt(x) <= Moment
                                                            /\ x.ingested <= Moment}}
  IN  IF ages = {} THEN FreshnessWindow ELSE Max({FreshnessWindow, Max(ages) + 1})

Of(quotes, providers) == {q \in quotes : ProviderOf[q.key] \in providers}

\* build_market_books for the market: the book, if there is one
Books(quotes, providers, moment) ==
  LET able == BookEligible(Of(quotes, providers), moment)
  IN  IF BookExists(able, moment) THEN {Book(able)} ELSE {}

Relaxed == INSTANCE MarketBook WITH FreshnessWindow <- CounterfactualWindow

RelaxedBooks(quotes, providers, moment) ==
  LET able == Relaxed!BookEligible(Of(quotes, providers), moment)
  IN  IF BookExists(able, moment) THEN {Book(able)} ELSE {}

StrictQuotes == ConsolidatedEligible(CurrentQuotes, FreshnessWindow)
StrictBooks == Books(StrictQuotes, config.providers, Moment)
Arbitrages(books) == {b \in books : IsArbitrage(b)}

MaxAge(b) == Max({Age(b[s], Moment) : s \in Selections})

\* revalidate_opportunity at the moment of detection, with the quotes of the
\* book: only their age and the stakes can still stand in the way. A policy with a
\* stake constraint on a quote outside a detected book makes allocate_stakes raise
\* and run_backtest with it: there is no report then, and no such policy here.
Actionable(b) ==
  /\ config.policy # None
  /\ MaxAge(b) <= config.policy.maxAge
  /\ [s \in Selections |-> b[s].offer] \in config.policy.plannable

Detection(b) == [at |-> Moment, legs |-> b, actionable |-> Actionable(b), maxAge |-> MaxAge(b)]

\* Fault: a market with an arbitrage of its own is not skipped.
FalsePositiveBooksAll ==
  IF CounterfactualWindow <= FreshnessWindow THEN {}
  ELSE Arbitrages(RelaxedBooks(ConsolidatedEligible(CurrentQuotes, CounterfactualWindow),
                               config.providers, Moment))

\* The books that are an arbitrage only when the freshness gate is relaxed.
FalsePositiveBooks ==
  IF CounterfactualWindow <= FreshnessWindow \/ Arbitrages(StrictBooks) # {} THEN {}
  ELSE Arbitrages(RelaxedBooks(ConsolidatedEligible(CurrentQuotes, CounterfactualWindow),
                               config.providers, Moment))

\* The books a bookmaker completes alone, of the quotes left by the consolidation.
ProviderBooks(p) == IF p \in AllowedProviders THEN Books(StrictQuotes, {p}, Moment) ELSE {}

Metrics ==
  [p \in DOMAIN metrics |->
     LET own == ProviderBooks(p)
         chosen == UNION {{s \in Selections : ProviderOf[b[s].key] = p} : b \in StrictBooks}
     IN  [selected |-> metrics[p].selected + Cardinality(chosen),
          books |-> metrics[p].books + Cardinality(own),
          theoretical |-> metrics[p].theoretical + Cardinality(Arbitrages(own)),
          actionable |-> metrics[p].actionable
                           + Cardinality({b \in Arbitrages(own) : Actionable(b)})]]

-----------------------------------------------------------------------------
(* Intervals                                                               *)

\* the margin of b is at least that of c
AtLeast(b, c) ==
  ImpliedNumerator(b) * ImpliedDenominator(c) <= ImpliedNumerator(c) * ImpliedDenominator(b)

\* _OpenOpportunityInterval, OpportunityInterval and ProviderReplayMetrics
OpenIntervalType ==
  [started : Int, count : Nat, best : [Selections -> Store!Quote], ever : BOOLEAN]
IntervalType ==
  [started : Int, ended : Int, count : Nat, best : [Selections -> Store!Quote], ever : BOOLEAN,
   byEnd : BOOLEAN]
MetricsType == [selected : Nat, books : Nat, theoretical : Nat, actionable : Nat]

ASSUME NoneAssumption == None \notin OpenIntervalType

\* _close_interval
Closed(interval, endedAt, byEnd) ==
  [started |-> interval.started, ended |-> endedAt, count |-> interval.count,
   best |-> interval.best, ever |-> interval.ever, byEnd |-> byEnd]

\* Fault: an interval that ends before the stream is not kept.
ClosedIntervalsOnlyAtEnd == intervals

\* the intervals closed at the moment
ClosedIntervals ==
  IF open # None /\ Arbitrages(StrictBooks) = {}
  THEN Append(intervals, Closed(open, Moment, FALSE)) ELSE intervals

OpenInterval ==
  IF Arbitrages(StrictBooks) = {} THEN None
  ELSE LET b == CHOOSE x \in StrictBooks : TRUE
       IN  IF open = None
           THEN [started |-> Moment, count |-> 1, best |-> b, ever |-> Actionable(b)]
           ELSE [started |-> open.started, count |-> open.count + 1,
                 best |-> IF AtLeast(open.best, b) THEN open.best ELSE b,
                 ever |-> open.ever \/ Actionable(b)]

-----------------------------------------------------------------------------

Init ==
  /\ corpus \in {c \in Corpora : ValidCorpus(c)}
  /\ config \in Configs
  /\ next = 1
  /\ instant = 1
  /\ versions = [k \in Keys |-> NoVersion]
  /\ detections = <<>> /\ falsePositives = <<>> /\ intervals = <<>>
  /\ open = None
  /\ evaluations = 0
  /\ metrics = [p \in CorpusProviders(corpus) |->
                  [selected |-> 0, books |-> 0, theoretical |-> 0, actionable |-> 0]]

Replaying == instant <= Len(corpus)

\* Fault: a batch of the very moment of a detection is left for the next one.
DueBefore == next <= Len(corpus) /\ corpus[next].observed < Moment
Due == next <= Len(corpus) /\ corpus[next].observed <= Moment

\* One round of the inner loop.
ApplyBatch ==
  /\ Replaying
  /\ Due
  /\ versions' = Applied(versions, corpus[next])
  /\ next' = next + 1
  /\ UNCHANGED <<corpus, config, instant, detections, falsePositives, open, intervals,
                 evaluations, metrics>>

ToSeq(books, F(_)) == IF books = {} THEN <<>> ELSE <<F(CHOOSE b \in books : TRUE)>>

\* The rest of a round of the outer loop.
Detect ==
  /\ Replaying
  /\ ~Due
  /\ evaluations' = evaluations + Cardinality(StrictBooks)
  /\ detections' = detections \o ToSeq(Arbitrages(StrictBooks), Detection)
  /\ falsePositives' =
       falsePositives \o ToSeq(FalsePositiveBooks, LAMBDA b : [at |-> Moment, maxAge |-> MaxAge(b)])
  /\ metrics' = Metrics
  /\ intervals' = ClosedIntervals
  /\ open' = OpenInterval
  /\ instant' = instant + 1
  /\ UNCHANGED <<corpus, config, next, versions>>

\* The interval still open ends with the stream.
Finish ==
  /\ ~Replaying
  /\ open # None
  /\ intervals' = Append(intervals, Closed(open, DetectionTime(Len(corpus)), TRUE))
  /\ open' = None
  /\ UNCHANGED <<corpus, config, next, instant, versions, detections, falsePositives,
                 evaluations, metrics>>

Next == ApplyBatch \/ Detect \/ Finish

Spec == Init /\ [][Next]_vars

Finished == ~Replaying /\ open = None

-----------------------------------------------------------------------------
(* Properties                                                              *)

\* A live store with the configured window: every batch observed by the moment
\* is applied and followed by an eviction, as in a scan cycle.
LiveWindow == INSTANCE LiveQuoteStore WITH
  Batches <- {}, MaxTime <- 0, MaxRevision <- 0, now <- 0,
  current <- versions, batch <- {}, pending <- {}, observed <- 0, before <- versions

Evicted(held, moment) ==
  [k \in Keys |-> IF held[k] # NoVersion /\ LiveWindow!Evictable(held[k], moment)
                  THEN NoVersion ELSE held[k]]

\* What the live store holds after each of the batches that a moment has seen.
LiveStep(held, b, moment) ==
  IF b.observed > moment THEN held ELSE Evicted(Applied(held, b), b.observed)

LiveHistory(batches, moment) ==
  LET after[i \in 0..Len(batches)] ==
        IF i = 0 THEN [k \in Keys |-> NoVersion]
        ELSE LiveStep(after[i - 1], batches[i], moment)
  IN  after

LiveQuotes(moment) ==
  LET held == LiveHistory(corpus, moment)[Len(corpus)]
  IN  {held[k].quote : k \in {x \in Keys :
         /\ held[x] # NoVersion
         /\ held[x].quote.status = "active"
         /\ held[x].quote.ingested <= moment
         /\ Age(held[x].quote, moment) \in 0..FreshnessWindow}}

LiveOpportunities(moment) ==
  Opportunities(Of(ConsolidateQuotes(LiveQuotes(moment)), config.providers), moment)

Detected(moment) ==
  {detections[j].legs : j \in {x \in DOMAIN detections : detections[x].at = moment}}

ActiveCorpus == \A i \in DOMAIN corpus : \A q \in corpus[i].quotes : q.status = "active"

\* "through production detection primitives": what the replay detects at a
\* moment is what the scanner would report then from a live store that was fed
\* the same batches and evicted after each, though the replay's store never
\* evicts, applies batches ahead of a delayed detection, and tests freshness
\* outside the store. Corpora with suspended quotes, which the scanner's store
\* never holds, are left out.
ReplayMatchesLive ==
  ActiveCorpus => \A i \in 1..(instant - 1) :
                    Detected(DetectionTime(i)) = LiveOpportunities(DetectionTime(i))

\* "Arbitrage visible only when the configured freshness gate is relaxed": at the
\* moment of a false positive nothing was detected, and one of its legs is older
\* than the window. So what the relaxed consolidation makes of the stale and the
\* fresh copies of a slot never shows an arbitrage of fresh quotes alone.
FalsePositivesAreStale ==
  \A i \in DOMAIN falsePositives :
    /\ falsePositives[i].maxAge > FreshnessWindow
    /\ \A j \in DOMAIN detections : detections[j].at # falsePositives[i].at

\* The inductive invariant behind both. What the live store has forgotten of the
\* replay's store is out of the window: it was evicted for its age, or was
\* admitted and evicted at once because the replay's store held something newer.
IsHeld(held) ==
  \A k \in Keys : held[k] # NoVersion => held[k] \in Store!Version /\ held[k].quote.key = k

Agrees(held, live, moment) ==
  \A k \in Keys :
    /\ held[k] # NoVersion => held[k].quote.status = "active"
    /\ held[k] = NoVersion => live[k] = NoVersion
    /\ live[k] # NoVersion => live[k].quote = held[k].quote
    /\ held[k] # NoVersion /\ live[k] = NoVersion => LiveWindow!Expired(held[k], moment)

StoresAgree ==
  ActiveCorpus =>
    \A n \in instant..Len(corpus) :
      LET live == LiveHistory(corpus, DetectionTime(n))[next - 1]
      IN  IsHeld(live) /\ \A i \in {next - 1} \ {0} : Agrees(versions, live, corpus[i].observed)

DetectionsSoFar ==
  /\ detections \in Seq([at : Int, legs : [Selections -> Store!Quote], actionable : BOOLEAN, maxAge : Int])
  /\ falsePositives \in Seq([at : Int, maxAge : Int])
  /\ \A j \in DOMAIN detections : \E i \in 1..(instant - 1) : detections[j].at = DetectionTime(i)
  /\ \A j \in DOMAIN falsePositives : \E i \in 1..(instant - 1) : falsePositives[j].at = DetectionTime(i)

ReplayInv ==
  /\ corpus \in Corpora /\ ValidCorpus(corpus) /\ config \in Configs
  /\ next \in 1..(Len(corpus) + 1) /\ instant \in 1..(Len(corpus) + 1)
  /\ Replaying => \A i \in 1..(next - 1) : corpus[i].observed <= Moment
  /\ next = 1 => versions = [k \in Keys |-> NoVersion]
  /\ IsHeld(versions)
  /\ StoresAgree
  /\ DetectionsSoFar
  /\ FalsePositivesAreStale
  /\ ReplayMatchesLive

\* What an interval stands for: its moments, and the detections of these.
Covers(interval, moment) ==
  /\ moment >= interval.started
  /\ moment < interval.ended \/ (interval.byEnd /\ moment = interval.ended)

Within(interval) == {j \in DOMAIN detections : Covers(interval, detections[j].at)}
Moments(interval) == {n \in DOMAIN corpus : Covers(interval, DetectionTime(n))}

\* It is what OpportunityInterval accepts, of consecutive moments with a detection,
\* actionable if one of them was, and shows the best of them.
Describes(interval) ==
  /\ interval.count >= 1 /\ interval.started <= interval.ended
  /\ interval.count = Cardinality(Within(interval))
  /\ interval.count = Cardinality(Moments(interval))
  /\ interval.ever <=> \E j \in Within(interval) : detections[j].actionable
  /\ \A j \in Within(interval) : AtLeast(interval.best, detections[j].legs)

SumOver(S, F(_)) == MapThenSumSet(F, S)
Selected(m) == SumOver(DOMAIN m, LAMBDA p : m[p].selected)

\* Every evaluation chose one quote per selection, and no bookmaker alone finds an
\* arbitrage that all together missed.
MetricsAddUp ==
  /\ Selected(metrics) = evaluations * Cardinality(Selections)
  /\ \A p \in DOMAIN metrics : /\ metrics[p].theoretical <= Len(detections)
                               /\ metrics[p].actionable <= metrics[p].theoretical
                               /\ metrics[p].books <= evaluations

\* The parts of the report agree with each other: the intervals divide the
\* detections, each of consecutive moments; an interval ends at the first moment
\* without the arbitrage or with the stream, is actionable if one of its
\* detections was, and shows the best of them; every evaluation chose one quote
\* per selection; and no bookmaker alone finds an arbitrage that all together
\* missed.
ReportAddsUp ==
  Finished =>
    /\ \A j \in DOMAIN detections :
         Cardinality({i \in DOMAIN intervals : j \in Within(intervals[i])}) = 1
    /\ \A i \in DOMAIN intervals : Describes(intervals[i])
    /\ MetricsAddUp

\* The inductive invariant behind it: what the finished report says of its
\* intervals holds all along, if the open interval is taken to end with the last
\* moment that is done.
AllIntervals ==
  IF open = None THEN intervals
  ELSE Append(intervals, Closed(open, DetectionTime(instant - 1), TRUE))

QuotesRecorded ==
  \A k \in Keys : versions[k] # NoVersion =>
    \E i \in DOMAIN corpus : versions[k].quote \in corpus[i].quotes

IntervalsSoFar ==
  /\ open # None => open \in OpenIntervalType
                    /\ \E z \in 1..(instant - 1) : open.started = DetectionTime(z)
  /\ intervals \in Seq(IntervalType)
  /\ Replaying \/ open # None => \A i \in DOMAIN intervals : ~intervals[i].byEnd
  /\ \A i \in DOMAIN intervals : \E z \in 1..(instant - 1) : intervals[i].ended = DetectionTime(z)
  /\ open # None => \A i \in DOMAIN intervals : intervals[i].ended <= open.started

IntervalsDivide ==
  /\ \A i, k \in DOMAIN AllIntervals :
       i # k => Within(AllIntervals[i]) \cap Within(AllIntervals[k]) = {}
  /\ \A j \in DOMAIN detections : \E i \in DOMAIN AllIntervals : j \in Within(AllIntervals[i])
  /\ \A i \in DOMAIN AllIntervals : Describes(AllIntervals[i])

ReportInv ==
  /\ QuotesRecorded
  /\ IntervalsSoFar
  /\ IntervalsDivide
  /\ evaluations \in Nat
  /\ metrics \in [CorpusProviders(corpus) -> MetricsType]
  /\ MetricsAddUp
=============================================================================
