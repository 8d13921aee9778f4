-------------------------- MODULE RealtimeScanner ---------------------------
(***************************************************************************)
(* One scan cycle after another, as RealtimeScanner.run_cycle and its      *)
(* subclass MultiSourceRealtimeScanner drive the live quote state: a poll  *)
(* returns market reports; they are normalized, applied to the store,      *)
(* turned into source invalidations, evicted, filtered, consolidated,      *)
(* aligned into a book and evaluated.                                      *)
(*                                                                         *)
(* MultiSource selects the overrides of the subclass: versions and         *)
(* invalidations are kept per transport (KeyOf tells transports apart),    *)
(* otherwise per bookmaker. After the poll returns run_cycle has no await, *)
(* so the clock stands still from Detect to Conclude.                      *)
(***************************************************************************)
EXTENDS MarketBook

CONSTANTS
  Keys, Offers, SkewTolerance, MaxTime, MaxRevision, NoVersion,
  Transports,   \* provider adapters (feeds)
  Providers,    \* bookmakers the feeds quote
  KeyOf,        \* the store key of a transport, bookmaker and selection
  Polls,        \* the sets of market reports a poll may return
  MultiSource   \* the store is a MultiSourceLiveQuoteStore

\* What one snapshot says of the market: the time of the market, whether it is
\* active, and per selection an offer, an inactive status, a price that
\* normalize_odds refuses, or nothing.
Unpriced == {"inactive", "malformed", "missing"}
Report == [transport : Transports, provider : Providers,
           source : Int \cup {NoTimestamp}, ingested : Int, active : BOOLEAN,
           offers : [Selections -> Offers \cup Unpriced]]

ASSUME PollsAssumption == Polls \subseteq SUBSET Report
ASSUME KeyOfAssumption == KeyOf \in [Transports \X Providers \X Selections -> Keys]
ASSUME SourcesAssumption ==
  \A t, u \in Transports, p \in Providers, s \in Selections :
    KeyOf[<<t, p, s>>] = KeyOf[<<u, p, s>>] <=> (t = u \/ ~MultiSource)

VARIABLES
  now, current, batch, pending, observed, before,  \* the store
  phase,        \* "waiting" for a poll, or "applying" its batch
  explicit,     \* keys this cycle's reports call inactive
  invalidated,  \* _source_invalidated_quote_keys, _invalidated_observations
  eligible,     \* fresh_quotes of the last cycle
  opportunities,\* opportunities of the last cycle
  lastWord      \* history: what the source last said of the key: "inactive",
                \* then "repeated" once it quotes again what the store holds,
                \* and "quoted" once the store accepts a version. Of a key
                \* that one poll reports both ways the accepted version is
                \* the last word of a multi-source scanner, "inactive" that
                \* of a single-source one.

storeVars == <<now, current, batch, pending, observed, before>>
vars == <<storeVars, phase, explicit, invalidated, eligible, opportunities, lastWord>>

-----------------------------------------------------------------------------
(* normalization/strict.py: normalize_source_snapshot                      *)

Report2Quote(report, s) ==
  [key |-> KeyOf[<<report.transport, report.provider, s>>], offer |-> report.offers[s],
   status |-> "active", source |-> report.source, ingested |-> report.ingested]

Priced(report) == {s \in Selections : report.offers[s] \notin Unpriced}

NormalizedQuotes(report, asOf) ==
  IF /\ report.ingested <= asOf
     /\ EffectiveAt(report) <= asOf
     /\ asOf - EffectiveAt(report) <= FreshnessWindow
     /\ report.active
  THEN {Report2Quote(report, s) : s \in Priced(report)}
  ELSE {}

\* normalization_as_of = detected_at + clock_skew_tolerance
NormalizedBatch(reports, detectedAt) ==
  UNION {NormalizedQuotes(r, detectedAt + SkewTolerance) : r \in reports}

\* _explicit_inactive_quote_keys: every selection of an inactive market, or the
\* inactive ones of an active market, whatever the age of the report.
InactiveSelections(report) ==
  IF report.active THEN {s \in Selections : report.offers[s] = "inactive"} ELSE Selections

\* Fault: an inactive report counts for every transport of the bookmaker.
InactiveEverywhere(reports) ==
  UNION {{KeyOf[<<t, r.provider, s>>] : t \in Transports, s \in InactiveSelections(r)} : r \in reports}

ExplicitInactiveKeys(reports) ==
  UNION {{KeyOf[<<r.transport, r.provider, s>>] : s \in InactiveSelections(r)} : r \in reports}

\* The same, read off the reports for the history: some transport reported
\* this very key inactive.
ReportedInactive(reports, k) ==
  \E r \in reports, s \in Selections :
    /\ KeyOf[<<r.transport, r.provider, s>>] = k
    /\ ~r.active \/ r.offers[s] = "inactive"

-----------------------------------------------------------------------------
\* Every batch the normalization can hand to the store.
Handovers == {NormalizedBatch(reports, t) : reports \in Polls, t \in 0..MaxTime}

Store == INSTANCE LiveQuoteStore WITH Batches <- Handovers

\* The store holds finitely many keys; the policies are those of the store.
ASSUME StoreKeysAssumption == Keys \subseteq Nat /\ IsFiniteSet(Keys)
ASSUME StorePolicyAssumption == /\ FreshnessWindow \in Nat \ {0}
                                /\ SkewTolerance \in Nat
ASSUME StoreBoundAssumption == MaxTime \in Nat /\ MaxRevision \in Nat
ASSUME NoTimestampIsNoTime == NoTimestamp \notin Int
ASSUME NoVersionIsNone == NoVersion \notin Store!Version
\* Prices are positive, a market has finitely many selections, and the profit
\* that is asked for is not negative.
ASSUME PriceAssumption == Price \in [Offers -> Nat \ {0}]
ASSUME MarketAssumption ==
  IsFiniteSet(Selections) /\ PriceScale \in Nat \ {0} /\ MinMargin \in Nat
\* The key of a single-source scanner is the bookmaker and the selection.
ASSUME SlotsAssumption ==
  ~MultiSource => \A k, l \in Keys : SlotOf[k] = SlotOf[l] => k = l

Init ==
  /\ Store!Init
  /\ phase = "waiting"
  /\ explicit = {}
  /\ invalidated = {}
  /\ eligible = {}
  /\ opportunities = {}
  /\ lastWord = [k \in Keys |-> "quoted"]

\* Time passes between cycles and while a poll is awaited.
Tick ==
  /\ phase = "waiting"
  /\ Store!Tick
  /\ UNCHANGED <<phase, explicit, invalidated, eligible, opportunities, lastWord>>

\* The poll returned: normalize the reports and call store.apply. The
\* multi-source scanner invalidates the reporting transports at this point.
Detect(reports) ==
  /\ phase = "waiting"
  /\ Store!Apply(NormalizedBatch(reports, now))
  /\ explicit' = ExplicitInactiveKeys(reports)
  /\ invalidated' = IF MultiSource THEN invalidated \cup explicit' ELSE invalidated
  /\ lastWord' = [k \in Keys |-> IF ReportedInactive(reports, k) THEN "inactive" ELSE lastWord[k]]
  /\ phase' = "applying"
  /\ UNCHANGED <<eligible, opportunities>>

\* Fault: any observation lifts the mark, accepted or not.
LiftedByAny(quote) == IF MultiSource THEN {quote.key} ELSE {}

\* The multi-source store lifts the invalidation of an accepted active
\* observation.
LiftedBy(quote) ==
  IF /\ MultiSource
     /\ Store!Accepts(current[quote.key], quote, observed)
     /\ quote.status = "active"
  THEN {quote.key} ELSE {}

\* One iteration of store.apply.
ApplyOne ==
  /\ phase = "applying"
  /\ \E quote \in pending :
       LET version == current[quote.key]
           accepted == Store!Accepts(version, quote, observed)
           repeated == /\ version # NoVersion
                       /\ ~Store!Impossible(quote, observed)
                       /\ Store!Duplicate(version, quote)
       IN
       /\ Store!ApplyQuote(quote)
       /\ invalidated' = invalidated \ LiftedBy(quote)
       /\ lastWord' = [lastWord EXCEPT ![quote.key] =
            CASE accepted /\ (MultiSource \/ quote.key \notin explicit) -> "quoted"
              [] repeated /\ quote.key \notin explicit /\ @ = "inactive" -> "repeated"
              [] OTHER -> @]
  /\ UNCHANGED <<phase, explicit, eligible, opportunities>>

\* Faults: marks of earlier cycles are forgotten; they are never lifted.
OnlyThisCycleInvalidated == IF MultiSource THEN invalidated ELSE explicit
NeverLiftedInvalidations == IF MultiSource THEN invalidated ELSE invalidated \cup explicit

\* _update_source_invalidations: any normalized quote lifts the mark of its
\* key, then the explicit ones are marked. The multi-source override does
\* nothing here.
UpdatedInvalidations ==
  IF MultiSource THEN invalidated
  ELSE (invalidated \ {q.key : q \in batch}) \cup explicit

\* Fault: invalidated keys are not left out.
LiveKeysUnfiltered == Store!FreshKeys(now)

\* store.fresh_quotes, without the invalidated keys; consolidated per slot by
\* the multi-source store.
LiveKeys == Store!FreshKeys(now) \ invalidated

\* Fault: transport overlap is not consolidated.
EligibleOverlapping == {current[k].quote : k \in LiveKeys}

EligibleQuotes ==
  LET fresh == {current[k].quote : k \in LiveKeys}
  IN  IF MultiSource THEN ConsolidateQuotes(fresh) ELSE fresh

\* Faults: the book is built from every fresh version, invalidated ones too;
\* an invalidated version is deleted from the store.
ConcludeUnfiltered ==
  /\ phase = "applying"
  /\ pending = {}
  /\ Store!EvictStale
  /\ invalidated' = UpdatedInvalidations \ Store!EvictedKeys(now)
  /\ eligible' = EligibleQuotes'
  /\ opportunities' = Opportunities({current[k].quote : k \in Store!FreshKeys(now)}, now)
  /\ phase' = "waiting"
  /\ explicit' = {}
  /\ UNCHANGED lastWord
ConcludeDeleting ==
  /\ phase = "applying"
  /\ pending = {}
  /\ current' = [k \in Keys |-> IF k \in UpdatedInvalidations \cup Store!EvictedKeys(now)
                                THEN NoVersion ELSE current[k]]
  /\ UNCHANGED <<now, pending, observed, lastWord>>
  /\ batch' = {} /\ before' = current'
  /\ invalidated' = {}
  /\ eligible' = EligibleQuotes'
  /\ opportunities' = Opportunities(eligible', now)
  /\ phase' = "waiting"
  /\ explicit' = {}

\* The rest of run_cycle, after apply.
Conclude ==
  /\ phase = "applying"
  /\ pending = {}
  /\ Store!EvictStale
  /\ invalidated' = UpdatedInvalidations \ Store!EvictedKeys(now)
  /\ eligible' = EligibleQuotes'
  /\ opportunities' = Opportunities(eligible', now)
  /\ phase' = "waiting"
  /\ explicit' = {}
  /\ UNCHANGED lastWord

Next ==
  \/ Tick
  \/ \E reports \in Polls : Detect(reports)
  \/ ApplyOne
  \/ Conclude

Spec == Init /\ [][Next]_vars

-----------------------------------------------------------------------------
TypeOK ==
  /\ Store!TypeOK
  /\ phase \in {"waiting", "applying"}
  /\ explicit \subseteq Keys
  /\ invalidated \subseteq Keys
  /\ eligible \subseteq Store!Quote
  /\ opportunities \subseteq [Selections -> eligible]
  /\ lastWord \in [Keys -> {"inactive", "repeated", "quoted"}]

Settled == phase = "waiting"

EligibleKeys == {q.key : q \in eligible}

\* "A quote that is ... explicitly suspended ... by the source cannot remain
\* eligible merely because an older copy exists in live state": after a cycle,
\* no eligible quote is of a key whose source has neither quoted it anew nor
\* repeated the held quote since it last reported it inactive.
SuspendedNotEligible == Settled => \A k \in EligibleKeys : lastWord[k] # "inactive"

\* A key that its source reports inactive is out of the very cycle that reports
\* it, and stays out of every later one until a report of the key survives
\* normalization (_update_source_invalidations).
ExplicitlyInactiveLeaves ==
  [][Conclude => \A k \in explicit \cup (invalidated \ {q.key : q \in batch}) : k \notin EligibleKeys']_vars

\* The other direction: a key whose new version was accepted in this cycle, and
\* that no report of the cycle calls inactive, is live again at once, whatever
\* marks earlier suspensions left behind.
ResumesAtOnce ==
  [][Conclude => \A k \in Store!FreshKeys(now)' :
       current[k] # before[k] /\ k \notin explicit => k \in LiveKeys']_vars

\* "Source invalidation is isolated to the transport that supplied the inactive
\* state", and a stale or older observation cannot override a fresher eligible
\* one: every fresh observation that its own transport has not reported
\* inactive keeps its slot executable at its own time or later, unless the
\* newest live observations of the slot disagree on the price.
SlotSurvives ==
  Settled =>
    \A k \in Keys :
      /\ current[k] # NoVersion
      /\ Store!FreshKeys(observed) \cap {k} # {}
      /\ lastWord[k] = "quoted"
      => \/ \E q \in eligible : /\ SlotOf[q.key] = SlotOf[k]
                                 /\ EffectiveAt(q) >= EffectiveAt(current[k].quote)
         \/ /\ MultiSource
            /\ \E i, j \in Store!FreshKeys(observed) \ invalidated :
                 /\ SlotOf[i] = SlotOf[k] /\ SlotOf[j] = SlotOf[k]
                 /\ EffectiveAt(current[i].quote) = EffectiveAt(current[j].quote)
                 /\ EffectiveAt(current[i].quote) >= EffectiveAt(current[k].quote)
                 /\ Price[current[i].quote.offer] # Price[current[j].quote.offer]

\* One executable quote per bookmaker and selection: two feeds of one
\* bookmaker are never two prices.
OneQuotePerSlot == \A q, r \in eligible : SlotOf[q.key] = SlotOf[r.key] => q = r

\* The reported opportunities are exactly what a search over every combination
\* of eligible quotes finds: one is reported iff some combination covers all
\* selections with an implied sum that meets the margin, and no combination has
\* a smaller implied sum than the reported one.
BestBookWins ==
  Settled =>
    LET picks == {f \in [Selections -> eligible] : \A s \in Selections : SelectionOf[f[s].key] = s}
    IN  /\ opportunities # {} <=> EventStart > observed /\ \E f \in picks : IsArbitrage(f)
        /\ \A o \in opportunities, f \in picks :
             ImpliedNumerator(o) * ImpliedDenominator(f) <= ImpliedNumerator(f) * ImpliedDenominator(o)

\* Every leg of an opportunity is the version the store held when it was
\* detected, was then inside the freshness window, and had been delivered and
\* become effective by then.
OpportunityIsLive ==
  Settled =>
    \A o \in opportunities, s \in Selections :
      LET leg == o[s] IN
      /\ current[leg.key] # NoVersion /\ current[leg.key].quote = leg
      /\ leg.key \notin invalidated
      /\ leg.ingested <= observed
      /\ EffectiveAt(leg) \in (observed - FreshnessWindow)..observed
      /\ observed < EventStart

\* The scanner drives the store only through its operations.
StoreSpec == Store!Spec

-----------------------------------------------------------------------------
(* The inductive invariant, on top of the one of the store.                *)

\* run_cycle does not wait between the poll and its end, and hands only active
\* quotes to the store.
PhaseInv ==
  /\ phase = "waiting" => pending = {}
  /\ phase = "applying" => now = observed
  /\ \A q \in batch : q.status = "active"

\* What the marks say of each key. Multi-source: a key last reported inactive
\* is marked or holds nothing, a key last quoted is not marked, nor is one whose
\* version this cycle replaced. Single-source: a key last quoted is not marked,
\* or the batch at hand is about to lift the mark.
MarkInv ==
  \A k \in Keys :
    IF MultiSource
    THEN /\ lastWord[k] = "inactive" => k \in invalidated \/ current[k] = NoVersion
         /\ lastWord[k] = "quoted" => k \notin invalidated
         /\ phase = "applying" /\ current[k] # before[k] => k \notin invalidated
    ELSE lastWord[k] = "quoted" =>
           /\ phase = "applying" => k \notin explicit
           /\ k \in invalidated => phase = "applying" /\ \E q \in batch : q.key = k

\* Between cycles the results are those of the state the last cycle left.
FreshQuotes == {current[k].quote : k \in Store!FreshKeys(observed) \ invalidated}
Offered == IF MultiSource THEN ConsolidateQuotes(FreshQuotes) ELSE FreshQuotes
ResultInv == Settled => eligible = Offered /\ opportunities = Opportunities(eligible, observed)

ScanInv == TypeOK /\ PhaseInv /\ MarkInv /\ ResultInv /\ OneQuotePerSlot
=============================================================================
