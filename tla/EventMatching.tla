---------------------------- MODULE EventMatching ---------------------------
(***************************************************************************)
(* From a provider's event to a canonical one: the explicit aliases        *)
(* (normalization/aliases.py), the preparation of the evidence             *)
(* (normalization/event_identity.py), the matcher with its index and its   *)
(* cache of decisions (matching/event_matcher.py), and the hooks that let  *)
(* only matched events into the normalization (matching/hooks.py).         *)
(*                                                                         *)
(* Names are opaque keys, already normalized; times are minutes.           *)
(***************************************************************************)
EXTENDS CanonicalRegistry, SequencesExt

CONSTANTS
  Matchers,              \* [registry, capacity, exhaustive] a caller may construct
  Sources,               \* provider events to match
  CompetitionAliases,    \* CompetitionNormalizer.entries
  ParticipantAliases,    \* ParticipantNormalizer.entries
  StartTolerance, ReferencedTolerance, MinimumConfidence, AmbiguityMargin,
  Results,               \* final results, for the properties
  NoRegistry, NoCall     \* nothing constructed yet, nothing asked yet

ASSUME ConfigAssumption ==
  /\ StartTolerance > 0 /\ ReferencedTolerance >= StartTolerance
  /\ MinimumConfidence \in 0..10000 /\ AmbiguityMargin \in 0..10000
  /\ \A x \in Matchers : x.capacity \in Nat
ASSUME NoneAssumption == None \notin Int

\* An alias entry may need any part of the context it is resolved in.
ASSUME AliasesAssumption ==
  /\ IsFiniteSet(CompetitionAliases) /\ IsFiniteSet(ParticipantAliases)
  /\ \A e \in CompetitionAliases : DOMAIN e.needs = {"provider", "region", "season", "parent"}
  /\ \A e \in ParticipantAliases : DOMAIN e.needs = {"kind", "provider", "competition", "region"}

\* What the fields of a registry hold, before the constructors check it.
ASSUME RegistriesAssumption ==
  \A x \in Matchers :
    /\ IsFiniteSet(x.registry.selections)
    /\ \A e \in x.registry.events : e.participants \in Seq(Range(e.participants))
    /\ \A m \in x.registry.markets : m.line \in Int \cup {None}
ASSUME ResultsAssumption ==
  Results \subseteq [points : [1..2 -> Nat], sets : [1..2 -> 1..2]]

VARIABLES
  registry,    \* the CanonicalRegistry
  capacity,    \* cache_capacity
  exhaustive,  \* exhaustive_diagnostics
  cache,       \* _decision_cache: the least recently used entry first
  call         \* the last source event asked for, with its decision

vars == <<registry, capacity, exhaustive, cache, call>>

-----------------------------------------------------------------------------
(* normalization/aliases.py                                                *)

\* Fault: context that is not given counts as a match.
ContextStateLenient(expected, actual) ==
  IF expected = None \/ actual = None \/ expected = actual THEN "match" ELSE "conflict"

\* _context_state
ContextState(expected, actual) ==
  IF expected = None THEN "match"
  ELSE IF actual = None THEN "missing"
  ELSE IF expected = actual THEN "match" ELSE "conflict"

\* CompetitionNormalizer.resolve and ParticipantNormalizer.resolve: an alias
\* entry names the context it needs.
Resolve(entries, alias, sport, context) ==
  LET states(e) == {ContextState(e.needs[f], context[f]) : f \in DOMAIN e.needs}
      able == {e \in entries : e.alias = alias /\ e.sport = sport /\ "conflict" \notin states(e)}
      full == {e.value : e \in {x \in able : "missing" \notin states(x)}}
      candidates == {e.value : e \in able}
  IN  IF Cardinality(candidates) > 1 THEN [status |-> "ambiguous", value |-> None]
      ELSE IF full # {} THEN [status |-> "resolved", value |-> CHOOSE v \in full : TRUE]
      ELSE [status |-> "unknown", value |-> None]

-----------------------------------------------------------------------------
(* normalization/event_identity.py                                         *)

CompetitionContext(source) ==
  [provider |-> source.provider, region |-> source.region, season |-> source.season, parent |-> None]
ParticipantContext(source, competition) ==
  [kind |-> source.kind, provider |-> source.provider, competition |-> competition,
   region |-> source.region]

ResolvedCompetition(source) ==
  Resolve(CompetitionAliases, source.competition, source.sport, CompetitionContext(source))
ResolvedParticipants(source, competition) ==
  [i \in DOMAIN source.participants |->
     Resolve(ParticipantAliases, source.participants[i], source.sport,
             ParticipantContext(source, competition))]

Refused(reason) == [ok |-> FALSE, reason |-> reason]

\* NormalizedEventEvidence
Evidence(source, competition, participants) ==
  [provider |-> source.provider, external |-> source.external, sport |-> source.sport,
   competition |-> competition, participants |-> participants, start |-> source.start,
   order |-> source.order, stage |-> source.stage, venue |-> source.venue]

\* prepare_event_evidence. Two names of one participant are no diagnostic: the
\* evidence refuses its construction and the call raises.
PrepareEventEvidence(source) ==
  LET competition == ResolvedCompetition(source)
      resolved == ResolvedParticipants(source, competition.value)
      open == {i \in DOMAIN resolved : resolved[i].status # "resolved"}
      ids == [i \in DOMAIN resolved |-> resolved[i].value]
  IN  IF ~source.ofCompetition THEN Refused("source_competition_mismatch")
      ELSE IF competition.status # "resolved" THEN Refused("competition")
      ELSE IF open # {} THEN Refused("participant")
      ELSE IF ~IsInjective(ids) THEN Refused("raises")
      ELSE [ok |-> TRUE, evidence |-> Evidence(source, competition.value, ids)]

-----------------------------------------------------------------------------
(* matching/event_matcher.py                                               *)

References(evidence, e) == {r \in e.references : r.provider = evidence.provider}
ExactReference(evidence, e) == \E r \in References(evidence, e) : r.external = evidence.external
StartDelta(evidence, e) ==
  IF e.start > evidence.start THEN e.start - evidence.start ELSE evidence.start - e.start
Tolerance(evidence, e) ==
  IF ExactReference(evidence, e) THEN ReferencedTolerance ELSE StartTolerance

Known(x, y) == x # None /\ y # None

\* The tests of _evaluate_candidate, in its order.
RejectionReasons ==
  <<"sport_mismatch", "competition_mismatch", "participant_mismatch",
    "participant_order_mismatch", "provider_reference_conflict",
    "start_time_outside_tolerance", "stage_mismatch", "venue_mismatch">>
ASSUME NoneIsNoReason == \A i \in DOMAIN RejectionReasons : RejectionReasons[i] # None
Fails(reason, evidence, e) ==
  CASE reason = "sport_mismatch" -> e.sport # evidence.sport
    [] reason = "competition_mismatch" -> e.competition # evidence.competition
    [] reason = "participant_mismatch" -> Range(e.participants) # Range(evidence.participants)
    [] reason = "participant_order_mismatch" ->
         evidence.order = "ordered" /\ e.participants # evidence.participants
    [] reason = "provider_reference_conflict" ->
         References(evidence, e) # {} /\ ~ExactReference(evidence, e)
    [] reason = "start_time_outside_tolerance" ->
         StartDelta(evidence, e) > Tolerance(evidence, e)
    [] reason = "stage_mismatch" -> Known(evidence.stage, e.stage) /\ evidence.stage # e.stage
    [] reason = "venue_mismatch" -> Known(evidence.venue, e.venue) /\ evidence.venue # e.venue

\* Why _evaluate_candidate rejects the event: the first of its tests to fail.
Rejection(evidence, e) ==
  LET failing == {i \in DOMAIN RejectionReasons : Fails(RejectionReasons[i], evidence, e)}
  IN  IF failing = {} THEN None ELSE RejectionReasons[Min(failing)]

TimeScore(delta, tolerance) == (2000 * (tolerance - delta)) \div tolerance

Confidence(evidence, e) ==
  Min({10000,
       500 + 1500 + 4500 + 500
         + TimeScore(StartDelta(evidence, e), Tolerance(evidence, e))
         + (IF Known(evidence.stage, e.stage) THEN 400 ELSE 0)
         + (IF Known(evidence.venue, e.venue) THEN 300 ELSE 0)
         + (IF ExactReference(evidence, e) THEN 1000 ELSE 0)})

Candidate(evidence, e) ==
  [event |-> e.id, confidence |-> Confidence(evidence, e),
   delta |-> StartDelta(evidence, e), explicit |-> ExactReference(evidence, e)]

Decision(status, matched, candidates, reasons) ==
  [status |-> status, matched |-> matched, candidates |-> candidates, reasons |-> reasons]

\* _hard_filter_diagnostic
HardFilterReason(evidence) ==
  IF \A e \in registry.events : e.sport # evidence.sport THEN "sport_mismatch"
  ELSE IF \A e \in registry.events :
            <<e.sport, e.competition>> # <<evidence.sport, evidence.competition>>
  THEN "competition_mismatch" ELSE "participant_mismatch"

Candidates(evidence, events) ==
  {Candidate(evidence, e) : e \in {x \in events : Rejection(evidence, x) = None}}

\* _match_uncached over the given events. Diagnostics are kept by their reason.
Decide(evidence, events, reasons) ==
  LET candidates == Candidates(evidence, events)
      rejected == reasons \cup ({Rejection(evidence, e) : e \in events} \ {None})
      eligible == {c \in candidates : c.confidence >= MinimumConfidence}
      best == Max({c.confidence : c \in eligible})
      contenders == {c \in eligible : best - c.confidence <= AmbiguityMargin}
  IN  IF eligible = {}
      THEN Decision("rejected", None, candidates,
                    IF candidates = {} THEN rejected ELSE rejected \cup {"below_confidence_threshold"})
      ELSE IF Cardinality(contenders) > 1
      THEN Decision("ambiguous", None, contenders, rejected \cup {"ambiguous_candidates"})
      ELSE Decision("matched", (CHOOSE c \in contenders : TRUE).event, eligible,
                    rejected \cup {"matched"})

MatchUncached(evidence) ==
  LET indexed == EventMatchCandidates(registry, evidence.sport, evidence.competition,
                                      evidence.participants)
  IN  IF exhaustive THEN Decide(evidence, registry.events, {})
      ELSE Decide(evidence, indexed, IF indexed = {} THEN {HardFilterReason(evidence)} ELSE {})

\* Fault: the decision is remembered for the fixture, not for the evidence.
CacheKeyOfFixture(evidence) == [evidence EXCEPT !.external = None]
CacheKey(evidence) == evidence

Cached(evidence) == {i \in DOMAIN cache : cache[i].key = CacheKey(evidence)}

Hit(evidence) == CHOOSE i \in Cached(evidence) : TRUE

\* EventMatcher.match: the decision and the cache it leaves
MatchResult(evidence) ==
  IF Cached(evidence) # {} THEN cache[Hit(evidence)].decision ELSE MatchUncached(evidence)

CacheAfter(evidence) ==
  LET entry == [key |-> CacheKey(evidence), decision |-> MatchResult(evidence)]
      others == IF Cached(evidence) # {} THEN RemoveAt(cache, Hit(evidence)) ELSE cache
      all == Append(others, entry)
  IN  IF capacity = 0 THEN <<>>
      ELSE IF Len(all) > capacity THEN Tail(all) ELSE all

-----------------------------------------------------------------------------

Init ==
  /\ registry = NoRegistry
  /\ capacity = 0
  /\ exhaustive = FALSE
  /\ cache = <<>>
  /\ call = NoCall

\* A registry and a matcher over it are constructed. The constructors raise
\* unless the registry is well formed.
BuildMatcher(x) ==
  /\ registry = NoRegistry
  /\ WellFormed(x.registry)
  /\ registry' = x.registry
  /\ capacity' = x.capacity
  /\ exhaustive' = x.exhaustive
  /\ UNCHANGED <<cache, call>>

\* A source event that cannot be prepared is not matched.
PrepareFails(source) ==
  /\ registry # NoRegistry
  /\ ~PrepareEventEvidence(source).ok
  /\ call' = [source |-> source, decision |-> NoCall]
  /\ UNCHANGED <<registry, capacity, exhaustive, cache>>

\* The source event is prepared and matched.
Match(source) ==
  /\ registry # NoRegistry
  /\ PrepareEventEvidence(source).ok
  /\ LET evidence == PrepareEventEvidence(source).evidence
         decision == MatchResult(evidence)
     IN  /\ cache' = CacheAfter(evidence)
         /\ call' = [source |-> source, decision |-> decision]
  /\ UNCHANGED <<registry, capacity, exhaustive>>

Next ==
  \/ \E x \in Matchers : BuildMatcher(x)
  \/ \E source \in Sources : PrepareFails(source) \/ Match(source)

Spec == Init /\ [][Next]_vars

\* MatchedCanonicalIdHooks.event_id and has_verified_event_match, for the event
\* of the last call
ExposedEvent == IF call.decision.status = "matched" THEN call.decision.matched ELSE None

-----------------------------------------------------------------------------
(* Properties                                                              *)

\* The arithmetic of an arbitrage takes the selections of a market for a
\* partition of the results. For every registry the constructors admit and every
\* market assess_market_support lets in, except the match winners whose
\* selections nothing checks, exactly one selection wins whatever the result:
\* the rules are spread over Market, Selection, the registry and the policy.
SupportedMarketsPartition ==
  registry # NoRegistry =>
    \A m \in registry.markets :
      /\ Supported(EventOf(registry, m).sport, m)
      /\ m.kind \notin {"match_winner_2_way", "match_winner_3_way"}
      => \A result \in Results :
           Cardinality({s \in SelectionsOf(registry, m) : Wins(registry, m, s, result)}) = 1

\* The index and the cache are invisible: whatever was matched before, the
\* status, the event and the candidates of a decision are those of a search of
\* all events made now, and the hooks expose no other event.
DecisionsAreExact ==
  call # NoCall /\ call.decision # NoCall =>
    LET evidence == PrepareEventEvidence(call.source).evidence
        exact == Decide(evidence, registry.events, {})
    IN  /\ <<call.decision.status, call.decision.matched, call.decision.candidates>>
             = <<exact.status, exact.matched, exact.candidates>>
        /\ Len(cache) <= capacity
        /\ ExposedEvent = exact.matched

\* "Missing context is reported as unknown or ambiguous instead of being
\* guessed": an alias that resolves without some of the context resolves to the
\* same identity with it, so an identity never depends on what a feed leaves out.
ContextOnlyConfirms ==
  call # NoCall =>
    LET source == call.source
        stable(entries, alias, context) ==
          \A dropped \in SUBSET DOMAIN context :
            LET less == Resolve(entries, alias, source.sport,
                                [f \in DOMAIN context |-> IF f \in dropped THEN None ELSE context[f]])
            IN  less.status = "resolved" => Resolve(entries, alias, source.sport, context) = less
        competition == ResolvedCompetition(source)
    IN  /\ stable(CompetitionAliases, source.competition, CompetitionContext(source))
        /\ competition.status = "resolved" =>
             \A i \in DOMAIN source.participants :
               stable(ParticipantAliases, source.participants[i],
                      ParticipantContext(source, competition.value))

-----------------------------------------------------------------------------
(* The inductive invariant.                                                *)

\* The evidence that can be asked for, and what the cache may remember of it:
\* the decision a search would make now.
Evidences ==
  {PrepareEventEvidence(s).evidence : s \in {x \in Sources : PrepareEventEvidence(x).ok}}
EntryOf(evidence) == [key |-> CacheKey(evidence), decision |-> MatchUncached(evidence)]
Entries == {EntryOf(evidence) : evidence \in Evidences}

CacheInv == cache \in Seq(Entries) /\ Len(cache) <= capacity

CallInv ==
  call # NoCall /\ call.decision # NoCall =>
    call.decision = MatchUncached(PrepareEventEvidence(call.source).evidence)

\* Nothing is constructed, or the constructors admitted the registry.
MatcherInv ==
  /\ capacity \in Nat
  /\ IF registry = NoRegistry THEN cache = <<>> /\ call = NoCall
     ELSE /\ \E x \in Matchers : registry = x.registry /\ WellFormed(x.registry)
          /\ CacheInv
          /\ CallInv
=============================================================================
