------------------------- MODULE EventMatchingProofs ------------------------
(***************************************************************************)
(* Proofs about EventMatching for every registry, provider event, alias    *)
(* table and result.                                                       *)
(***************************************************************************)
EXTENDS EventMatching, FiniteSetTheorems, SequenceTheorems, TLAPS

-----------------------------------------------------------------------------
(* The index is invisible.                                                 *)

\* An event with another sport, competition or set of participants is rejected
\* by one of the first three tests.
LEMMA OutsideIndexRejected ==
  ASSUME NEW evidence, NEW e,
         MatchKey(e.sport, e.competition, e.participants)
           # MatchKey(evidence.sport, evidence.competition, evidence.participants)
  PROVE  Rejection(evidence, e) # None
  <1> DEFINE R == RejectionReasons
             failing == {i \in DOMAIN R : Fails(R[i], evidence, e)}
  <1>1. /\ DOMAIN R = 1..8
        /\ R[1] = "sport_mismatch" /\ R[2] = "competition_mismatch" /\ R[3] = "participant_mismatch"
    BY DEF RejectionReasons
  <1>2. /\ Fails("sport_mismatch", evidence, e) <=> e.sport # evidence.sport
        /\ Fails("competition_mismatch", evidence, e) <=> e.competition # evidence.competition
        /\ Fails("participant_mismatch", evidence, e) <=> Range(e.participants) # Range(evidence.participants)
    BY DEF Fails
  <1>3. \/ Fails("sport_mismatch", evidence, e) \/ Fails("competition_mismatch", evidence, e)
        \/ Fails("participant_mismatch", evidence, e)
    BY <1>2 DEF MatchKey
  <1> HIDE DEF R
  <1>4. failing \subseteq 1..8 /\ (1 \in failing \/ 2 \in failing \/ 3 \in failing)
    BY <1>1, <1>3
  <1> HIDE DEF failing
  <1>5. \E k \in failing : k \in {1, 2, 3} /\ \A j \in failing : k <= j
    <2>1. CASE 1 \in failing
      BY <1>4, <2>1
    <2>2. CASE 1 \notin failing /\ 2 \in failing
      BY <1>4, <2>2
    <2>3. CASE 1 \notin failing /\ 2 \notin failing /\ 3 \in failing
      BY <1>4, <2>3
    <2> QED BY <1>4, <2>1, <2>2, <2>3
  <1>6. Min(failing) \in {1, 2, 3}
    <2>1. Min(failing) \in failing /\ \A j \in failing : Min(failing) <= j
      BY <1>5 DEF Min
    <2>2. PICK k \in failing : k \in {1, 2, 3}
      BY <1>5
    <2>3. Min(failing) \in 1..8 /\ Min(failing) <= k
      BY <1>4, <2>1, <2>2
    <2> QED BY <2>2, <2>3
  <1>7. \A i \in DOMAIN R : R[i] # None
    BY NoneIsNoReason DEF R
  <1>8. Rejection(evidence, e) = R[Min(failing)]
    BY <1>4 DEF Rejection, R, failing
  <1> QED BY <1>1, <1>6, <1>7, <1>8

\* The index holds every candidate.
LEMMA IndexHoldsCandidates ==
  ASSUME NEW evidence, NEW reg
  PROVE  Candidates(evidence, EventMatchCandidates(reg, evidence.sport, evidence.competition, evidence.participants))
           = Candidates(evidence, reg.events)
  <1>1. \A e : Rejection(evidence, e) = None =>
          MatchKey(e.sport, e.competition, e.participants)
            = MatchKey(evidence.sport, evidence.competition, evidence.participants)
    BY OutsideIndexRejected
  <1> QED BY <1>1 DEF Candidates, EventMatchCandidates

\* Status, event and candidates of a decision depend on the candidates alone.
LEMMA DecidedByCandidates ==
  ASSUME NEW evidence, NEW E, NEW F, NEW r, NEW q, Candidates(evidence, E) = Candidates(evidence, F)
  PROVE  LET x == Decide(evidence, E, r)
             y == Decide(evidence, F, q)
         IN  x.status = y.status /\ x.matched = y.matched /\ x.candidates = y.candidates
  BY DEF Decide, Decision

\* A decision that is no match exposes no event.
LEMMA OnlyMatchesExpose ==
  ASSUME NEW evidence, NEW E, NEW r
  PROVE  Decide(evidence, E, r).status # "matched" => Decide(evidence, E, r).matched = None
  BY DEF Decide, Decision

\* The search through the index decides what a search of all events would.
LEMMA SearchIsExact ==
  ASSUME NEW evidence
  PROVE  LET x == MatchUncached(evidence)
             y == Decide(evidence, registry.events, {})
         IN  x.status = y.status /\ x.matched = y.matched /\ x.candidates = y.candidates
  <1> DEFINE indexed == EventMatchCandidates(registry, evidence.sport, evidence.competition, evidence.participants)
             reasons == IF indexed = {} THEN {HardFilterReason(evidence)} ELSE {}
  <1>1. Candidates(evidence, indexed) = Candidates(evidence, registry.events)
    BY IndexHoldsCandidates
  <1>2. MatchUncached(evidence) \in {Decide(evidence, registry.events, {}), Decide(evidence, indexed, reasons)}
    BY DEF MatchUncached
  <1> HIDE DEF indexed, reasons
  <1> QED BY <1>1, <1>2, DecidedByCandidates

-----------------------------------------------------------------------------
(* The cache is invisible.                                                 *)

\* Moving an entry to the end, and dropping the first one.
LEMMA RemoveAtOf ==
  ASSUME NEW S, NEW s \in Seq(S), NEW i \in DOMAIN s
  PROVE  RemoveAt(s, i) \in Seq(S) /\ Len(RemoveAt(s, i)) = Len(s) - 1
  <1> DEFINE a == SubSeq(s, 1, i - 1)
             b == SubSeq(s, i + 1, Len(s))
  <1>1. i \in 1..Len(s) /\ Len(s) \in Nat
    OBVIOUS
  <1>2. a \in Seq(S) /\ Len(a) = i - 1
    BY <1>1
  <1>3. b \in Seq(S) /\ Len(b) = Len(s) - i
    BY <1>1
  <1>4. RemoveAt(s, i) = a \o b
    BY DEF RemoveAt
  <1> HIDE DEF a, b
  <1>5. a \o b \in Seq(S) /\ Len(a \o b) = Len(a) + Len(b)
    BY <1>2, <1>3, ConcatProperties
  <1> QED BY <1>1, <1>2, <1>3, <1>4, <1>5

\* The lengths of a sequence with one element added, and of its tail.
LEMMA AppendTail ==
  ASSUME NEW S, NEW s \in Seq(S), NEW x \in S
  PROVE  /\ Append(s, x) \in Seq(S) /\ Len(Append(s, x)) = Len(s) + 1
         /\ Tail(Append(s, x)) \in Seq(S) /\ Len(Tail(Append(s, x))) = Len(s)
  <1>1. Append(s, x) \in Seq(S) /\ Len(Append(s, x)) = Len(s) + 1 /\ Append(s, x) # <<>>
    OBVIOUS
  <1> QED BY <1>1

\* A remembered decision is the one a search would make now.
LEMMA RememberedIsExact ==
  ASSUME cache \in Seq(Entries), NEW evidence
  PROVE  MatchResult(evidence) = MatchUncached(evidence)
  <1>1. CASE Cached(evidence) = {}
    BY <1>1 DEF MatchResult
  <1>2. CASE Cached(evidence) # {}
    <2>1. Hit(evidence) \in Cached(evidence)
      BY <1>2 DEF Hit
    <2>2. Hit(evidence) \in DOMAIN cache /\ cache[Hit(evidence)].key = evidence
      BY <2>1 DEF Cached, CacheKey
    <2>3. cache[Hit(evidence)] \in Entries
      BY <2>2
    <2>4. PICK other \in Evidences : cache[Hit(evidence)] = EntryOf(other)
      BY <2>3 DEF Entries
    <2>5. other = evidence /\ cache[Hit(evidence)].decision = MatchUncached(evidence)
      BY <2>2, <2>4 DEF EntryOf, CacheKey
    <2> QED BY <1>2, <2>5 DEF MatchResult
  <1> QED BY <1>1, <1>2

\* The cache a call leaves remembers exact decisions, and no more of them than
\* its capacity.
LEMMA CacheStaysExact ==
  ASSUME CacheInv, capacity \in Nat, NEW evidence \in Evidences
  PROVE  CacheAfter(evidence) \in Seq(Entries) /\ Len(CacheAfter(evidence)) <= capacity
  <1> DEFINE entry == [key |-> CacheKey(evidence), decision |-> MatchResult(evidence)]
             others == IF Cached(evidence) # {} THEN RemoveAt(cache, Hit(evidence)) ELSE cache
             all == Append(others, entry)
  <1>1. cache \in Seq(Entries) /\ Len(cache) <= capacity /\ Len(cache) \in Nat
    BY DEF CacheInv
  <1>2. entry \in Entries
    BY <1>1, RememberedIsExact DEF Entries, EntryOf
  <1>3. others \in Seq(Entries) /\ Len(others) <= Len(cache) /\ Len(others) \in Nat
    <2>1. CASE Cached(evidence) # {}
      <3>1. Hit(evidence) \in DOMAIN cache
        BY <2>1 DEF Hit, Cached
      <3>2. RemoveAt(cache, Hit(evidence)) \in Seq(Entries) /\ Len(RemoveAt(cache, Hit(evidence))) = Len(cache) - 1
        BY <1>1, <3>1, RemoveAtOf
      <3>3. others = RemoveAt(cache, Hit(evidence))
        BY <2>1
      <3> HIDE DEF others
      <3>4. Len(others) \in Nat
        BY <3>2, <3>3
      <3> QED BY <1>1, <3>2, <3>3, <3>4
    <2> QED BY <1>1, <2>1
  <1>4. CacheAfter(evidence) = IF capacity = 0 THEN <<>>
                               ELSE IF Len(all) > capacity THEN Tail(all) ELSE all
    BY DEF CacheAfter
  <1> HIDE DEF entry, others
  <1>5. /\ all \in Seq(Entries) /\ Len(all) = Len(others) + 1
        /\ Tail(all) \in Seq(Entries) /\ Len(Tail(all)) = Len(others)
    BY <1>2, <1>3, AppendTail
  <1> HIDE DEF all
  <1>6. <<>> \in Seq(Entries) /\ Len(<<>>) = 0
    OBVIOUS
  <1> QED BY <1>1, <1>3, <1>4, <1>5, <1>6

-----------------------------------------------------------------------------

\* The cache, the last decision and the registry stay what MatcherInv says.
THEOREM MatcherInvariance == Spec => []MatcherInv
  <1>1. Init => MatcherInv
    BY DEF Init, MatcherInv
  <1>2. MatcherInv /\ [Next]_vars => MatcherInv'
    <2> SUFFICES ASSUME MatcherInv, [Next]_vars PROVE MatcherInv'
      OBVIOUS
    <2>1. ASSUME UNCHANGED <<registry, exhaustive>> PROVE Entries' = Entries /\ \A ev : MatchUncached(ev)' = MatchUncached(ev)
      BY <2>1 DEF Entries, EntryOf, MatchUncached, HardFilterReason
    <2>2. ASSUME NEW x \in Matchers, BuildMatcher(x) PROVE MatcherInv'
      <3>1. capacity' \in Nat /\ cache' = <<>> /\ call' = NoCall
        BY <2>2, ConfigAssumption DEF BuildMatcher, MatcherInv
      <3>2. <<>> \in Seq(Entries') /\ Len(<<>>) = 0
        OBVIOUS
      <3>3. CacheInv' /\ CallInv'
        BY <3>1, <3>2 DEF CacheInv, CallInv
      <3> QED BY <2>2, <3>1, <3>3 DEF BuildMatcher, MatcherInv
    <2>3. ASSUME NEW source \in Sources, PrepareFails(source) PROVE MatcherInv'
      <3>1. registry # NoRegistry /\ UNCHANGED <<registry, capacity, exhaustive, cache>>
        BY <2>3 DEF PrepareFails
      <3>2. CacheInv'
        BY <2>1, <3>1 DEF MatcherInv, CacheInv
      <3>3. CallInv'
        BY <2>3 DEF PrepareFails, CallInv
      <3> QED BY <3>1, <3>2, <3>3 DEF MatcherInv
    <2>4. ASSUME NEW source \in Sources, Match(source) PROVE MatcherInv'
      <3> DEFINE evidence == PrepareEventEvidence(source).evidence
      <3>1. registry # NoRegistry /\ UNCHANGED <<registry, capacity, exhaustive>> /\ evidence \in Evidences
        BY <2>4 DEF Match, Evidences
      <3>2. /\ cache' = CacheAfter(evidence)
            /\ call' = [source |-> source, decision |-> MatchResult(evidence)]
        BY <2>4 DEF Match
      <3>3. CacheInv /\ capacity \in Nat
        BY <3>1 DEF MatcherInv
      <3>4. CacheAfter(evidence) \in Seq(Entries) /\ Len(CacheAfter(evidence)) <= capacity
        BY <3>1, <3>3, CacheStaysExact
      <3>5. CacheInv'
        BY <2>1, <3>1, <3>2, <3>4 DEF CacheInv
      <3>6. MatchResult(evidence) = MatchUncached(evidence)
        BY <3>3, RememberedIsExact DEF CacheInv
      <3>7. call'.source = source /\ call'.decision = MatchUncached(evidence)'
        BY <2>1, <3>1, <3>2, <3>6
      <3>8. CallInv'
        BY <3>7 DEF CallInv
      <3> QED BY <3>1, <3>5, <3>8 DEF MatcherInv
    <2>5. ASSUME UNCHANGED vars PROVE MatcherInv'
      <3>1. UNCHANGED <<registry, capacity, exhaustive, cache, call>>
        BY <2>5 DEF vars
      <3>2. CASE registry = NoRegistry
        BY <3>1, <3>2 DEF MatcherInv
      <3>3. CASE registry # NoRegistry
        <4>1. CacheInv' /\ CallInv'
          BY <2>1, <3>1, <3>3 DEF MatcherInv, CacheInv, CallInv
        <4> QED BY <3>1, <3>3, <4>1 DEF MatcherInv
      <3> QED BY <3>2, <3>3
    <2> QED BY <2>2, <2>3, <2>4, <2>5 DEF Next
  <1> QED BY <1>1, <1>2, PTL DEF Spec

\* Neither the index nor the cache changes a decision, whatever was matched
\* before, and the hooks expose the event of the exact decision only.
THEOREM IndexAndCacheAreInvisible == Spec => []DecisionsAreExact
  <1>1. MatcherInv => DecisionsAreExact
    <2> SUFFICES ASSUME MatcherInv, call # NoCall, call.decision # NoCall PROVE DecisionsAreExact
      BY DEF DecisionsAreExact
    <2> DEFINE evidence == PrepareEventEvidence(call.source).evidence
               exact == Decide(evidence, registry.events, {})
    <2>1. call.decision = MatchUncached(evidence) /\ Len(cache) <= capacity
      BY DEF MatcherInv, CallInv, CacheInv
    <2> HIDE DEF evidence
    <2>2. /\ call.decision.status = exact.status /\ call.decision.matched = exact.matched
          /\ call.decision.candidates = exact.candidates
      BY <2>1, SearchIsExact
    <2>3. exact.status # "matched" => exact.matched = None
      BY OnlyMatchesExpose
    <2> HIDE DEF exact
    <2>4. ExposedEvent = exact.matched
      BY <2>2, <2>3 DEF ExposedEvent
    <2> QED BY <2>1, <2>2, <2>4 DEF DecisionsAreExact, exact, evidence
  <1> QED BY <1>1, MatcherInvariance, PTL

-----------------------------------------------------------------------------
(* Aliases: context only confirms.                                         *)

\* The parts of Resolve: what the context says of an entry, the entries it does
\* not exclude, and the values of those and of the ones it confirms.
States(e, context) == {ContextState(e.needs[f], context[f]) : f \in DOMAIN e.needs}
Able(entries, alias, sport, context) ==
  {e \in entries : e.alias = alias /\ e.sport = sport /\ "conflict" \notin States(e, context)}
Confirmed(entries, alias, sport, context) ==
  {e \in Able(entries, alias, sport, context) : "missing" \notin States(e, context)}
Values(entries) == {e.value : e \in entries}

\* What resolve returns, by the entries that context does not exclude and those
\* it confirms.
LEMMA ResolveParts ==
  ASSUME NEW entries, NEW alias, NEW sport, NEW context
  PROVE  Resolve(entries, alias, sport, context) =
           IF Cardinality(Values(Able(entries, alias, sport, context))) > 1
           THEN [status |-> "ambiguous", value |-> None]
           ELSE IF Values(Confirmed(entries, alias, sport, context)) # {}
           THEN [status |-> "resolved",
                 value |-> CHOOSE v \in Values(Confirmed(entries, alias, sport, context)) : TRUE]
           ELSE [status |-> "unknown", value |-> None]
  BY DEF Resolve, Values, Confirmed, Able, States

\* Finitely many entries name finitely many values.
LEMMA FiniteValues ==
  ASSUME NEW entries, IsFiniteSet(entries)
  PROVE  IsFiniteSet(Values(entries))
  <1> DEFINE f == [e \in entries |-> e.value]
  <1>1. f \in [entries -> Values(entries)] /\ \A v \in Values(entries) : \E e \in entries : f[e] = v
    BY DEF Values
  <1>2. f \in Surjection(entries, Values(entries))
    BY <1>1 DEF Surjection
  <1> QED BY <1>2, FS_Surjection

\* Context that is dropped excludes no entry and confirms none.
LEMMA DroppedContext ==
  ASSUME NEW entries, NEW alias, NEW sport, NEW context, NEW dropped,
         \A e \in entries : DOMAIN e.needs \subseteq DOMAIN context,
         NEW less, less = [f \in DOMAIN context |-> IF f \in dropped THEN None ELSE context[f]]
  PROVE  /\ Able(entries, alias, sport, context) \subseteq Able(entries, alias, sport, less)
         /\ Confirmed(entries, alias, sport, less) \subseteq Confirmed(entries, alias, sport, context)
  <1>1. ASSUME NEW e \in entries, NEW f \in DOMAIN e.needs
        PROVE  /\ ContextState(e.needs[f], less[f]) = "conflict" => ContextState(e.needs[f], context[f]) = "conflict"
               /\ ContextState(e.needs[f], less[f]) \notin {"conflict", "missing"} =>
                    ContextState(e.needs[f], context[f]) \notin {"conflict", "missing"}
    <2>1. f \in DOMAIN context
      OBVIOUS
    <2>2. less[f] = IF f \in dropped THEN None ELSE context[f]
      BY <2>1
    <2> QED BY <2>2 DEF ContextState
  <1>2. ASSUME NEW e \in entries
        PROVE  /\ "conflict" \in States(e, less) => "conflict" \in States(e, context)
               /\ "conflict" \notin States(e, less) /\ "missing" \notin States(e, less) =>
                    "conflict" \notin States(e, context) /\ "missing" \notin States(e, context)
    BY <1>1 DEF States
  <1> QED BY <1>2 DEF Able, Confirmed

\* An alias that resolves without some of the context resolves to the same
\* identity with it.
LEMMA ContextConfirms ==
  ASSUME NEW entries, IsFiniteSet(entries), NEW alias, NEW sport, NEW context, NEW dropped,
         \A e \in entries : DOMAIN e.needs \subseteq DOMAIN context,
         NEW less, less = [f \in DOMAIN context |-> IF f \in dropped THEN None ELSE context[f]],
         Resolve(entries, alias, sport, less).status = "resolved"
  PROVE  Resolve(entries, alias, sport, context) = Resolve(entries, alias, sport, less)
  <1> DEFINE able == Values(Able(entries, alias, sport, context))
             ableLess == Values(Able(entries, alias, sport, less))
             full == Values(Confirmed(entries, alias, sport, context))
             fullLess == Values(Confirmed(entries, alias, sport, less))
  <1>1. able \subseteq ableLess /\ fullLess \subseteq full
    BY DroppedContext DEF Values
  <1>2. full \subseteq able /\ fullLess \subseteq ableLess
    BY DEF Values, Confirmed
  <1>3. /\ Resolve(entries, alias, sport, less) =
             IF Cardinality(ableLess) > 1 THEN [status |-> "ambiguous", value |-> None]
             ELSE IF fullLess # {} THEN [status |-> "resolved", value |-> CHOOSE v \in fullLess : TRUE]
             ELSE [status |-> "unknown", value |-> None]
        /\ Resolve(entries, alias, sport, context) =
             IF Cardinality(able) > 1 THEN [status |-> "ambiguous", value |-> None]
             ELSE IF full # {} THEN [status |-> "resolved", value |-> CHOOSE v \in full : TRUE]
             ELSE [status |-> "unknown", value |-> None]
    BY ResolveParts
  <1>4. IsFiniteSet(ableLess)
    <2>1. Able(entries, alias, sport, less) \in SUBSET entries
      BY DEF Able
    <2>2. IsFiniteSet(Able(entries, alias, sport, less))
      BY <2>1, FS_Subset
    <2> QED BY <2>2, FiniteValues
  <1> HIDE DEF able, ableLess, full, fullLess
  <1>5. ~(Cardinality(ableLess) > 1) /\ fullLess # {}
    BY <1>3
  <1>6. PICK v : ableLess = {v}
    <2>1. Cardinality(ableLess) \in Nat
      BY <1>4, FS_CardinalityType
    <2>2. Cardinality(ableLess) # 0
      BY <1>2, <1>4, <1>5, FS_EmptySet
    <2>3. Cardinality(ableLess) = 1
      BY <1>5, <2>1, <2>2
    <2> QED BY <1>4, <2>3, FS_Singleton
  <1>7. fullLess = {v} /\ full = {v} /\ able = {v}
    BY <1>1, <1>2, <1>5, <1>6
  <1>8. Cardinality(able) = 1
    BY <1>7, FS_Singleton
  <1> QED BY <1>3, <1>5, <1>7, <1>8

\* Context a feed leaves out never decides an identity.
THEOREM ContextNeverGuessed == Spec => []ContextOnlyConfirms
  <1>1. ContextOnlyConfirms
    <2> SUFFICES ASSUME call # NoCall PROVE ContextOnlyConfirms
      BY DEF ContextOnlyConfirms
    <2> DEFINE less(context, dropped) == [f \in DOMAIN context |-> IF f \in dropped THEN None ELSE context[f]]
               sport == call.source.sport
    <2>1. \A e \in CompetitionAliases : DOMAIN e.needs \subseteq DOMAIN CompetitionContext(call.source)
      BY AliasesAssumption DEF CompetitionContext
    <2>2. \A competition : \A e \in ParticipantAliases :
            DOMAIN e.needs \subseteq DOMAIN ParticipantContext(call.source, competition)
      BY AliasesAssumption DEF ParticipantContext
    <2>3. ASSUME NEW entries, NEW alias, NEW context, IsFiniteSet(entries),
                 \A e \in entries : DOMAIN e.needs \subseteq DOMAIN context,
                 NEW dropped \in SUBSET DOMAIN context,
                 Resolve(entries, alias, sport, less(context, dropped)).status = "resolved"
          PROVE  Resolve(entries, alias, sport, context) = Resolve(entries, alias, sport, less(context, dropped))
      <3> DEFINE l == less(context, dropped)
      <3>1. l = [f \in DOMAIN context |-> IF f \in dropped THEN None ELSE context[f]]
        OBVIOUS
      <3>2. Resolve(entries, alias, sport, l).status = "resolved"
        BY <2>3
      <3> HIDE DEF l, sport
      <3>3. Resolve(entries, alias, sport, context) = Resolve(entries, alias, sport, l)
        BY <2>3, <3>1, <3>2, ContextConfirms
      <3> QED BY <3>3 DEF l
    <2>4. IsFiniteSet(CompetitionAliases) /\ IsFiniteSet(ParticipantAliases)
      BY AliasesAssumption
    <2> DEFINE competitionContext == CompetitionContext(call.source)
    <2>5. ASSUME NEW dropped \in SUBSET DOMAIN competitionContext,
                 Resolve(CompetitionAliases, call.source.competition, sport, less(competitionContext, dropped)).status = "resolved"
          PROVE  Resolve(CompetitionAliases, call.source.competition, sport, competitionContext)
                   = Resolve(CompetitionAliases, call.source.competition, sport, less(competitionContext, dropped))
      BY <2>1, <2>3, <2>4, <2>5
    <2> DEFINE context == ParticipantContext(call.source, ResolvedCompetition(call.source).value)
    <2>6. ASSUME NEW i \in DOMAIN call.source.participants, NEW dropped \in SUBSET DOMAIN context,
                 Resolve(ParticipantAliases, call.source.participants[i], sport, less(context, dropped)).status = "resolved"
          PROVE  Resolve(ParticipantAliases, call.source.participants[i], sport, context)
                   = Resolve(ParticipantAliases, call.source.participants[i], sport, less(context, dropped))
      BY <2>2, <2>3, <2>4, <2>6
    <2> QED BY <2>5, <2>6 DEF ContextOnlyConfirms
  <1> QED BY <1>1, PTL

-----------------------------------------------------------------------------
(* Supported markets partition the results.                                *)

\* Two selections that differ are all of a market of two.
LEMMA TwoElements ==
  ASSUME NEW S, IsFiniteSet(S), Cardinality(S) = 2, NEW a \in S, NEW b \in S, a # b
  PROVE  S = {a, b}
  <1>1. IsFiniteSet(S \ {a}) /\ Cardinality(S \ {a}) = 1
    BY FS_RemoveElement
  <1>2. PICK x : S \ {a} = {x}
    BY <1>1, FS_Singleton
  <1> QED BY <1>2

\* One of two wins and the other does not.
LEMMA OneWinner ==
  ASSUME NEW reg, NEW m, NEW result, NEW a, NEW b, a # b, NEW sels, sels = {a, b},
         Wins(reg, m, a, result) <=> ~Wins(reg, m, b, result)
  PROVE  Cardinality({s \in sels : Wins(reg, m, s, result)}) = 1
  <1>1. CASE Wins(reg, m, a, result)
    <2>1. {s \in sels : Wins(reg, m, s, result)} = {a}
      BY <1>1
    <2> QED BY <2>1, FS_Singleton
  <1>2. CASE ~Wins(reg, m, a, result)
    <2>1. {s \in sels : Wins(reg, m, s, result)} = {b}
      BY <1>2
    <2> QED BY <2>1, FS_Singleton
  <1> QED BY <1>1, <1>2

\* The event of a market, its two participants and their positions.
LEMMA EventOfMarket ==
  ASSUME NEW x \in Matchers, WellFormed(x.registry), NEW m \in x.registry.markets
  PROVE  LET e == EventOf(x.registry, m)
         IN  /\ e.participants \in Seq(Range(e.participants)) /\ IsInjective(e.participants)
             /\ ValidMarket(m) /\ KindRules(x.registry, m)
             /\ m.line \in Int \cup {None}
             /\ IsFiniteSet(SelectionsOf(x.registry, m))
  <1> DEFINE reg == x.registry
             e == EventOf(reg, m)
  <1>1. m.event \in Ids(reg.events)
    BY DEF WellFormed, ReferencesResolve
  <1>2. \E y \in reg.events : y.id = m.event
    BY <1>1 DEF Ids
  <1>3. e \in reg.events
    BY <1>2 DEF EventOf, ById
  <1>4. IsInjective(e.participants) /\ e.participants \in Seq(Range(e.participants))
    BY <1>3, RegistriesAssumption DEF WellFormed, ValidEvent
  <1>5. SelectionsOf(reg, m) \in SUBSET reg.selections /\ IsFiniteSet(reg.selections)
    BY RegistriesAssumption DEF SelectionsOf
  <1>6. IsFiniteSet(SelectionsOf(reg, m))
    BY <1>5, FS_Subset
  <1>7. ValidMarket(m) /\ KindRules(reg, m) /\ m.line \in Int \cup {None}
    BY RegistriesAssumption DEF WellFormed
  <1> QED BY <1>4, <1>6, <1>7

\* The positions of the participants of an event of two.
LEMMA TwoParticipants ==
  ASSUME NEW e, e.participants \in Seq(Range(e.participants)), IsInjective(e.participants),
         Len(e.participants) = 2
  PROVE  LET p == e.participants[1]
             q == e.participants[2]
         IN  /\ p # q /\ ParticipantsOf(e) = {p, q}
             /\ Cardinality(ParticipantsOf(e)) = 2
             /\ (CHOOSE i \in DOMAIN e.participants : e.participants[i] = p) = 1
             /\ (CHOOSE i \in DOMAIN e.participants : e.participants[i] = q) = 2
  <1> DEFINE o == e.participants
  <1>1. DOMAIN o = {1, 2}
    OBVIOUS
  <1>2. o[1] # o[2]
    BY <1>1 DEF IsInjective
  <1>3. ParticipantsOf(e) = {o[1], o[2]}
    BY <1>1 DEF ParticipantsOf, Range
  <1>4. Cardinality({o[1], o[2]}) = 2
    <2>1. IsFiniteSet({o[1]}) /\ Cardinality({o[1]}) = 1
      BY FS_Singleton
    <2>2. {o[1], o[2]} = {o[1]} \cup {o[2]} /\ o[2] \notin {o[1]}
      BY <1>2
    <2>3. Cardinality({o[1]} \cup {o[2]}) = Cardinality({o[1]}) + 1
      BY <2>1, <2>2, FS_AddElement
    <2>4. Cardinality({o[1]} \cup {o[2]}) = 2
      BY <2>1, <2>3
    <2> QED BY <2>2, <2>4
  <1>5. (CHOOSE i \in DOMAIN o : o[i] = o[1]) = 1 /\ (CHOOSE i \in DOMAIN o : o[i] = o[2]) = 2
    BY <1>1, <1>2
  <1> QED BY <1>2, <1>3, <1>4, <1>5

\* A line of x.5 is no number of points.
LEMMA NoPush ==
  ASSUME NEW line \in Int, PushFree(line), NEW n \in Int
  PROVE  4 * n # line /\ 4 * n + line # 0
  BY DEF PushFree

\* A supported market, other than a match winner, has exactly one winning
\* selection whatever the result.
LEMMA MarketPartitions ==
  ASSUME NEW x \in Matchers, WellFormed(x.registry), NEW m \in x.registry.markets,
         Supported(EventOf(x.registry, m).sport, m),
         m.kind \notin {"match_winner_2_way", "match_winner_3_way"},
         NEW result \in Results
  PROVE  Cardinality({s \in SelectionsOf(x.registry, m) : Wins(x.registry, m, s, result)}) = 1
  <1> DEFINE reg == x.registry
             e == EventOf(reg, m)
             sels == SelectionsOf(reg, m)
             points == result.points
             W(s) == Wins(reg, m, s, result)
             position(s) == CHOOSE i \in DOMAIN e.participants : e.participants[i] = s.participant
  <1>1. /\ e.participants \in Seq(Range(e.participants)) /\ IsInjective(e.participants)
        /\ ValidMarket(m) /\ KindRules(reg, m) /\ m.line \in Int \cup {None} /\ IsFiniteSet(sels)
    BY EventOfMarket
  <1>2. points[1] \in Nat /\ points[2] \in Nat /\ \A i \in {1, 2} : result.sets[i] \in {1, 2}
    <2>1. result.points \in [1..2 -> Nat] /\ result.sets \in [1..2 -> 1..2]
      BY ResultsAssumption
    <2>2. 1 \in 1..2 /\ 2 \in 1..2 /\ 1..2 = {1, 2}
      OBVIOUS
    <2> QED BY <2>1, <2>2
  <1>3. SUFFICES \E a, b \in sels : a # b /\ sels = {a, b} /\ (W(a) <=> ~W(b))
    BY OneWinner
  <1>4. CASE m.kind = "total_points"
    <2>1. m.line \in Int /\ PushFree(m.line)
      BY <1>1, <1>4 DEF ValidMarket, Supported
    <2>2. OneOfEach(sels, {"over", "under"}) /\ "over" # "under"
      BY <1>1, <1>4 DEF KindRules
    <2>3. PICK a \in sels, b \in sels : a # b /\ a.kind = "over" /\ b.kind = "under" /\ sels = {a, b}
      <3>1. Cardinality(sels) = 2 /\ {s.kind : s \in sels} = {"over", "under"}
        BY <2>2 DEF OneOfEach
      <3>2. PICK a \in sels : a.kind = "over"
        BY <3>1
      <3>3. PICK b \in sels : b.kind = "under"
        BY <3>1
      <3>4. a # b /\ sels = {a, b}
        BY <1>1, <3>1, <3>2, <3>3, TwoElements
      <3> QED BY <3>2, <3>3, <3>4
    <2> DEFINE n == points[1] + points[2]
    <2>4. W(a) <=> 4 * n > m.line
      BY <1>4, <2>3 DEF Wins
    <2>5. W(b) <=> 4 * n < m.line
      BY <1>4, <2>3 DEF Wins
    <2>6. n \in Int
      BY <1>2
    <2> HIDE DEF n
    <2>7. 4 * n # m.line
      BY <2>1, <2>6, NoPush
    <2>8. W(a) <=> ~W(b)
      BY <2>1, <2>4, <2>5, <2>6, <2>7
    <2> QED BY <2>3, <2>8
  <1>5. CASE m.kind = "both_teams_to_score"
    <2>1. OneOfEach(sels, {"yes", "no"}) /\ "yes" # "no"
      BY <1>1, <1>5 DEF KindRules
    <2>2. PICK a \in sels, b \in sels : a # b /\ a.kind = "yes" /\ b.kind = "no" /\ sels = {a, b}
      <3>1. Cardinality(sels) = 2 /\ {s.kind : s \in sels} = {"yes", "no"}
        BY <2>1 DEF OneOfEach
      <3>2. PICK a \in sels : a.kind = "yes"
        BY <3>1
      <3>3. PICK b \in sels : b.kind = "no"
        BY <3>1
      <3>4. a # b /\ sels = {a, b}
        BY <1>1, <3>1, <3>2, <3>3, TwoElements
      <3> QED BY <3>2, <3>3, <3>4
    <2>3. W(a) <=> points[1] > 0 /\ points[2] > 0
      BY <1>5, <2>2 DEF Wins
    <2>4. W(b) <=> ~(points[1] > 0 /\ points[2] > 0)
      BY <1>5, <2>2 DEF Wins
    <2>5. W(a) <=> ~W(b)
      BY <2>3, <2>4
    <2> QED BY <2>2, <2>5
  <1>6. ASSUME Len(e.participants) = 2, Cardinality(sels) = 2,
               {s.participant : s \in sels} = ParticipantsOf(e)
        PROVE  \E a, b \in sels : /\ a # b /\ sels = {a, b}
                                  /\ a.participant = e.participants[1] /\ b.participant = e.participants[2]
                                  /\ a.participant # b.participant
                                  /\ position(a) = 1 /\ position(b) = 2
    <2>1. /\ e.participants[1] # e.participants[2]
          /\ ParticipantsOf(e) = {e.participants[1], e.participants[2]}
          /\ (CHOOSE i \in DOMAIN e.participants : e.participants[i] = e.participants[1]) = 1
          /\ (CHOOSE i \in DOMAIN e.participants : e.participants[i] = e.participants[2]) = 2
      BY <1>1, <1>6, TwoParticipants
    <2>2. PICK a \in sels : a.participant = e.participants[1]
      BY <1>6, <2>1
    <2>3. PICK b \in sels : b.participant = e.participants[2]
      BY <1>6, <2>1
    <2>4. sels = {a, b} /\ a # b
      BY <1>1, <1>6, <2>1, <2>2, <2>3, TwoElements
    <2>5. position(a) = 1 /\ position(b) = 2
      BY <2>1, <2>2, <2>3
    <2> QED BY <2>1, <2>2, <2>3, <2>4, <2>5
  <1>7. CASE m.kind = "set_winner"
    <2>1. Len(e.participants) = 2 /\ OnePerParticipant(sels, ParticipantsOf(e)) /\ m.index \in {1, 2}
      BY <1>1, <1>7 DEF KindRules, Supported
    <2>2. Cardinality(ParticipantsOf(e)) = 2
      BY <1>1, <2>1, TwoParticipants
    <2>3. /\ Cardinality(sels) = 2 /\ {s.participant : s \in sels} = ParticipantsOf(e)
          /\ \A s \in sels : s.kind = "participant"
      BY <2>1, <2>2 DEF OnePerParticipant
    <2>4. PICK a \in sels, b \in sels : /\ a # b /\ sels = {a, b}
                                        /\ a.participant = e.participants[1] /\ b.participant = e.participants[2]
                                        /\ a.participant # b.participant
                                        /\ position(a) = 1 /\ position(b) = 2
      BY <1>6, <2>1, <2>3
    <2>5. W(a) <=> result.sets[m.index] = 1
      BY <1>7, <2>3, <2>4 DEF Wins
    <2>6. W(b) <=> result.sets[m.index] = 2
      BY <1>7, <2>3, <2>4 DEF Wins
    <2>7. W(a) <=> ~W(b)
      BY <1>2, <2>1, <2>5, <2>6
    <2> QED BY <2>4, <2>7
  <1>8. CASE m.kind = "handicap"
    <2>1. /\ Len(e.participants) = 2 /\ HandicapsMirrored(sels, e, m.line)
          /\ m.line \in Int /\ PushFree(m.line)
      BY <1>1, <1>8 DEF KindRules, ValidMarket, Supported
    <2>2. /\ Cardinality(sels) = 2 /\ {s.participant : s \in sels} = ParticipantsOf(e)
          /\ \A s \in sels : s.kind = "participant"
          /\ \A s \in sels : s.handicap = IF s.participant = e.participants[1] THEN m.line ELSE -m.line
      BY <2>1 DEF HandicapsMirrored
    <2>3. PICK a \in sels, b \in sels : /\ a # b /\ sels = {a, b}
                                        /\ a.participant = e.participants[1] /\ b.participant = e.participants[2]
                                        /\ a.participant # b.participant
                                        /\ position(a) = 1 /\ position(b) = 2
      BY <1>6, <2>1, <2>2
    <2>4. a.handicap = m.line /\ b.handicap = -m.line /\ a.kind = "participant" /\ b.kind = "participant"
      BY <2>2, <2>3
    <2>5. 3 - 1 = 2 /\ 3 - 2 = 1
      OBVIOUS
    <2>6. W(a) <=> 4 * (points[1] - points[2]) + m.line > 0
      BY <1>8, <2>3, <2>4, <2>5 DEF Wins
    <2>7. W(b) <=> 4 * (points[2] - points[1]) + (-m.line) > 0
      BY <1>8, <2>3, <2>4, <2>5 DEF Wins
    <2> DEFINE n == points[1] - points[2]
    <2>8. n \in Int /\ points[2] - points[1] = -n
      BY <1>2
    <2> HIDE DEF n
    <2>9. 4 * n + m.line # 0
      BY <2>1, <2>8, NoPush
    <2>10. (W(a) <=> 4 * n + m.line > 0) /\ (W(b) <=> 4 * (-n) + (-m.line) > 0)
      BY <2>6, <2>7, <2>8 DEF n
    <2>11. W(a) <=> ~W(b)
      BY <2>1, <2>8, <2>9, <2>10
    <2> QED BY <2>3, <2>11
  <1> QED BY <1>4, <1>5, <1>7, <1>8 DEF Supported

\* Whatever registry the constructors admit, the selections of a supported
\* market other than a match winner partition the results: no push, no second
\* winner and no result without one.
THEOREM MarketsPartition == Spec => []SupportedMarketsPartition
  <1>1. MatcherInv => SupportedMarketsPartition
    <2> SUFFICES ASSUME MatcherInv, registry # NoRegistry PROVE SupportedMarketsPartition
      BY DEF SupportedMarketsPartition
    <2>1. PICK x \in Matchers : registry = x.registry /\ WellFormed(x.registry)
      BY DEF MatcherInv
    <2> QED BY <2>1, MarketPartitions DEF SupportedMarketsPartition
  <1> QED BY <1>1, MatcherInvariance, PTL
=============================================================================
