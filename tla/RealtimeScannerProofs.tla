----------------------- MODULE RealtimeScannerProofs ------------------------
(***************************************************************************)
(* Proofs about RealtimeScanner for every set of feeds, bookmakers, keys   *)
(* and polls, every policy and every bound.                                *)
(***************************************************************************)
EXTENDS RealtimeScanner, FiniteSetTheorems, TLAPS

\* What is proved of the store by itself.
SP == INSTANCE LiveQuoteStoreProofs WITH Batches <- Handovers

-----------------------------------------------------------------------------
(* Finite orders: why CHOOSE finds a best quote.                           *)

\* A strict order on a non-empty finite set has an element that none precedes.
LEMMA FiniteMinimal ==
  ASSUME NEW S, IsFiniteSet(S), S # {}, NEW R,
         \A x \in S : <<x, x>> \notin R,
         \A x, y, z \in S : <<x, y>> \in R /\ <<y, z>> \in R => <<x, z>> \in R
  PROVE  \E x \in S : \A y \in S : <<y, x>> \notin R
  <1> DEFINE Down(x) == {y \in S : <<y, x>> \in R}
             T == {Down(x) : x \in S}
  <1>1. T # {} /\ T \subseteq SUBSET S
    <2>1. PICK x \in S : TRUE
      OBVIOUS
    <2>2. Down(x) \in T
      BY <2>1
    <2>3. \A x1 \in S : Down(x1) \subseteq S
      OBVIOUS
    <2> HIDE DEF Down
    <2> QED BY <2>2, <2>3
  <1>2. IsWellFoundedOn(StrictSubsetOrdering(S), SUBSET S)
    BY FS_StrictSubsetOrderingWellFounded, FS_FiniteSubsetsOfFinite
  <1> HIDE DEF T
  <1>3. \E X \in T : \A Y \in T : ~ (<<Y, X>> \in StrictSubsetOrdering(S))
    BY <1>1, <1>2, WFMin
  <1>4. PICK X \in T : \A Y \in T : <<Y, X>> \notin StrictSubsetOrdering(S)
    BY <1>3
  <1>5. PICK x \in S : X = Down(x)
    BY <1>4 DEF T
  <1>6. SUFFICES ASSUME NEW y \in S, <<y, x>> \in R PROVE FALSE
    BY <1>5
  <1>7. Down(y) \subseteq Down(x) /\ y \in Down(x) /\ y \notin Down(y) /\ Down(y) \in T
    BY <1>6 DEF T
  <1>8. <<Down(y), X>> \in StrictSubsetOrdering(S)
    BY <1>5, <1>7 DEF StrictSubsetOrdering
  <1> QED BY <1>4, <1>7, <1>8

-----------------------------------------------------------------------------
(* The scanner drives the store.                                           *)

\* What normalization hands over: quotes of known keys, with the status
\* "active".
LEMMA NormalizedType ==
  ASSUME NEW reports \in Polls, NEW t, NEW q \in NormalizedBatch(reports, t)
  PROVE  q \in Store!Quote /\ q.status = "active"
  <1>1. PICK r \in reports : q \in NormalizedQuotes(r, t + SkewTolerance)
    BY DEF NormalizedBatch
  <1>2. r \in Report
    BY PollsAssumption
  <1>3. PICK s \in Priced(r) : q = Report2Quote(r, s)
    BY <1>1 DEF NormalizedQuotes
  <1> QED BY <1>2, <1>3, KeyOfAssumption
          DEF Report, Priced, Report2Quote, Store!Quote, Store!Status

\* So the store is handed sets of quotes.
LEMMA HandoversAreBatches == Handovers \subseteq SUBSET Store!Quote
  BY NormalizedType DEF Handovers

\* The assumptions of the store.
LEMMA StoreAssumptions ==
  /\ Keys \subseteq Nat
  /\ FreshnessWindow \in Nat \ {0} /\ SkewTolerance \in Nat
  /\ MaxTime \in Nat /\ MaxRevision \in Nat
  /\ Handovers \subseteq SUBSET SP!Quote
  /\ NoTimestamp \notin Int
  /\ NoVersion \notin SP!Version
  BY HandoversAreBatches, StoreKeysAssumption, StorePolicyAssumption, StoreBoundAssumption,
     NoTimestampIsNoTime, NoVersionIsNone
  DEF SP!Quote, SP!Version, SP!Status, Store!Quote, Store!Version, Store!Status

\* The clock never passes the bound, so that what is detected at any time is
\* one of the Handovers.
Clock == now \in 0..MaxTime

\* The clock stays inside its bound.
LEMMA ClockInv == Spec => []Clock
  <1>1. Init => Clock
    BY StoreBoundAssumption DEF Init, Store!Init, Clock
  <1>2. Clock /\ [Next]_vars => Clock'
    BY StoreBoundAssumption
    DEF Clock, Next, vars, storeVars, Tick, Detect, ApplyOne, Conclude, Store!Tick, Store!Apply,
        Store!ApplyQuote, Store!EvictStale
  <1> QED BY <1>1, <1>2, PTL DEF Spec

\* Every step of the scanner is a step of the store or leaves it alone.
LEMMA ScannerStepIsStoreStep ==
  ASSUME Clock, [Next]_vars
  PROVE  [Store!Next]_(Store!vars)
  <1>1. CASE Tick
    BY <1>1 DEF Tick, Store!Next
  <1>2. ASSUME NEW reports \in Polls, Detect(reports) PROVE Store!Next
    <2>1. NormalizedBatch(reports, now) \in Handovers
      BY DEF Clock, Handovers
    <2> QED BY <1>2, <2>1 DEF Detect, Store!Next
  <1>3. CASE ApplyOne
    <2>1. PICK quote \in pending : Store!ApplyQuote(quote)
      BY <1>3 DEF ApplyOne
    <2> QED BY <2>1 DEF Store!Next, Store!ApplyNext
  <1>4. CASE Conclude
    BY <1>4 DEF Conclude, Store!Next
  <1>5. CASE UNCHANGED vars
    BY <1>5 DEF vars, storeVars, Store!vars
  <1> QED BY <1>1, <1>2, <1>3, <1>4, <1>5 DEF Next

\* The scanner drives the store only through its operations, with batches the
\* store may be handed: run_cycle implements the store's specification.
THEOREM ScannerImplementsStore == Spec => StoreSpec
  <1>1. Init => Store!Init
    BY DEF Init
  <1>2. Clock /\ [Next]_vars => [Store!Next]_(Store!vars)
    BY ScannerStepIsStoreStep
  <1> QED BY <1>1, <1>2, ClockInv, PTL DEF Spec, StoreSpec, Store!Spec

\* So what is proved of the store holds of the scanner's store.
LEMMA StoreInvariant == Spec => []Store!IInv
  <1>1. Store!Init => SP!Init
    BY DEF Store!Init, SP!Init
  <1>2. [Store!Next]_(Store!vars) => [SP!Next]_(SP!vars)
    BY DEF Store!Next, SP!Next, Store!vars, SP!vars,
        Store!Idle, SP!Idle, Store!Apply, SP!Apply, Store!ApplyNext, SP!ApplyNext,
        Store!ApplyQuote, SP!ApplyQuote, Store!Tick, SP!Tick, Store!EvictStale, SP!EvictStale,
        Store!Accepts, SP!Accepts, Store!NextVersion, SP!NextVersion, Store!SortsBefore,
        SP!SortsBefore, Store!Effective, SP!Effective, Store!Impossible, SP!Impossible,
        Store!FarBackward, SP!FarBackward, Store!Duplicate, SP!Duplicate, Store!Fingerprint,
        SP!Fingerprint, Store!UnconfirmedBackward, SP!UnconfirmedBackward, Store!EvictedKeys,
        SP!EvictedKeys, Store!Evictable, SP!Evictable, Store!Expired, SP!Expired,
        Store!Stored, SP!Stored
  <1>3. SP!IInv => Store!IInv
    BY DEF Store!IInv, SP!IInv,
        Store!TypeOK, SP!TypeOK, Store!NoImpossibleVersion, SP!NoImpossibleVersion,
        Store!LoopInv, SP!LoopInv, Store!ApplyOutcome, SP!ApplyOutcome, Store!Quote, SP!Quote,
        Store!Status, SP!Status, Store!Version, SP!Version, Store!Handled, SP!Handled,
        Store!Accepts, SP!Accepts, Store!SortsBefore, SP!SortsBefore, Store!Effective,
        SP!Effective, Store!Impossible, SP!Impossible, Store!FarBackward, SP!FarBackward,
        Store!Duplicate, SP!Duplicate, Store!Fingerprint, SP!Fingerprint,
        Store!UnconfirmedBackward, SP!UnconfirmedBackward, Store!Stored, SP!Stored
  <1> QED BY <1>1, <1>2, <1>3, ScannerImplementsStore, StoreAssumptions, SP!Invariance, PTL
          DEF StoreSpec, Store!Spec, SP!Spec

-----------------------------------------------------------------------------
(* Consolidation and the book.                                             *)

\* The quotes of the live state: at most one for each key.
Keyed(quotes) ==
  /\ quotes \subseteq Store!Quote
  /\ \A q, r \in quotes : q.key = r.key => q = r

\* The times, the price and the key of a quote are numbers.
LEMMA QuoteNumbers ==
  ASSUME NEW q \in Store!Quote
  PROVE  EffectiveAt(q) \in Int /\ Price[q.offer] \in Int /\ q.key \in Keys /\ q.key \in Nat
  <1>1. q.offer \in Offers /\ q.key \in Keys /\ EffectiveAt(q) \in Int
    BY DEF Store!Quote, EffectiveAt
  <1>2. Price[q.offer] \in Int
    <2>1. Price[q.offer] \in Nat
      BY <1>1, PriceAssumption
    <2> QED BY <2>1
  <1>3. q.key \in Nat
    BY <1>1, StoreKeysAssumption
  <1> QED BY <1>1, <1>2, <1>3

\* There are no more of them than keys.
LEMMA KeyedIsFinite ==
  ASSUME NEW quotes, Keyed(quotes)
  PROVE  IsFiniteSet(quotes)
  <1> DEFINE f == [q \in quotes |-> q.key]
  <1>1. f \in Injection(quotes, Keys)
    BY QuoteNumbers DEF Keyed, Injection, IsInjective
  <1> HIDE DEF f
  <1> QED BY <1>1, StoreKeysAssumption, FS_Injection

\* _best_quote picks one of its candidates, and none is better: price, time and
\* key order them totally.
LEMMA BestIsOptimal ==
  ASSUME NEW quotes, Keyed(quotes), quotes # {}
  PROVE  /\ BestQuote(quotes) \in quotes
         /\ \A other \in quotes \ {BestQuote(quotes)} : ~BetterQuote(other, BestQuote(quotes))
  <1> DEFINE R == {p \in quotes \X quotes : BetterQuote(p[1], p[2])}
  <1>1. \A q \in quotes : /\ EffectiveAt(q) \in Int /\ Price[q.offer] \in Int
                          /\ q.key \in Nat
    BY QuoteNumbers DEF Keyed
  <1>2. \A q, r \in quotes : <<q, r>> \in R <=> BetterQuote(q, r)
    OBVIOUS
  <1>3. \A q \in quotes : ~BetterQuote(q, q)
    BY <1>1 DEF BetterQuote
  <1>4. \A x, y, z \in quotes : BetterQuote(x, y) /\ BetterQuote(y, z) => BetterQuote(x, z)
    BY <1>1 DEF BetterQuote
  <1>5. IsFiniteSet(quotes)
    BY KeyedIsFinite
  <1> HIDE DEF R
  <1>6. \E q \in quotes : \A other \in quotes : <<other, q>> \notin R
    BY <1>2, <1>3, <1>4, <1>5, FiniteMinimal
  <1>7. \E q \in quotes : \A other \in quotes \ {q} : ~BetterQuote(other, q)
    BY <1>2, <1>6
  <1> QED BY <1>7 DEF BestQuote

\* Every leg of a reported opportunity is one of the eligible quotes, inside
\* the freshness window, and the event has not started.
LEMMA OpportunityLegs ==
  ASSUME NEW quotes, Keyed(quotes), NEW moment \in Int
  PROVE  /\ Opportunities(quotes, moment) \subseteq [Selections -> quotes]
         /\ Opportunities(quotes, moment) # {} => EventStart > moment
         /\ \A o \in Opportunities(quotes, moment), s \in Selections :
              /\ o[s].ingested <= moment
              /\ moment - EffectiveAt(o[s]) \in 0..FreshnessWindow
  <1> DEFINE able == BookEligible(quotes, moment)
  <1>1. SUFFICES ASSUME NEW o \in Opportunities(quotes, moment)
                 PROVE  /\ o \in [Selections -> able]
                        /\ EventStart > moment
    BY DEF BookEligible
  <1>2. o = Book(able) /\ BookExists(able, moment)
    BY DEF Opportunities
  <1>3. ASSUME NEW s \in Selections PROVE BestQuote(Candidates(able, s)) \in able
    <2>1. Candidates(able, s) # {} /\ Candidates(able, s) \subseteq able
      BY <1>2 DEF BookExists, Candidates
    <2>2. Keyed(Candidates(able, s))
      BY DEF Candidates, BookEligible, Keyed
    <2> QED BY <2>1, <2>2, BestIsOptimal
  <1> QED BY <1>2, <1>3 DEF Book, BookExists

\* Consolidation selects among its input, one quote of each slot.
LEMMA ConsolidatedIsChoice ==
  ASSUME NEW quotes, Keyed(quotes)
  PROVE  /\ ConsolidateQuotes(quotes) \subseteq quotes
         /\ \A q, r \in ConsolidateQuotes(quotes) : SlotOf[q.key] = SlotOf[r.key] => q = r
  <1>1. ASSUME NEW slot, NEW q \in Consolidated(quotes, slot)
        PROVE  /\ q \in quotes /\ SlotOf[q.key] = slot
               /\ \A r \in Consolidated(quotes, slot) : q.key <= r.key
    BY DEF Consolidated, NewestOf
  <1>2. ASSUME NEW q \in ConsolidateQuotes(quotes)
        PROVE  q \in quotes /\ q \in Consolidated(quotes, SlotOf[q.key])
    <2>1. PICK slot \in {SlotOf[r.key] : r \in quotes} : q \in Consolidated(quotes, slot)
      BY DEF ConsolidateQuotes
    <2> QED BY <1>1, <2>1
  <1>3. ASSUME NEW q \in ConsolidateQuotes(quotes), NEW r \in ConsolidateQuotes(quotes),
               SlotOf[q.key] = SlotOf[r.key]
        PROVE  q = r
    <2>1. q \in quotes /\ r \in quotes /\ q.key <= r.key /\ r.key <= q.key
      BY <1>1, <1>2, <1>3
    <2>2. q.key \in Nat /\ r.key \in Nat
      BY <2>1, QuoteNumbers DEF Keyed
    <2> QED BY <2>1, <2>2 DEF Keyed
  <1> QED BY <1>2, <1>3

\* Consolidation gives up a slot only when its newest observations disagree on
\* the price, and otherwise never for an older observation.
LEMMA ConsolidatedKeepsSlot ==
  ASSUME NEW quotes, Keyed(quotes), NEW quote \in quotes
  PROVE  \/ \E q \in ConsolidateQuotes(quotes) :
              SlotOf[q.key] = SlotOf[quote.key] /\ EffectiveAt(q) >= EffectiveAt(quote)
         \/ \E q, r \in quotes :
              /\ SlotOf[q.key] = SlotOf[quote.key] /\ SlotOf[r.key] = SlotOf[quote.key]
              /\ EffectiveAt(q) = EffectiveAt(r)
              /\ EffectiveAt(q) >= EffectiveAt(quote)
              /\ Price[q.offer] # Price[r.offer]
  <1> DEFINE slot == SlotOf[quote.key]
             obs == {q \in quotes : SlotOf[q.key] = slot}
             newest == NewestOf(obs)
             R == {p \in obs \X obs : EffectiveAt(p[1]) > EffectiveAt(p[2])}
             K == {p \in newest \X newest : p[1].key < p[2].key}
  <1>1. \A q \in quotes : EffectiveAt(q) \in Int /\ q.key \in Nat
    BY QuoteNumbers DEF Keyed
  <1>2. IsFiniteSet(obs) /\ quote \in obs /\ obs \subseteq quotes
    BY KeyedIsFinite, FS_Subset
  <1>3. newest # {}
    <2>1. \A q, r \in obs : <<q, r>> \in R <=> EffectiveAt(q) > EffectiveAt(r)
      OBVIOUS
    <2> HIDE DEF R, obs
    <2>2. /\ \A x \in obs : <<x, x>> \notin R
          /\ \A x, y, z \in obs : <<x, y>> \in R /\ <<y, z>> \in R => <<x, z>> \in R
      BY <1>1, <1>2, <2>1
    <2>3. \E q \in obs : \A other \in obs : <<other, q>> \notin R
      BY <1>2, <2>2, FiniteMinimal
    <2>4. PICK q \in obs : \A other \in obs : <<other, q>> \notin R
      BY <2>3
    <2>5. ASSUME NEW other \in obs PROVE EffectiveAt(other) <= EffectiveAt(q)
      <3>1. EffectiveAt(other) \in Int /\ EffectiveAt(q) \in Int
        BY <1>1, <1>2, <2>4
      <3>2. ~(EffectiveAt(other) > EffectiveAt(q))
        BY <2>1, <2>4
      <3> QED BY <3>1, <3>2
    <2> QED BY <2>4, <2>5 DEF NewestOf
  <1>4. newest \subseteq obs /\ \A q \in newest, other \in obs : EffectiveAt(other) <= EffectiveAt(q)
    BY DEF NewestOf
  <1>5. CASE \A q, other \in newest : Price[q.offer] = Price[other.offer]
    <2>1. IsFiniteSet(newest)
      BY <1>2, <1>4, FS_Subset
    <2>2. \A q, r \in newest : <<q, r>> \in K <=> q.key < r.key
      OBVIOUS
    <2> HIDE DEF K, newest, obs
    <2>3. /\ \A x \in newest : <<x, x>> \notin K
          /\ \A x, y, z \in newest : <<x, y>> \in K /\ <<y, z>> \in K => <<x, z>> \in K
      BY <1>1, <1>2, <1>4, <2>2
    <2>4. \E q \in newest : \A other \in newest : <<other, q>> \notin K
      BY <1>3, <2>1, <2>3, FiniteMinimal
    <2>5. PICK q \in newest : \A other \in newest : <<other, q>> \notin K
      BY <2>4
    <2>6. ASSUME NEW other \in newest PROVE q.key <= other.key
      <3>1. other.key \in Nat /\ q.key \in Nat
        BY <1>1, <1>2, <1>4, <2>5
      <3>2. ~(other.key < q.key)
        BY <2>2, <2>5
      <3> QED BY <3>1, <3>2
    <2>7. q \in Consolidated(quotes, slot) /\ slot \in {SlotOf[r.key] : r \in quotes}
      BY <1>5, <2>6 DEF Consolidated, newest, obs
    <2>8. q \in ConsolidateQuotes(quotes)
      BY <2>7 DEF ConsolidateQuotes
    <2>9. SlotOf[q.key] = slot /\ EffectiveAt(q) >= EffectiveAt(quote)
      BY <1>1, <1>2, <1>4 DEF obs
    <2> QED BY <2>8, <2>9
  <1>6. CASE \E q, r \in newest : Price[q.offer] # Price[r.offer]
    <2>1. PICK q \in newest, r \in newest : Price[q.offer] # Price[r.offer]
      BY <1>6
    <2>2. q \in obs /\ r \in obs
      BY <1>4
    <2> HIDE DEF newest
    <2>3. EffectiveAt(q) = EffectiveAt(r) /\ EffectiveAt(q) >= EffectiveAt(quote)
      BY <1>1, <1>2, <1>4, <2>2
    <2> QED BY <2>1, <2>2, <2>3
  <1> QED BY <1>5, <1>6

-----------------------------------------------------------------------------
(* The inductive invariant of the scanner.                                 *)

\* A stored version is a version of its own key.
LEMMA StoredQuotes ==
  ASSUME Store!IInv, NEW S \in SUBSET Store!Stored
  PROVE  /\ Keyed({current[k].quote : k \in S})
         /\ \A k \in S : k \in Keys /\ current[k].quote.key = k /\ current[k].quote \in Store!Quote
  <1>1. ASSUME NEW k \in S
        PROVE  k \in Keys /\ current[k].quote.key = k /\ current[k].quote \in Store!Quote
    <2>1. k \in Keys /\ current[k] # NoVersion /\ k \in Store!Stored
      BY DEF Store!Stored
    <2>2. current[k] \in Store!Version
      BY <2>1 DEF Store!IInv, Store!TypeOK
    <2> QED BY <2>1, <2>2 DEF Store!IInv, Store!NoImpossibleVersion, Store!Version
  <1> QED BY <1>1 DEF Keyed

\* The quotes of the live state are one for each key, and what a cycle offers
\* is chosen among them, one of each slot.
LEMMA FreshQuotesKeyed ==
  Store!IInv =>
    /\ Keyed(FreshQuotes)
    /\ Keyed(Offered)
    /\ Offered \subseteq FreshQuotes
    /\ \A q, r \in Offered : SlotOf[q.key] = SlotOf[r.key] => q = r
  <1> SUFFICES ASSUME Store!IInv
               PROVE  /\ Keyed(FreshQuotes)
                      /\ Keyed(Offered)
                      /\ Offered \subseteq FreshQuotes
                      /\ \A q, r \in Offered : SlotOf[q.key] = SlotOf[r.key] => q = r
    OBVIOUS
  <1> DEFINE S == Store!FreshKeys(observed) \ invalidated
  <1>1. S \in SUBSET Store!Stored
    BY DEF Store!FreshKeys
  <1> HIDE DEF S
  <1>2. Keyed({current[k].quote : k \in S})
    BY <1>1, StoredQuotes
  <1>3. Keyed(FreshQuotes)
    BY <1>2 DEF FreshQuotes, S
  <1>4. CASE MultiSource
    BY <1>3, <1>4, ConsolidatedIsChoice DEF Keyed, Offered
  <1>5. CASE ~MultiSource
    BY <1>3, <1>5, SlotsAssumption, QuoteNumbers DEF Keyed, Offered
  <1> QED BY <1>3, <1>4, <1>5

\* The keys _explicit_inactive_quote_keys returns are those some report calls
\* inactive.
LEMMA ExplicitIsReported ==
  ASSUME NEW reports \in Polls
  PROVE  /\ ExplicitInactiveKeys(reports) \subseteq Keys
         /\ \A k : k \in ExplicitInactiveKeys(reports) <=> ReportedInactive(reports, k)
  <1>1. \A r \in reports : r \in Report
    BY PollsAssumption
  <1>2. ASSUME NEW r \in reports, NEW s \in Selections
        PROVE  /\ KeyOf[<<r.transport, r.provider, s>>] \in Keys
               /\ s \in InactiveSelections(r) <=> ~r.active \/ r.offers[s] = "inactive"
    BY <1>1, KeyOfAssumption DEF Report, InactiveSelections
  <1>3. \A r \in reports : InactiveSelections(r) \subseteq Selections
    BY DEF InactiveSelections
  <1>4. ASSUME NEW k
        PROVE  k \in ExplicitInactiveKeys(reports) <=>
               \E r \in reports : \E s \in InactiveSelections(r) :
                 k = KeyOf[<<r.transport, r.provider, s>>]
    BY DEF ExplicitInactiveKeys
  <1>5. ASSUME NEW k \in ExplicitInactiveKeys(reports)
        PROVE  k \in Keys /\ ReportedInactive(reports, k)
    <2>1. PICK r \in reports :
            \E s \in InactiveSelections(r) : k = KeyOf[<<r.transport, r.provider, s>>]
      BY <1>4
    <2>2. PICK s \in InactiveSelections(r) : k = KeyOf[<<r.transport, r.provider, s>>]
      BY <2>1
    <2>3. s \in Selections
      BY <1>3, <2>2
    <2> QED BY <1>2, <2>2, <2>3 DEF ReportedInactive
  <1>6. ASSUME NEW k, ReportedInactive(reports, k)
        PROVE  k \in ExplicitInactiveKeys(reports)
    <2>1. PICK r \in reports, s \in Selections :
            /\ KeyOf[<<r.transport, r.provider, s>>] = k
            /\ ~r.active \/ r.offers[s] = "inactive"
      BY <1>6 DEF ReportedInactive
    <2>2. s \in InactiveSelections(r)
      BY <1>2, <2>1
    <2> QED BY <1>4, <2>1, <2>2
  <1> QED BY <1>5, <1>6

\* Nothing is eligible before the first cycle.
LEMMA InitScan ==
  ASSUME Init, Store!IInv
  PROVE  ScanInv
  <1>1. TypeOK
    BY DEF Init, TypeOK, Store!IInv
  <1>2. PhaseInv /\ MarkInv /\ OneQuotePerSlot
    BY DEF Init, Store!Init, PhaseInv, MarkInv, OneQuotePerSlot
  <1>3. FreshQuotes = {}
    <2>1. \A k \in Keys : current[k] = NoVersion
      BY DEF Init, Store!Init
    <2> QED BY <2>1 DEF FreshQuotes, Store!FreshKeys, Store!Stored
  <1>4. ConsolidateQuotes({}) = {}
    BY DEF ConsolidateQuotes
  <1>5. Opportunities({}, observed) = {}
    <2>1. BookEligible({}, observed) = {} /\ \A s \in Selections : Candidates({}, s) = {}
      BY DEF BookEligible, Candidates
    <2>2. Selections = {} => ~(Cardinality(Selections) >= 2)
      BY FS_EmptySet
    <2>3. ~BookExists({}, observed)
      BY <2>1, <2>2 DEF BookExists
    <2> QED BY <2>1, <2>3 DEF Opportunities
  <1>6. ResultInv
    BY <1>3, <1>4, <1>5 DEF ResultInv, Offered, Init
  <1> QED BY <1>1, <1>2, <1>6 DEF ScanInv

\* The poll returned: marks and history move together.
LEMMA DetectKeeps ==
  ASSUME ScanInv, Store!IInv, Store!IInv', NEW reports \in Polls, Detect(reports)
  PROVE  ScanInv'
  <1>1. /\ phase = "waiting" /\ phase' = "applying"
        /\ observed' = now /\ now' = now /\ current' = current /\ before' = current
        /\ eligible' = eligible /\ opportunities' = opportunities
        /\ explicit' = ExplicitInactiveKeys(reports)
        /\ invalidated' = IF MultiSource THEN invalidated \cup explicit' ELSE invalidated
        /\ lastWord' = [k \in Keys |-> IF ReportedInactive(reports, k) THEN "inactive" ELSE lastWord[k]]
    BY DEF Detect, Store!Apply
  <1>2. TypeOK'
    BY <1>1, ExplicitIsReported DEF ScanInv, TypeOK, Store!IInv
  <1>3. PhaseInv' /\ ResultInv' /\ OneQuotePerSlot'
    <2>1. \A q \in batch' : q.status = "active"
      BY NormalizedType DEF Detect, Store!Apply
    <2> QED BY <1>1, <2>1 DEF ScanInv, PhaseInv, ResultInv, Settled, OneQuotePerSlot
  <1>4. MarkInv'
    BY <1>1, ExplicitIsReported DEF ScanInv, MarkInv, TypeOK
  <1> QED BY <1>2, <1>3, <1>4 DEF ScanInv

\* One iteration of apply: only the key of the quote is touched, and the mark
\* of a multi-source key is lifted exactly when its version is replaced.
LEMMA ApplyOneKeeps ==
  ASSUME ScanInv, Store!IInv, Store!IInv', ApplyOne
  PROVE  ScanInv'
  <1>1. /\ phase = "applying" /\ phase' = phase /\ explicit' = explicit
        /\ eligible' = eligible /\ opportunities' = opportunities
    BY DEF ApplyOne
  <1> DEFINE accepted(q) == Store!Accepts(current[q.key], q, observed)
             Word(q, word) ==
               CASE accepted(q) /\ (MultiSource \/ q.key \notin explicit) -> "quoted"
                 [] /\ current[q.key] # NoVersion
                    /\ ~Store!Impossible(q, observed)
                    /\ Store!Duplicate(current[q.key], q)
                    /\ q.key \notin explicit
                    /\ word = "inactive" -> "repeated"
                 [] OTHER -> word
  <1>2. PICK quote \in pending :
          /\ Store!ApplyQuote(quote)
          /\ invalidated' = invalidated \ LiftedBy(quote)
          /\ lastWord' = [lastWord EXCEPT ![quote.key] = Word(quote, @)]
    BY DEF ApplyOne
  <1>3. /\ now' = now /\ observed' = observed /\ batch' = batch /\ before' = before
        /\ current' = IF accepted(quote)
                      THEN [current EXCEPT ![quote.key] =
                              Store!NextVersion(current[quote.key], quote, observed)]
                      ELSE current
    BY <1>2 DEF Store!ApplyQuote
  <1>4. quote \in batch /\ quote.key \in Keys
    BY <1>2 DEF Store!IInv, Store!TypeOK, Store!Quote
  <1>5. ASSUME NEW word \in {"inactive", "repeated", "quoted"}
        PROVE  /\ Word(quote, word) \in {"inactive", "repeated", "quoted"}
               /\ Word(quote, word) = "quoted" =>
                    \/ accepted(quote) /\ (MultiSource \/ quote.key \notin explicit)
                    \/ word = "quoted"
               /\ Word(quote, word) = "inactive" =>
                    word = "inactive" /\ ~(MultiSource /\ accepted(quote))
    OBVIOUS
  <1> HIDE DEF Word
  <1>6. /\ quote.status = "active"
        /\ LiftedBy(quote) = IF MultiSource /\ accepted(quote) THEN {quote.key} ELSE {}
    BY <1>4 DEF ScanInv, PhaseInv, LiftedBy
  <1>7. DOMAIN lastWord = Keys /\ \A k \in Keys : lastWord[k] \in {"inactive", "repeated", "quoted"}
    BY DEF ScanInv, TypeOK
  <1>8. ASSUME NEW k \in Keys, k # quote.key
        PROVE  lastWord'[k] = lastWord[k] /\ current'[k] = current[k] /\ (k \in invalidated' <=> k \in invalidated)
    BY <1>2, <1>3, <1>4, <1>6, <1>7, <1>8
  <1>9. lastWord'[quote.key] = Word(quote, lastWord[quote.key])
    BY <1>2, <1>4, <1>7
  <1>10. TypeOK'
    <2>1. lastWord' \in [Keys -> {"inactive", "repeated", "quoted"}]
      BY <1>2, <1>4, <1>5, <1>7 DEF ScanInv, TypeOK
    <2> QED BY <1>1, <1>2, <2>1 DEF ScanInv, TypeOK, Store!IInv
  <1>11. PhaseInv' /\ ResultInv' /\ OneQuotePerSlot'
    BY <1>1, <1>3 DEF ScanInv, PhaseInv, ResultInv, Settled, OneQuotePerSlot
  <1>12. MarkInv'
    <2> SUFFICES ASSUME NEW k \in Keys
                 PROVE  IF MultiSource
                        THEN /\ lastWord'[k] = "inactive" => k \in invalidated' \/ current'[k] = NoVersion
                             /\ lastWord'[k] = "quoted" => k \notin invalidated'
                             /\ phase' = "applying" /\ current'[k] # before'[k] => k \notin invalidated'
                        ELSE lastWord'[k] = "quoted" =>
                               /\ phase' = "applying" => k \notin explicit'
                               /\ k \in invalidated' => phase' = "applying" /\ \E q \in batch' : q.key = k
      BY DEF MarkInv
    <2>1. CASE k # quote.key
      BY <1>1, <1>3, <1>8, <2>1 DEF ScanInv, MarkInv
    <2>2. CASE k = quote.key /\ MultiSource
      <3>1. CASE accepted(quote)
        BY <1>2, <1>3, <1>5, <1>6, <1>7, <1>9, <2>2, <3>1
      <3>2. CASE ~accepted(quote)
        BY <1>1, <1>2, <1>3, <1>5, <1>6, <1>7, <1>9, <2>2, <3>2 DEF ScanInv, MarkInv
      <3> QED BY <3>1, <3>2
    <2>3. CASE k = quote.key /\ ~MultiSource
      BY <1>1, <1>2, <1>3, <1>4, <1>5, <1>6, <1>7, <1>9, <2>3 DEF ScanInv, MarkInv
    <2> QED BY <2>1, <2>2, <2>3
  <1> QED BY <1>10, <1>11, <1>12 DEF ScanInv

\* The end of the cycle: the results are those of the state it leaves.
LEMMA ConcludeKeeps ==
  ASSUME ScanInv, Store!IInv, Store!IInv', Conclude
  PROVE  ScanInv'
  <1>1. /\ phase = "applying" /\ pending = {} /\ phase' = "waiting" /\ explicit' = {}
        /\ lastWord' = lastWord /\ now' = now /\ observed' = observed /\ pending' = pending
        /\ batch' = {}
        /\ current' = [k \in Keys |-> IF k \in Store!EvictedKeys(now) THEN NoVersion ELSE current[k]]
        /\ invalidated' = UpdatedInvalidations \ Store!EvictedKeys(now)
        /\ eligible' = EligibleQuotes'
        /\ opportunities' = Opportunities(eligible', now)
    BY DEF Conclude, Store!EvictStale
  <1>2. now = observed
    BY <1>1 DEF ScanInv, PhaseInv
  <1>3. eligible' = Offered'
    <2>1. LiveKeys' = Store!FreshKeys(observed)' \ invalidated'
      BY <1>1, <1>2 DEF LiveKeys, Store!FreshKeys, Store!Stored, Store!Effective, Store!Expired
    <2> QED BY <1>1, <2>1 DEF EligibleQuotes, FreshQuotes, Offered
  <1>4. (Store!IInv =>
           /\ Keyed(FreshQuotes)
           /\ Keyed(Offered)
           /\ Offered \subseteq FreshQuotes
           /\ \A q, r \in Offered : SlotOf[q.key] = SlotOf[r.key] => q = r)'
    BY FreshQuotesKeyed, PTL
  <1>5. Keyed(eligible') /\ OneQuotePerSlot'
    BY <1>3, <1>4 DEF OneQuotePerSlot, Keyed
  <1>6. UpdatedInvalidations \subseteq Keys
    BY DEF ScanInv, TypeOK, UpdatedInvalidations
  <1>7. TypeOK'
    <2>1. opportunities' \subseteq [Selections -> eligible'] /\ eligible' \subseteq Store!Quote
      <3>1. now \in Int
        BY DEF Store!IInv, Store!TypeOK
      <3> QED BY <1>1, <1>5, <3>1, OpportunityLegs DEF Keyed
    <2> QED BY <1>1, <1>6, <2>1 DEF ScanInv, TypeOK, Store!IInv
  <1>8. PhaseInv' /\ ResultInv'
    BY <1>1, <1>2, <1>3 DEF PhaseInv, ResultInv
  <1>9. MarkInv'
    BY <1>1, <1>6 DEF ScanInv, MarkInv, UpdatedInvalidations, TypeOK
  <1> QED BY <1>5, <1>7, <1>8, <1>9 DEF ScanInv

\* The inductive invariant holds in every reachable state.
THEOREM ScanInvariance == Spec => []ScanInv
  <1>1. Init /\ Store!IInv => ScanInv
    BY InitScan
  <1>2. ScanInv /\ Store!IInv /\ Store!IInv' /\ [Next]_vars => ScanInv'
    <2> SUFFICES ASSUME ScanInv, Store!IInv, Store!IInv', [Next]_vars PROVE ScanInv'
      OBVIOUS
    <2>1. CASE Tick
      BY <2>1 DEF Tick, Store!Tick, ScanInv, TypeOK, Store!IInv, PhaseInv, MarkInv, ResultInv,
                  Settled, OneQuotePerSlot, Offered, FreshQuotes, Store!FreshKeys, Store!Stored,
                  Store!Expired, Store!Effective
    <2>2. ASSUME NEW reports \in Polls, Detect(reports) PROVE ScanInv'
      BY <2>2, DetectKeeps
    <2>3. CASE ApplyOne
      BY <2>3, ApplyOneKeeps
    <2>4. CASE Conclude
      BY <2>4, ConcludeKeeps
    <2>5. CASE UNCHANGED vars
      BY <2>5 DEF vars, storeVars, ScanInv, TypeOK, Store!IInv, PhaseInv, MarkInv, ResultInv,
                  Settled, OneQuotePerSlot, Offered, FreshQuotes, Store!FreshKeys, Store!Stored,
                  Store!Expired, Store!Effective
    <2> QED BY <2>1, <2>2, <2>3, <2>4, <2>5 DEF Next
  <1> QED BY <1>1, <1>2, StoreInvariant, PTL DEF Spec

-----------------------------------------------------------------------------
(* What the scanner promises.                                              *)

\* The state of a scanner keeps its type; every leg of an opportunity is one
\* of the eligible quotes.
THEOREM ScannerTypes == Spec => []TypeOK
  <1>1. ScanInv => TypeOK
    BY DEF ScanInv
  <1> QED BY <1>1, ScanInvariance, PTL

\* Two feeds of one bookmaker never put two prices into one slot of the book.
THEOREM SlotsAreUnique == Spec => []OneQuotePerSlot
  <1>1. ScanInv => OneQuotePerSlot
    BY DEF ScanInv
  <1> QED BY <1>1, ScanInvariance, PTL

\* What is eligible between cycles: the versions held for the live keys.
LEMMA EligibleIsLive ==
  ASSUME ScanInv, Store!IInv, Settled, NEW q \in eligible
  PROVE  /\ q.key \in Store!FreshKeys(observed) \ invalidated
         /\ q.key \in Keys
         /\ current[q.key] # NoVersion
         /\ current[q.key].quote = q
  <1>1. eligible = Offered
    BY DEF ScanInv, ResultInv
  <1>2. q \in FreshQuotes
    BY <1>1, FreshQuotesKeyed
  <1>3. PICK k \in Store!FreshKeys(observed) \ invalidated : q = current[k].quote
    BY <1>2 DEF FreshQuotes
  <1>4. k \in Store!Stored /\ k \in Keys /\ current[k] # NoVersion
    BY <1>3 DEF Store!FreshKeys, Store!Stored
  <1>5. q.key = k
    BY <1>3, <1>4 DEF Store!IInv, Store!NoImpossibleVersion
  <1> QED BY <1>3, <1>4, <1>5

\* The same for every eligible quote, as a formula.
LEMMA EligibleKeysLive ==
  ScanInv /\ Store!IInv /\ Settled =>
    \A r \in eligible : /\ r.key \in Keys /\ r.key \notin invalidated
                        /\ current[r.key] # NoVersion
  BY EligibleIsLive

\* A multi-source scanner never offers an old copy of a quote that its
\* transport has since reported inactive: the mark set before apply is lifted
\* only by an accepted version.
THEOREM SuspensionHolds ==
  ASSUME MultiSource
  PROVE  Spec => []SuspendedNotEligible
  <1>1. ASSUME ScanInv, Store!IInv PROVE SuspendedNotEligible
    <2> SUFFICES ASSUME Settled, NEW q \in eligible PROVE lastWord[q.key] # "inactive"
      BY DEF SuspendedNotEligible, EligibleKeys
    <2>1. q.key \in Keys /\ q.key \notin invalidated /\ current[q.key] # NoVersion
      BY <1>1, EligibleIsLive
    <2> QED BY <1>1, <2>1, MultiSource DEF ScanInv, MarkInv
  <1>2. ScanInv /\ Store!IInv => SuspendedNotEligible
    BY <1>1
  <1> QED BY <1>2, ScanInvariance, StoreInvariant, PTL

\* Both scanners keep a slot executable while a fresh observation of it stands
\* that its transport has not reported inactive.
THEOREM SlotsSurvive == Spec => []SlotSurvives
  <1>1. ASSUME ScanInv, Store!IInv PROVE SlotSurvives
    <2> SUFFICES ASSUME Settled, NEW k \in Keys, current[k] # NoVersion,
                        k \in Store!FreshKeys(observed), lastWord[k] = "quoted"
                 PROVE  \/ \E q \in eligible : /\ SlotOf[q.key] = SlotOf[k]
                                               /\ EffectiveAt(q) >= EffectiveAt(current[k].quote)
                        \/ /\ MultiSource
                           /\ \E i, j \in Store!FreshKeys(observed) \ invalidated :
                                /\ SlotOf[i] = SlotOf[k] /\ SlotOf[j] = SlotOf[k]
                                /\ EffectiveAt(current[i].quote) = EffectiveAt(current[j].quote)
                                /\ EffectiveAt(current[i].quote) >= EffectiveAt(current[k].quote)
                                /\ Price[current[i].quote.offer] # Price[current[j].quote.offer]
      BY DEF SlotSurvives
    <2> DEFINE quote == current[k].quote
    <2>1. eligible = Offered /\ Keyed(FreshQuotes)
      BY <1>1, FreshQuotesKeyed DEF ScanInv, ResultInv
    <2>2. k \notin invalidated
      BY <1>1 DEF ScanInv, MarkInv, Settled
    <2>3. quote \in FreshQuotes
      BY <2>2 DEF FreshQuotes
    <2>4. ASSUME NEW l \in Store!FreshKeys(observed)
          PROVE  current[l].quote.key = l
      BY <1>1 DEF Store!IInv, Store!NoImpossibleVersion, Store!FreshKeys
    <2>5. quote.key = k /\ EffectiveAt(quote) \in Int
      BY <2>1, <2>3, <2>4, QuoteNumbers DEF Keyed
    <2>6. CASE ~MultiSource
      BY <2>1, <2>3, <2>5, <2>6 DEF Offered
    <2>7. CASE MultiSource
      <3>1. CASE \E q \in ConsolidateQuotes(FreshQuotes) :
                   SlotOf[q.key] = SlotOf[k] /\ EffectiveAt(q) >= EffectiveAt(quote)
        BY <2>1, <2>7, <3>1 DEF Offered
      <3>2. CASE \E q, r \in FreshQuotes :
                   /\ SlotOf[q.key] = SlotOf[k] /\ SlotOf[r.key] = SlotOf[k]
                   /\ EffectiveAt(q) = EffectiveAt(r)
                   /\ EffectiveAt(q) >= EffectiveAt(quote)
                   /\ Price[q.offer] # Price[r.offer]
        <4>1. PICK q \in FreshQuotes, r \in FreshQuotes :
                   /\ SlotOf[q.key] = SlotOf[k] /\ SlotOf[r.key] = SlotOf[k]
                   /\ EffectiveAt(q) = EffectiveAt(r)
                   /\ EffectiveAt(q) >= EffectiveAt(quote)
                   /\ Price[q.offer] # Price[r.offer]
          BY <3>2
        <4>2. PICK i \in Store!FreshKeys(observed) \ invalidated : q = current[i].quote
          BY <4>1 DEF FreshQuotes
        <4>3. PICK j \in Store!FreshKeys(observed) \ invalidated : r = current[j].quote
          BY <4>1 DEF FreshQuotes
        <4>4. q.key = i /\ r.key = j
          BY <2>4, <4>2, <4>3
        <4> QED BY <2>7, <4>1, <4>2, <4>3, <4>4
      <3>3. \/ \E q \in ConsolidateQuotes(FreshQuotes) :
                   SlotOf[q.key] = SlotOf[k] /\ EffectiveAt(q) >= EffectiveAt(quote)
            \/ \E q, r \in FreshQuotes :
                   /\ SlotOf[q.key] = SlotOf[k] /\ SlotOf[r.key] = SlotOf[k]
                   /\ EffectiveAt(q) = EffectiveAt(r)
                   /\ EffectiveAt(q) >= EffectiveAt(quote)
                   /\ Price[q.offer] # Price[r.offer]
        <4> HIDE DEF quote
        <4> QED BY <2>1, <2>3, <2>5, ConsolidatedKeepsSlot
      <3> QED BY <3>1, <3>2, <3>3
    <2> QED BY <2>6, <2>7
  <1>2. ScanInv /\ Store!IInv => SlotSurvives
    BY <1>1
  <1> QED BY <1>2, ScanInvariance, StoreInvariant, PTL

\* A reported opportunity is made of versions the store holds, each live at
\* the time of detection.
THEOREM OpportunitiesAreLive == Spec => []OpportunityIsLive
  <1>1. ASSUME ScanInv, Store!IInv PROVE OpportunityIsLive
    <2> SUFFICES ASSUME Settled, NEW o \in opportunities, NEW s \in Selections
                 PROVE  /\ current[o[s].key] # NoVersion /\ current[o[s].key].quote = o[s]
                        /\ o[s].key \notin invalidated
                        /\ o[s].ingested <= observed
                        /\ EffectiveAt(o[s]) \in (observed - FreshnessWindow)..observed
                        /\ observed < EventStart
      BY DEF OpportunityIsLive
    <2>1. eligible = Offered /\ opportunities = Opportunities(eligible, observed)
      BY <1>1 DEF ScanInv, ResultInv
    <2>2. Keyed(eligible) /\ observed \in Int
      BY <1>1, <2>1, FreshQuotesKeyed DEF Store!IInv, Store!TypeOK
    <2>3. /\ o \in [Selections -> eligible]
          /\ EventStart > observed
          /\ o[s].ingested <= observed
          /\ observed - EffectiveAt(o[s]) \in 0..FreshnessWindow
      BY <2>1, <2>2, OpportunityLegs
    <2>4. o[s] \in eligible
      BY <2>3
    <2>5. EffectiveAt(o[s]) \in Int
      BY <2>2, <2>4, QuoteNumbers DEF Keyed
    <2>6. /\ o[s].key \notin invalidated
          /\ current[o[s].key] # NoVersion /\ current[o[s].key].quote = o[s]
      BY <1>1, <2>4, EligibleIsLive
    <2>7. EffectiveAt(o[s]) \in (observed - FreshnessWindow)..observed
      BY <2>2, <2>3, <2>5, StorePolicyAssumption
    <2>8. observed < EventStart
      BY <2>3
    <2> QED BY <2>3, <2>6, <2>7, <2>8
  <1>2. ScanInv /\ Store!IInv => OpportunityIsLive
    BY <1>1
  <1> QED BY <1>2, ScanInvariance, StoreInvariant, PTL

\* A key whose version changed in this cycle has a quote in the batch (from
\* ApplyOutcome of the store).
LEMMA ChangedKeyWasQuoted ==
  ASSUME Store!IInv, NEW k \in Keys, current[k] # before[k]
  PROVE  \E q \in batch : q.key = k
  <1>1. \E q \in Store!Handled(k) : Store!Accepts(before[k], q, observed)
    BY DEF Store!IInv, Store!ApplyOutcome
  <1> QED BY <1>1 DEF Store!Handled

\* A key that gets a new version, and that no report of the cycle calls
\* inactive, is live at the end of that very cycle.
THEOREM QuotedKeysResume == Spec => ResumesAtOnce
  <1>1. ASSUME ScanInv, Store!IInv, Conclude, NEW k \in Store!FreshKeys(now)',
               current[k] # before[k], k \notin explicit
        PROVE  k \in LiveKeys'
    <2>1. k \in Keys
      BY <1>1 DEF Store!FreshKeys, Store!Stored
    <2>2. phase = "applying" /\ invalidated' = UpdatedInvalidations \ Store!EvictedKeys(now)
      BY <1>1 DEF Conclude
    <2>3. CASE MultiSource
      <3>1. k \notin invalidated
        BY <1>1, <2>1, <2>2, <2>3 DEF ScanInv, MarkInv
      <3> QED BY <1>1, <2>2, <2>3, <3>1 DEF LiveKeys, UpdatedInvalidations
    <2>4. CASE ~MultiSource
      <3>1. k \in {q.key : q \in batch}
        BY <1>1, <2>1, ChangedKeyWasQuoted
      <3> QED BY <1>1, <2>2, <2>4, <3>1 DEF LiveKeys, UpdatedInvalidations
    <2> QED BY <2>3, <2>4
  <1>2. ScanInv /\ Store!IInv /\ [Next]_vars =>
          [Conclude => \A k \in Store!FreshKeys(now)' :
             current[k] # before[k] /\ k \notin explicit => k \in LiveKeys']_vars
    BY <1>1
  <1> QED BY <1>2, ScanInvariance, StoreInvariant, PTL DEF Spec, ResumesAtOnce

\* A single-source scanner takes a key out of the very cycle that reports it
\* inactive and keeps it out until a report of the key survives normalization.
THEOREM InactiveKeysLeave ==
  ASSUME ~MultiSource
  PROVE  Spec => ExplicitlyInactiveLeaves
  <1>1. ASSUME Store!IInv, Store!IInv', Conclude, ScanInv', NEW k \in EligibleKeys'
        PROVE  k \notin explicit \cup (invalidated \ {q.key : q \in batch})
    <2>1. PICK q \in eligible' : k = q.key
      BY <1>1 DEF EligibleKeys
    <2>2. /\ k \in Keys /\ k \notin invalidated' /\ current'[k] # NoVersion
      <3>1. (ScanInv /\ Store!IInv /\ Settled =>
               \A r \in eligible : /\ r.key \in Keys /\ r.key \notin invalidated
                                   /\ current[r.key] # NoVersion)'
        BY EligibleKeysLive, PTL
      <3>2. Settled'
        BY <1>1 DEF Conclude, Settled
      <3> QED BY <1>1, <2>1, <3>1, <3>2
    <2>3. /\ invalidated' = UpdatedInvalidations \ Store!EvictedKeys(now)
          /\ current' = [l \in Keys |-> IF l \in Store!EvictedKeys(now) THEN NoVersion ELSE current[l]]
      BY <1>1 DEF Conclude, Store!EvictStale
    <2>4. k \notin Store!EvictedKeys(now)
      BY <2>2, <2>3
    <2>5. k \notin UpdatedInvalidations
      BY <2>2, <2>3, <2>4
    <2> QED BY <2>5, ~MultiSource DEF UpdatedInvalidations
  <1>2. Store!IInv /\ Store!IInv' /\ ScanInv' /\ [Next]_vars =>
          [Conclude => \A k \in explicit \cup (invalidated \ {q.key : q \in batch}) :
                          k \notin EligibleKeys']_vars
    BY <1>1
  <1> QED BY <1>2, ScanInvariance, StoreInvariant, PTL DEF Spec, ExplicitlyInactiveLeaves

-----------------------------------------------------------------------------
(* The implied sum: products and sums over the selections.                 *)

\* Positive numbers have a positive product.
LEMMA PositiveProduct ==
  ASSUME NEW x \in Nat \ {0}, NEW y \in Nat \ {0}
  PROVE  x * y \in Nat \ {0}
  OBVIOUS

\* Dividing a product by a factor leaves the other.
LEMMA DivideProduct ==
  ASSUME NEW p \in Nat \ {0}, NEW k \in Nat
  PROVE  (p * k) \div p = k
  OBVIOUS

\* A product grows with its factor.
LEMMA MonotoneProduct ==
  ASSUME NEW x \in Nat, NEW y \in Nat, x <= y, NEW k \in Nat
  PROVE  x * k <= y * k
  OBVIOUS

\* A positive factor cancels out of a comparison.
LEMMA CancelProduct ==
  ASSUME NEW x \in Nat, NEW y \in Nat, NEW k \in Nat \ {0}
  PROVE  (x * k <= y * k => x <= y) /\ (x < y <=> x * k < y * k)
  OBVIOUS

\* Inequalities add up.
LEMMA SumOfInequalities ==
  ASSUME NEW x \in Int, NEW y \in Int, NEW u \in Int, NEW v \in Int, x <= y, u <= v
  PROVE  x + u <= y + v
  OBVIOUS

Pick(s) == CHOOSE x \in s : TRUE

\* f is the fold of the values a with op over the subsets of S.
Folds(f, S, V, base, op, a) ==
  /\ f \in [SUBSET S -> V]
  /\ \A s \in SUBSET S : f[s] = IF s = {} THEN base ELSE op[<<a[Pick(s)], f[s \ {Pick(s)}]>>]

\* Pick takes an element out of a set.
LEMMA PickIsElement ==
  ASSUME NEW S, NEW s \in SUBSET S, s # {}
  PROVE  Pick(s) \in s /\ Pick(s) \in S /\ s \ {Pick(s)} \in SUBSET S
  BY DEF Pick

\* A set of subsets of a finite set has a minimal element: the form in which
\* induction over finite sets is used here.
LEMMA MinimalSubset ==
  ASSUME NEW S, IsFiniteSet(S), NEW T \in SUBSET (SUBSET S), T # {}
  PROVE  \E s \in T : \A u \in T : ~(u \subseteq s /\ u # s)
  <1>1. IsWellFoundedOn(StrictSubsetOrdering(S), SUBSET S)
    BY FS_StrictSubsetOrderingWellFounded, FS_FiniteSubsetsOfFinite
  <1>2. PICK s \in T : \A u \in T : ~(<<u, s>> \in StrictSubsetOrdering(S))
    BY <1>1, WFMin
  <1>3. ASSUME NEW u \in T, u \subseteq s, u # s PROVE FALSE
    <2>1. <<u, s>> \in StrictSubsetOrdering(S)
      BY <1>3 DEF StrictSubsetOrdering
    <2> QED BY <1>2, <2>1
  <1> QED BY <1>3

\* The subsets of s without one of its elements are the ones a fold over s needs:
\* a fold over every smaller subset gives one over s.
LEMMA FoldExists ==
  ASSUME NEW S, IsFiniteSet(S), NEW V, NEW base \in V, NEW op \in [V \X V -> V], NEW a \in [S -> V]
  PROVE  \E f : Folds(f, S, V, base, op, a)
  <1> DEFINE upto(n) == {s \in SUBSET S : Cardinality(s) <= n}
             obeys(n) == \E f \in [upto(n) -> V] : \A s \in upto(n) :
                           f[s] = IF s = {} THEN base ELSE op[<<a[Pick(s)], f[s \ {Pick(s)}]>>]
             done == {s \in SUBSET S : ~obeys(Cardinality(s))}
  <1>1. \A s \in SUBSET S : IsFiniteSet(s) /\ Cardinality(s) \in Nat /\ Cardinality(s) <= Cardinality(S)
    BY FS_Subset, FS_CardinalityType
  <1>2. ASSUME NEW s \in SUBSET S, s # {} PROVE Cardinality(s \ {Pick(s)}) = Cardinality(s) - 1
    <2>1. Pick(s) \in s
      BY <1>2, PickIsElement
    <2>2. IsFiniteSet(s)
      BY <1>1
    <2> QED BY <2>1, <2>2, FS_RemoveElement
  <1>3. \A s \in SUBSET S : Cardinality(s) = 0 <=> s = {}
    BY <1>1, FS_EmptySet
  <1>4. obeys(0)
    <2> DEFINE f == [s \in upto(0) |-> base]
    <2>1. \A s \in upto(0) : s = {}
      BY <1>1, <1>3
    <2>2. f \in [upto(0) -> V]
      OBVIOUS
    <2> QED BY <2>1, <2>2
  <1>5. ASSUME NEW n \in Nat, obeys(n) PROVE obeys(n + 1)
    <2> PICK f \in [upto(n) -> V] : \A s \in upto(n) :
          f[s] = IF s = {} THEN base ELSE op[<<a[Pick(s)], f[s \ {Pick(s)}]>>]
      BY <1>5
    <2> DEFINE g == [s \in upto(n + 1) |->
                       IF s = {} THEN base ELSE op[<<a[Pick(s)], f[s \ {Pick(s)}]>>]]
    <2>1. \A s \in upto(n + 1) : s # {} => s \ {Pick(s)} \in upto(n) /\ Pick(s) \in S
      BY <1>1, <1>2, PickIsElement
    <2>2. g \in [upto(n + 1) -> V]
      BY <2>1
    <2>3. \A s \in upto(n) : s \in upto(n + 1) /\ g[s] = f[s]
      BY <1>1
    <2>4. \A s \in upto(n + 1) :
            g[s] = IF s = {} THEN base ELSE op[<<a[Pick(s)], g[s \ {Pick(s)}]>>]
      BY <2>1, <2>3
    <2> HIDE DEF g
    <2> QED BY <2>2, <2>4
  <1>6. obeys(Cardinality(S))
    <2> SUFFICES ASSUME done # {} PROVE FALSE
      OBVIOUS
    <2> HIDE DEF obeys
    <2>1. PICK s \in done : \A u \in done : ~(u \subseteq s /\ u # s)
      <3>1. done \in SUBSET (SUBSET S)
        OBVIOUS
      <3> HIDE DEF done
      <3> QED BY <3>1, MinimalSubset
    <2>2. s \in SUBSET S /\ s # {}
      BY <1>3, <1>4, <2>1
    <2> DEFINE u == s \ {Pick(s)}
    <2>3. u \in SUBSET S /\ u \subseteq s /\ u # s /\ Cardinality(u) = Cardinality(s) - 1
      BY <1>2, <2>2, PickIsElement
    <2>4. obeys(Cardinality(u)) /\ Cardinality(u) \in Nat /\ Cardinality(s) \in Nat
      BY <1>1, <2>1, <2>2, <2>3
    <2>5. obeys(Cardinality(u) + 1) /\ Cardinality(u) + 1 = Cardinality(s)
      BY <1>5, <2>3, <2>4
    <2> QED BY <2>1, <2>5
  <1>7. upto(Cardinality(S)) = SUBSET S
    BY <1>1
  <1>8. PICK f \in [SUBSET S -> V] : \A s \in SUBSET S :
          f[s] = IF s = {} THEN base ELSE op[<<a[Pick(s)], f[s \ {Pick(s)}]>>]
    BY <1>6, <1>7
  <1> QED BY <1>8 DEF Folds


\* The products and the sums of the values a over the subsets of S.
IsProduct(f, S, a) ==
  f = [s \in SUBSET S |-> IF s = {} THEN 1 ELSE a[Pick(s)] * f[s \ {Pick(s)}]]
IsSum(f, S, a) ==
  f = [s \in SUBSET S |-> IF s = {} THEN 0 ELSE a[Pick(s)] + f[s \ {Pick(s)}]]

\* A finite product of positive numbers, and every factor divides it.
LEMMA Products ==
  ASSUME NEW S, IsFiniteSet(S), NEW a \in [S -> Nat \ {0}],
         NEW f, IsProduct(f, S, a)
  PROVE  /\ f[S] \in Nat \ {0}
         /\ \A x \in S : \E k \in Nat : f[S] = a[x] * k
  <1> DEFINE good(s) == /\ f[s] \in Nat \ {0}
                        /\ \A x \in s : \E k \in Nat : f[s] = a[x] * k
             bad == {s \in SUBSET S : ~good(s)}
  <1>1. \A s \in SUBSET S : f[s] = IF s = {} THEN 1 ELSE a[Pick(s)] * f[s \ {Pick(s)}]
    BY DEF IsProduct
  <1> SUFFICES ASSUME bad # {} PROVE FALSE
    OBVIOUS
  <1> HIDE DEF good
  <1>2. PICK s \in bad : \A u \in bad : ~(u \subseteq s /\ u # s)
    <2>1. bad \in SUBSET (SUBSET S)
      OBVIOUS
    <2> HIDE DEF bad
    <2> QED BY <2>1, MinimalSubset
  <1>3. s \in SUBSET S /\ s # {}
    <2>1. f[{}] = 1
      BY <1>1
    <2>2. good({})
      BY <2>1 DEF good
    <2> QED BY <1>2, <2>2
  <1> DEFINE p == Pick(s)
             rest == s \ {p}
  <1>4. p \in s /\ p \in S /\ rest \in SUBSET S /\ rest # s
    BY <1>3, PickIsElement
  <1>5. good(rest)
    BY <1>2, <1>4
  <1>6. f[s] = a[p] * f[rest]
    BY <1>1, <1>3
  <1>7. a[p] \in Nat \ {0} /\ f[rest] \in Nat \ {0}
    BY <1>4, <1>5 DEF good
  <1>8. f[s] \in Nat \ {0}
    <2> HIDE DEF p, rest
    <2> QED BY <1>6, <1>7, PositiveProduct
  <1>9. ASSUME NEW x \in s PROVE \E k \in Nat : f[s] = a[x] * k
    <2>1. CASE x = p
      BY <1>6, <1>7, <2>1
    <2>2. CASE x \in rest
      <3>1. PICK k \in Nat : f[rest] = a[x] * k
        BY <1>5, <2>2 DEF good
      <3>2. a[x] \in Nat
        BY <1>3
      <3> HIDE DEF p, rest
      <3>3. f[s] = a[x] * (a[p] * k) /\ a[p] * k \in Nat
        BY <1>6, <1>7, <3>1, <3>2
      <3> QED BY <3>3
    <2> QED BY <2>1, <2>2
  <1> QED BY <1>2, <1>8, <1>9 DEF good

\* Two sums, term by term: of the sums of a and of b, scaled by c and by d, the
\* one with the larger terms is the larger.
LEMMA Sums ==
  ASSUME NEW S, IsFiniteSet(S), NEW a \in [S -> Nat], NEW b \in [S -> Nat],
         NEW c \in Nat, NEW d \in Nat, \A x \in S : a[x] * c <= b[x] * d,
         NEW f, IsSum(f, S, a),
         NEW g, IsSum(g, S, b)
  PROVE  f[S] \in Nat /\ g[S] \in Nat /\ f[S] * c <= g[S] * d
  <1> DEFINE good(s) == f[s] \in Nat /\ g[s] \in Nat /\ f[s] * c <= g[s] * d
             bad == {s \in SUBSET S : ~good(s)}
  <1>1. \A s \in SUBSET S : /\ f[s] = IF s = {} THEN 0 ELSE a[Pick(s)] + f[s \ {Pick(s)}]
                            /\ g[s] = IF s = {} THEN 0 ELSE b[Pick(s)] + g[s \ {Pick(s)}]
    BY DEF IsSum
  <1> SUFFICES ASSUME bad # {} PROVE FALSE
    OBVIOUS
  <1> HIDE DEF good
  <1>2. PICK s \in bad : \A u \in bad : ~(u \subseteq s /\ u # s)
    <2>1. bad \in SUBSET (SUBSET S)
      OBVIOUS
    <2> HIDE DEF bad
    <2> QED BY <2>1, MinimalSubset
  <1>3. s \in SUBSET S /\ s # {}
    <2>1. f[{}] = 0 /\ g[{}] = 0
      BY <1>1
    <2>2. good({})
      BY <2>1 DEF good
    <2> QED BY <1>2, <2>2
  <1> DEFINE p == Pick(s)
             rest == s \ {p}
  <1>4. p \in s /\ p \in S /\ rest \in SUBSET S /\ rest # s
    BY <1>3, PickIsElement
  <1>5. good(rest)
    BY <1>2, <1>4
  <1>6. f[s] = a[p] + f[rest] /\ g[s] = b[p] + g[rest]
    BY <1>1, <1>3
  <1>7. /\ a[p] \in Nat /\ b[p] \in Nat /\ f[rest] \in Nat /\ g[rest] \in Nat
        /\ a[p] * c <= b[p] * d /\ f[rest] * c <= g[rest] * d
    BY <1>4, <1>5 DEF good
  <1> HIDE DEF p, rest
  <1>8. f[s] \in Nat /\ g[s] \in Nat
    BY <1>6, <1>7
  <1>9. f[s] * c <= g[s] * d
    <2>1. (a[p] + f[rest]) * c = a[p] * c + f[rest] * c
      BY <1>7
    <2>2. (b[p] + g[rest]) * d = b[p] * d + g[rest] * d
      BY <1>7
    <2>3. /\ a[p] * c \in Int /\ b[p] * d \in Int
          /\ f[rest] * c \in Int /\ g[rest] * d \in Int
      BY <1>7
    <2>4. a[p] * c + f[rest] * c <= b[p] * d + g[rest] * d
      BY <1>7, <2>3, SumOfInequalities
    <2> QED BY <1>6, <2>1, <2>2, <2>4
  <1> QED BY <1>2, <1>8, <1>9 DEF good

\* The prices of a set of legs.
Priceable(legs) == \A s \in Selections : Price[legs[s].offer] \in Nat \ {0}

\* The product of the prices is positive and each price divides it.
LEMMA DenominatorIsProduct ==
  ASSUME NEW legs, Priceable(legs)
  PROVE  /\ ImpliedDenominator(legs) \in Nat \ {0}
         /\ \A s \in Selections : \E k \in Nat : ImpliedDenominator(legs) = Price[legs[s].offer] * k
  <1> DEFINE S == Selections
             a == [s \in S |-> Price[legs[s].offer]]
             times == [p \in Nat \X Nat |-> p[1] * p[2]]
             iter == CHOOSE f : f = [s \in SUBSET S |->
                       IF s = {} THEN 1 ELSE Price[legs[Pick(s)].offer] * f[s \ {Pick(s)}]]
  <1>1. ImpliedDenominator(legs) = iter[S]
    BY DEF ImpliedDenominator, MapThenFoldSet, Pick
  <1>2. a \in [S -> Nat \ {0}] /\ a \in [S -> Nat]
    BY DEF Priceable
  <1>3. \A s \in SUBSET S : s # {} =>
          Pick(s) \in S /\ s \ {Pick(s)} \in SUBSET S /\ Price[legs[Pick(s)].offer] = a[Pick(s)]
    BY PickIsElement
  <1>4. times \in [Nat \X Nat -> Nat] /\ \A x, y \in Nat : times[<<x, y>>] = x * y
    OBVIOUS
  <1>5. \E f : f = [s \in SUBSET S |->
                 IF s = {} THEN 1 ELSE Price[legs[Pick(s)].offer] * f[s \ {Pick(s)}]]
    <2> HIDE DEF a, times, iter
    <2>1. PICK f : Folds(f, S, Nat, 1, times, a)
      BY <1>2, <1>4, FoldExists, MarketAssumption
    <2>2. f \in [SUBSET S -> Nat]
      BY <2>1 DEF Folds
    <2>3. ASSUME NEW s \in SUBSET S
          PROVE  f[s] = IF s = {} THEN 1 ELSE Price[legs[Pick(s)].offer] * f[s \ {Pick(s)}]
      <3>1. f[s] = IF s = {} THEN 1 ELSE times[<<a[Pick(s)], f[s \ {Pick(s)}]>>]
        BY <2>1 DEF Folds
      <3>2. CASE s # {}
        BY <1>2, <1>3, <1>4, <2>2, <3>1, <3>2
      <3> QED BY <3>1, <3>2
    <2> QED BY <2>2, <2>3
  <1>6. iter = [s \in SUBSET S |->
                 IF s = {} THEN 1 ELSE Price[legs[Pick(s)].offer] * iter[s \ {Pick(s)}]]
    BY <1>5
  <1> HIDE DEF iter, a, times
  <1>7. IsProduct(iter, S, a)
    BY <1>3, <1>6 DEF IsProduct
  <1>8. /\ iter[S] \in Nat \ {0}
        /\ \A x \in S : \E k \in Nat : iter[S] = a[x] * k
    BY <1>2, <1>7, Products, MarketAssumption
  <1> QED BY <1>1, <1>8 DEF a

\* The term of a selection in the numerator.
Term(legs, s) == PriceScale * (ImpliedDenominator(legs) \div Price[legs[s].offer])

\* A term is a natural number, and the price of its leg is what it lacks of the
\* scaled denominator.
LEMMA TermIsShare ==
  ASSUME NEW legs, Priceable(legs), NEW s \in Selections
  PROVE  /\ Term(legs, s) \in Nat
         /\ \E k \in Nat : /\ ImpliedDenominator(legs) = Price[legs[s].offer] * k
                           /\ Term(legs, s) = PriceScale * k
  <1>1. PICK k \in Nat : ImpliedDenominator(legs) = Price[legs[s].offer] * k
    BY DenominatorIsProduct
  <1>2. ImpliedDenominator(legs) \div Price[legs[s].offer] = k
    BY <1>1, DivideProduct DEF Priceable
  <1>3. PriceScale * k \in Nat
    BY MarketAssumption
  <1> QED BY <1>1, <1>2, <1>3 DEF Term

\* The numerator is the sum of the terms.
LEMMA NumeratorIsSum ==
  ASSUME NEW legs, Priceable(legs)
  PROVE  \E f : /\ ImpliedNumerator(legs) = f[Selections]
                /\ IsSum(f, Selections, [x \in Selections |-> Term(legs, x)])
  <1> DEFINE S == Selections
             a == [x \in S |-> Term(legs, x)]
             plus == [p \in Nat \X Nat |-> p[1] + p[2]]
             iter == CHOOSE f : f = [s \in SUBSET S |->
                       IF s = {} THEN 0 ELSE Term(legs, Pick(s)) + f[s \ {Pick(s)}]]
  <1>1. ImpliedNumerator(legs) = iter[S]
    BY DEF ImpliedNumerator, MapThenSumSet, MapThenFoldSet, Pick, Term
  <1>2. a \in [S -> Nat]
    BY TermIsShare
  <1>3. \A s \in SUBSET S : s # {} =>
          Pick(s) \in S /\ s \ {Pick(s)} \in SUBSET S /\ Term(legs, Pick(s)) = a[Pick(s)]
    BY PickIsElement
  <1>4. plus \in [Nat \X Nat -> Nat] /\ \A x, y \in Nat : plus[<<x, y>>] = x + y
    OBVIOUS
  <1>5. \E f : f = [s \in SUBSET S |->
                 IF s = {} THEN 0 ELSE Term(legs, Pick(s)) + f[s \ {Pick(s)}]]
    <2> HIDE DEF a, plus, iter
    <2>1. PICK f : Folds(f, S, Nat, 0, plus, a)
      BY <1>2, <1>4, FoldExists, MarketAssumption
    <2>2. f \in [SUBSET S -> Nat]
      BY <2>1 DEF Folds
    <2>3. ASSUME NEW s \in SUBSET S
          PROVE  f[s] = IF s = {} THEN 0 ELSE Term(legs, Pick(s)) + f[s \ {Pick(s)}]
      <3>1. f[s] = IF s = {} THEN 0 ELSE plus[<<a[Pick(s)], f[s \ {Pick(s)}]>>]
        BY <2>1 DEF Folds
      <3>2. CASE s # {}
        BY <1>2, <1>3, <1>4, <2>2, <3>1, <3>2
      <3> QED BY <3>1, <3>2
    <2> QED BY <2>2, <2>3
  <1>6. iter = [s \in SUBSET S |->
                 IF s = {} THEN 0 ELSE Term(legs, Pick(s)) + iter[s \ {Pick(s)}]]
    BY <1>5
  <1> HIDE DEF iter, a, plus
  <1>7. IsSum(iter, S, a)
    BY <1>3, <1>6 DEF IsSum
  <1> QED BY <1>1, <1>7 DEF a

\* Higher prices make a smaller implied sum.
LEMMA BetterPricesSumLess ==
  ASSUME NEW o, NEW f, Priceable(o), Priceable(f),
         \A s \in Selections : Price[f[s].offer] <= Price[o[s].offer]
  PROVE  /\ ImpliedNumerator(o) \in Nat /\ ImpliedNumerator(f) \in Nat
         /\ ImpliedNumerator(o) * ImpliedDenominator(f) <= ImpliedNumerator(f) * ImpliedDenominator(o)
  <1> DEFINE a == [x \in Selections |-> Term(o, x)]
             b == [x \in Selections |-> Term(f, x)]
             c == ImpliedDenominator(f)
             d == ImpliedDenominator(o)
  <1>1. a \in [Selections -> Nat] /\ b \in [Selections -> Nat] /\ c \in Nat /\ d \in Nat
    BY TermIsShare, DenominatorIsProduct
  <1>2. ASSUME NEW x \in Selections PROVE a[x] * c <= b[x] * d
    <2>1. PICK k \in Nat : d = Price[o[x].offer] * k /\ a[x] = PriceScale * k
      BY TermIsShare
    <2>2. PICK m \in Nat : c = Price[f[x].offer] * m /\ b[x] = PriceScale * m
      BY TermIsShare
    <2>3. Price[f[x].offer] \in Nat /\ Price[o[x].offer] \in Nat /\ PriceScale \in Nat
      BY MarketAssumption DEF Priceable
    <2> HIDE DEF a, b, c, d
    <2>4. a[x] * c = Price[f[x].offer] * (PriceScale * (k * m))
      BY <2>1, <2>2, <2>3
    <2>5. b[x] * d = Price[o[x].offer] * (PriceScale * (k * m))
      BY <2>1, <2>2, <2>3
    <2>6. PriceScale * (k * m) \in Nat
      BY <2>3
    <2> QED BY <2>3, <2>4, <2>5, <2>6, MonotoneProduct
  <1>3. PICK g : /\ ImpliedNumerator(o) = g[Selections]
                 /\ IsSum(g, Selections, a)
    BY NumeratorIsSum
  <1>4. PICK h : /\ ImpliedNumerator(f) = h[Selections]
                 /\ IsSum(h, Selections, b)
    BY NumeratorIsSum
  <1> HIDE DEF a, b, c, d
  <1>5. g[Selections] \in Nat /\ h[Selections] \in Nat /\ g[Selections] * c <= h[Selections] * d
    BY <1>1, <1>2, <1>3, <1>4, Sums, MarketAssumption
  <1> QED BY <1>3, <1>4, <1>5 DEF c, d

\* So they are an arbitrage when lower prices are one.
LEMMA BetterPricesStayArbitrage ==
  ASSUME NEW o, NEW f, Priceable(o), Priceable(f),
         \A s \in Selections : Price[f[s].offer] <= Price[o[s].offer],
         IsArbitrage(f)
  PROVE  IsArbitrage(o)
  <1> DEFINE n == ImpliedNumerator(o)
             d == ImpliedDenominator(o)
             m == ImpliedNumerator(f)
             e == ImpliedDenominator(f)
             M == 100 + MinMargin
  <1>1. /\ n \in Nat /\ m \in Nat /\ d \in Nat \ {0} /\ e \in Nat \ {0} /\ M \in Nat
        /\ n * e <= m * d
    BY BetterPricesSumLess, DenominatorIsProduct, MarketAssumption
  <1>2. m < e /\ m * M <= 100 * e
    BY <1>1, MarketAssumption DEF IsArbitrage
  <1>3. SUFFICES n < d /\ n * M <= 100 * d
    BY <1>1, MarketAssumption DEF IsArbitrage
  <1> HIDE DEF n, d, m, e, M
  <1>4. n < d
    <2>1. m * d < e * d
      BY <1>1, <1>2, CancelProduct
    <2>2. n * e \in Nat /\ m * d \in Nat /\ e * d \in Nat /\ e * d = d * e
      BY <1>1
    <2>3. n * e < d * e
      BY <1>1, <2>1, <2>2
    <2> QED BY <1>1, <2>3, CancelProduct
  <1>5. n * M <= 100 * d
    <2>1. (n * e) * M <= (m * d) * M
      <3>1. n * e \in Nat /\ m * d \in Nat
        BY <1>1
      <3> QED BY <1>1, <3>1, MonotoneProduct
    <2>2. (m * M) * d <= (100 * e) * d
      <3>1. m * M \in Nat /\ 100 * e \in Nat
        BY <1>1
      <3> QED BY <1>1, <1>2, <3>1, MonotoneProduct
    <2>3. /\ (n * e) * M = (n * M) * e /\ (m * d) * M = (m * M) * d
          /\ (100 * e) * d = (100 * d) * e
      BY <1>1
    <2>4. n * M \in Nat /\ 100 * d \in Nat /\ (m * M) * d \in Nat
          /\ (n * M) * e \in Nat /\ (100 * d) * e \in Nat
      BY <1>1
    <2>5. (n * M) * e <= (100 * d) * e
      BY <2>1, <2>2, <2>3, <2>4
    <2> QED BY <1>1, <2>4, <2>5, CancelProduct
  <1> QED BY <1>4, <1>5

-----------------------------------------------------------------------------
(* The best book.                                                          *)

\* The prices of quotes are positive.
LEMMA QuotesArePriced ==
  ASSUME NEW legs, \A s \in Selections : legs[s] \in Store!Quote
  PROVE  Priceable(legs)
  <1>1. \A s \in Selections : legs[s].offer \in Offers
    BY DEF Store!Quote
  <1> QED BY <1>1, PriceAssumption DEF Priceable

\* _best_quote never passes over a higher price.
LEMMA BestHasBestPrice ==
  ASSUME NEW quotes, Keyed(quotes), NEW q \in quotes
  PROVE  Price[q.offer] <= Price[BestQuote(quotes).offer]
  <1> DEFINE best == BestQuote(quotes)
  <1>1. best \in quotes /\ \A other \in quotes \ {best} : ~BetterQuote(other, best)
    BY BestIsOptimal
  <1>2. Price[q.offer] \in Int /\ Price[best.offer] \in Int
    BY <1>1, QuoteNumbers DEF Keyed
  <1> SUFFICES Price[q.offer] <= Price[best.offer]
    OBVIOUS
  <1> HIDE DEF best
  <1>3. CASE q = best
    BY <1>2, <1>3
  <1>4. CASE q # best
    BY <1>1, <1>2, <1>4 DEF BetterQuote
  <1> QED BY <1>3, <1>4

\* The book of quotes that are all eligible against every other choice of one
\* quote for each selection.
LEMMA BookIsBest ==
  ASSUME NEW quotes, Keyed(quotes), NEW f \in [Selections -> quotes],
         \A s \in Selections : SelectionOf[f[s].key] = s
  PROVE  /\ \A s \in Selections : Candidates(quotes, s) # {}
         /\ Priceable(f) /\ Priceable(Book(quotes))
         /\ Book(quotes) \in [Selections -> quotes]
         /\ \A s \in Selections : SelectionOf[Book(quotes)[s].key] = s
         /\ \A s \in Selections : Price[f[s].offer] <= Price[Book(quotes)[s].offer]
  <1>1. ASSUME NEW s \in Selections
        PROVE  /\ f[s] \in Candidates(quotes, s)
               /\ Keyed(Candidates(quotes, s))
    BY DEF Candidates, Keyed
  <1>2. ASSUME NEW s \in Selections
        PROVE  /\ Book(quotes)[s] = BestQuote(Candidates(quotes, s))
               /\ BestQuote(Candidates(quotes, s)) \in Candidates(quotes, s)
               /\ Price[f[s].offer] <= Price[BestQuote(Candidates(quotes, s)).offer]
    BY <1>1, BestIsOptimal, BestHasBestPrice DEF Book
  <1>3. \A s \in Selections : /\ Book(quotes)[s] \in quotes
                              /\ SelectionOf[Book(quotes)[s].key] = s
    BY <1>2 DEF Candidates
  <1>4. Book(quotes) \in [Selections -> quotes]
    BY <1>3 DEF Book
  <1>5. Priceable(f) /\ Priceable(Book(quotes))
    BY <1>3, QuotesArePriced DEF Keyed
  <1> QED BY <1>1, <1>2, <1>3, <1>4, <1>5

\* Everything a cycle offers may compete for the book: what the store calls
\* fresh, build_market_books calls eligible.
LEMMA OfferedMayCompete ==
  ASSUME ScanInv, Store!IInv, Settled
  PROVE  BookEligible(eligible, observed) = eligible
  <1> SUFFICES ASSUME NEW q \in eligible
               PROVE  /\ q.status = "active" /\ q.ingested <= observed
                      /\ observed - EffectiveAt(q) \in 0..FreshnessWindow
    BY DEF BookEligible
  <1>1. q.key \in Store!FreshKeys(observed) /\ current[q.key].quote = q
    BY EligibleIsLive
  <1>2. q \in Store!Quote /\ observed \in Int
    BY DEF ScanInv, TypeOK, Store!IInv, Store!TypeOK
  <1>3. EffectiveAt(q) \in Int /\ Store!Effective(q) = EffectiveAt(q)
    BY <1>2, QuoteNumbers DEF Store!Effective, EffectiveAt
  <1>4. /\ q.status = "active" /\ q.ingested <= observed
        /\ EffectiveAt(q) <= observed /\ ~(observed - EffectiveAt(q) > FreshnessWindow)
    BY <1>1, <1>3 DEF Store!FreshKeys, Store!Expired
  <1> QED BY <1>2, <1>3, <1>4, StorePolicyAssumption

\* For every market of at least two selections, whatever its prices and the
\* margin asked for: taking the best price of each selection misses no
\* arbitrage among the eligible quotes, and none of them has a smaller implied
\* sum than the one that is reported.
THEOREM BestBookIsOptimal ==
  ASSUME Cardinality(Selections) >= 2
  PROVE  Spec => []BestBookWins
  <1>1. ASSUME ScanInv, Store!IInv PROVE BestBookWins
    <2> DEFINE picks == {f \in [Selections -> eligible] : \A s \in Selections : SelectionOf[f[s].key] = s}
               book == Book(eligible)
    <2> SUFFICES ASSUME Settled
                 PROVE  /\ opportunities # {} <=> EventStart > observed /\ \E f \in picks : IsArbitrage(f)
                        /\ \A o \in opportunities, f \in picks :
                             ImpliedNumerator(o) * ImpliedDenominator(f)
                               <= ImpliedNumerator(f) * ImpliedDenominator(o)
      BY DEF BestBookWins
    <2>1. eligible = Offered /\ opportunities = Opportunities(eligible, observed)
      BY <1>1 DEF ScanInv, ResultInv
    <2>2. Keyed(eligible)
      BY <1>1, <2>1, FreshQuotesKeyed
    <2>3. opportunities = IF BookExists(eligible, observed) /\ IsArbitrage(book) THEN {book} ELSE {}
      BY <1>1, <2>1, OfferedMayCompete DEF Opportunities
    <2>4. ASSUME NEW f \in picks
          PROVE  /\ EventStart > observed => BookExists(eligible, observed)
                 /\ Priceable(f) /\ Priceable(book)
                 /\ \A s \in Selections : Price[f[s].offer] <= Price[book[s].offer]
      BY <2>2, BookIsBest, Cardinality(Selections) >= 2 DEF BookExists
    <2>5. ASSUME BookExists(eligible, observed) PROVE EventStart > observed /\ book \in picks
      <3>1. \A s \in Selections : Candidates(eligible, s) # {} /\ Keyed(Candidates(eligible, s))
        BY <2>2, <2>5 DEF BookExists, Candidates, Keyed
      <3>2. \A s \in Selections : BestQuote(Candidates(eligible, s)) \in Candidates(eligible, s)
        BY <3>1, BestIsOptimal
      <3> QED BY <2>5, <3>2 DEF BookExists, Book, Candidates
    <2> HIDE DEF picks, book
    <2>6. ASSUME EventStart > observed, NEW f \in picks, IsArbitrage(f) PROVE opportunities # {}
      <3>1. IsArbitrage(book)
        BY <2>4, <2>6, BetterPricesStayArbitrage
      <3> QED BY <2>3, <2>4, <2>6, <3>1
    <2>7. ASSUME opportunities # {} PROVE EventStart > observed /\ \E f \in picks : IsArbitrage(f)
      BY <2>3, <2>5, <2>7
    <2>8. ASSUME NEW o \in opportunities, NEW f \in picks
          PROVE  ImpliedNumerator(o) * ImpliedDenominator(f) <= ImpliedNumerator(f) * ImpliedDenominator(o)
      <3>1. o = book
        BY <2>3, <2>8
      <3> QED BY <2>4, <3>1, BetterPricesSumLess
    <2> QED BY <2>6, <2>7, <2>8
  <1>2. ScanInv /\ Store!IInv => BestBookWins
    BY <1>1
  <1> QED BY <1>2, ScanInvariance, StoreInvariant, PTL
=============================================================================
