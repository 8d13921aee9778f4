------------------------ MODULE LiveQuoteStoreProofs ------------------------
(***************************************************************************)
(* Proofs about LiveQuoteStore for every set of keys, offers and batches,  *)
(* every policy and every bound. Times are integers, so that a source      *)
(* clock may also be behind the start of the run.                          *)
(***************************************************************************)
EXTENDS LiveQuoteStore, TLAPS

\* The effective time of a quote is always a number: source_timestamp, or
\* ingested_at when the source gives none.
LEMMA EffectiveType == \A quote \in Quote : Effective(quote) \in Int
  BY DEF Quote, Effective

\* What apply stores is a version of the quote's own key.
LEMMA NextVersionType ==
  ASSUME NEW version \in Version \cup {NoVersion}, NEW quote \in Quote, NEW moment \in Int
  PROVE  /\ NextVersion(version, quote, moment) \in Version
         /\ NextVersion(version, quote, moment) # NoVersion
         /\ NextVersion(version, quote, moment).quote = quote
         /\ NextVersion(version, quote, moment).observed = moment
         /\ version # NoVersion =>
              NextVersion(version, quote, moment).revision >= version.revision
  <1>1. CASE version = NoVersion
    BY <1>1, NoVersionAssumption DEF NextVersion, Version
  <1>2. CASE version # NoVersion
    <2>1. version \in Version /\ version.revision \in Nat \ {0}
      BY <1>2 DEF Version
    <2> QED BY <1>2, <2>1, NoVersionAssumption DEF NextVersion, Version
  <1> QED BY <1>1, <1>2

\* The state variables keep their types (state of LiveQuoteStore and of the
\* loop in apply).
THEOREM TypeCorrect == Spec => []TypeOK
  <1>1. Init => TypeOK
    BY DEF Init, TypeOK
  <1>2. TypeOK /\ [Next]_vars => TypeOK'
    <2> SUFFICES ASSUME TypeOK, [Next]_vars PROVE TypeOK'
      OBVIOUS
    <2> USE DEF TypeOK
    <2>1. CASE Tick
      BY <2>1 DEF Tick
    <2>2. ASSUME NEW quotes \in Batches, Apply(quotes) PROVE TypeOK'
      BY <2>2, BatchesAssumption DEF Apply
    <2>3. CASE ApplyNext
      <3>1. PICK quote \in pending : ApplyQuote(quote)
        BY <2>3 DEF ApplyNext
      <3>2. quote \in Quote /\ quote.key \in Keys
        BY <3>1 DEF Quote
      <3>3. NextVersion(current[quote.key], quote, observed) \in Version
        <4>1. current[quote.key] \in Version \cup {NoVersion} /\ observed \in Int
          BY <3>2
        <4> HIDE DEF TypeOK
        <4> QED BY <3>2, <4>1, NextVersionType
      <3> QED BY <3>1, <3>2, <3>3 DEF ApplyQuote
    <2>4. CASE EvictStale
      <3>1. current' = [k \in Keys |-> IF k \in EvictedKeys(now) THEN NoVersion ELSE current[k]]
        BY <2>4 DEF EvictStale
      <3>2. current' \in [Keys -> Version \cup {NoVersion}]
        BY <3>1
      <3> QED BY <2>4, <3>2 DEF EvictStale, Idle
    <2>5. CASE UNCHANGED vars
      BY <2>5 DEF vars
    <2> QED BY <2>1, <2>2, <2>3, <2>4, <2>5 DEF Next
  <1> QED BY <1>1, <1>2, PTL DEF Spec

-----------------------------------------------------------------------------
\* The loop handles a prefix of the sorted batch: a quote that comes next does
\* not sort before one already handled, so its effective time is no smaller.
LEMMA LaterIsNotOlder ==
  ASSUME NEW q \in Quote, NEW r \in Quote, q.key = r.key, ~SortsBefore(r, q)
  PROVE  Effective(r) >= Effective(q)
  BY EffectiveType DEF SortsBefore, Quote

\* The sort order of _sort_key is strict.
LEMMA SortIrreflexive == \A quote \in Quote : ~SortsBefore(quote, quote)
  <1> SUFFICES ASSUME NEW quote \in Quote PROVE ~SortsBefore(quote, quote)
    OBVIOUS
  <1>1. quote.key \in Nat /\ quote.ingested \in Int /\ Effective(quote) \in Int
    BY EffectiveType, KeysAssumption DEF Quote
  <1> QED BY <1>1 DEF SortsBefore

\* Once a quote at least as new as the held one is possible, apply can only
\* call it a duplicate or accept it.
LEMMA NewerIsAcceptedOrDuplicate ==
  ASSUME NEW version \in Version, NEW quote \in Quote, NEW moment \in Int,
         ~Impossible(quote, moment),
         Effective(quote) >= Effective(version.quote)
  PROVE  Accepts(version, quote, moment) \/ Duplicate(version, quote)
  <1>1. version.quote \in Quote /\ version # NoVersion
    BY NoVersionAssumption DEF Version
  <1>2. Effective(quote) \in Int /\ Effective(version.quote) \in Int
    BY <1>1, EffectiveType
  <1>3. ~FarBackward(version, quote) /\ ~UnconfirmedBackward(version, quote)
    BY <1>2, PolicyAssumption DEF FarBackward, UnconfirmedBackward
  <1> QED BY <1>1, <1>3 DEF Accepts

\* An iteration changes at most the version of its own key, to a version of
\* the quote it accepts.
LEMMA IterationEffect ==
  ASSUME TypeOK, NEW quote \in pending, ApplyQuote(quote), NEW k \in Keys
  PROVE  /\ quote \in Quote /\ quote \in batch
         /\ k # quote.key => current'[k] = current[k]
         /\ k = quote.key /\ ~Accepts(current[k], quote, observed) => current'[k] = current[k]
         /\ k = quote.key /\ Accepts(current[k], quote, observed) =>
              /\ current'[k] # NoVersion
              /\ current'[k] \in Version
              /\ current'[k].quote = quote
              /\ current'[k].observed = observed
              /\ current[k] # NoVersion => current'[k].revision >= current[k].revision
  <1>1. quote \in Quote /\ quote \in batch /\ quote.key \in Keys /\ observed \in Int
    BY DEF TypeOK, Quote
  <1>2. current[k] \in Version \cup {NoVersion} /\ DOMAIN current = Keys
    BY DEF TypeOK
  <1>3. ASSUME k = quote.key, Accepts(current[k], quote, observed)
        PROVE  current'[k] = NextVersion(current[k], quote, observed)
    BY <1>1, <1>2, <1>3 DEF ApplyQuote
  <1>4. ASSUME k # quote.key \/ ~Accepts(current[k], quote, observed)
        PROVE  current'[k] = current[k]
    BY <1>1, <1>2, <1>4 DEF ApplyQuote
  <1>5. LET nv == NextVersion(current[k], quote, observed)
        IN  /\ nv # NoVersion /\ nv \in Version /\ nv.quote = quote /\ nv.observed = observed
            /\ current[k] # NoVersion => nv.revision >= current[k].revision
    BY <1>1, <1>2, NextVersionType
  <1>6. CASE k = quote.key /\ Accepts(current[k], quote, observed)
    BY <1>1, <1>3, <1>5, <1>6
  <1> QED BY <1>1, <1>4, <1>6

\* The set of handled quotes of a key grows by the quote of the iteration,
\* unless it is another key's or an impossible one.
LEMMA IterationHandled ==
  ASSUME TypeOK, NEW quote \in pending, ApplyQuote(quote), NEW k \in Keys
  PROVE  Handled(k)' = IF quote.key = k /\ ~Impossible(quote, observed)
                       THEN Handled(k) \cup {quote} ELSE Handled(k)
  BY DEF TypeOK, ApplyQuote, Handled, Impossible

\* One iteration preserves the loop invariant of apply.
LEMMA IterationInductive ==
  ASSUME IInv, NEW quote \in pending, ApplyQuote(quote)
  PROVE  NoImpossibleVersion' /\ LoopInv' /\ ApplyOutcome'
  <1>1. TypeOK /\ NoImpossibleVersion /\ LoopInv /\ ApplyOutcome
    BY DEF IInv
  <1>2. /\ quote \in Quote /\ quote \in batch
        /\ now \in Nat /\ observed \in Nat /\ observed <= now
        /\ now' = now /\ batch' = batch /\ observed' = observed /\ before' = before
        /\ pending' = pending \ {quote}
    BY <1>1 DEF TypeOK, LoopInv, ApplyQuote
  <1>3. NoImpossibleVersion'
    <2> SUFFICES ASSUME NEW k \in Keys, current'[k] # NoVersion
                 PROVE  /\ current'[k].quote.key = k
                        /\ current'[k].observed <= now
                        /\ ~Impossible(current'[k].quote, current'[k].observed)
      BY <1>2 DEF NoImpossibleVersion, Stored, Impossible, Effective
    <2>1. CASE current'[k] = current[k]
      BY <1>1, <2>1 DEF NoImpossibleVersion, Stored
    <2>2. CASE k = quote.key /\ Accepts(current[k], quote, observed)
      BY <1>1, <1>2, <2>2, IterationEffect DEF Accepts
    <2> QED BY <1>1, <2>1, <2>2, IterationEffect
  <1>4. LoopInv'
    <2>1. ASSUME NEW d \in (batch \ pending)', NEW p \in pending'
          PROVE  ~SortsBefore(p, d)
      <3>1. p \in pending /\ (d = quote \/ d \in batch \ pending)
        BY <1>2
      <3> QED BY <1>1, <3>1 DEF LoopInv, ApplyQuote
    <2>2. ASSUME NEW k \in Keys, before[k] # NoVersion
          PROVE  /\ before[k].quote.key = k
                 /\ current'[k] # NoVersion
                 /\ current'[k].revision >= before[k].revision
      <3>1. /\ before[k].quote.key = k
            /\ current[k] # NoVersion
            /\ current[k].revision >= before[k].revision
        BY <1>1, <2>2 DEF LoopInv
      <3>2. before[k] \in Version /\ current[k] \in Version
        BY <1>1, <2>2, <3>1 DEF TypeOK
      <3>3. CASE current'[k] = current[k]
        BY <3>1, <3>3
      <3>4. CASE k = quote.key /\ Accepts(current[k], quote, observed)
        <4>1. /\ current'[k] # NoVersion /\ current'[k] \in Version
              /\ current'[k].revision >= current[k].revision
          BY <1>1, <3>1, <3>4, IterationEffect
        <4> QED BY <3>1, <3>2, <4>1 DEF Version
      <3> QED BY <1>1, <3>3, <3>4, IterationEffect
    <2> QED BY <1>2, <2>1, <2>2 DEF LoopInv, SortsBefore, Effective
  <1>5. ApplyOutcome'
    <2> SUFFICES ASSUME NEW k \in Keys
                 PROVE  IF \A q \in Handled(k)' : ~Accepts(before[k], q, observed)
                        THEN current'[k] = before[k]
                        ELSE /\ current'[k] # NoVersion
                             /\ current'[k].quote \in Handled(k)'
                             /\ current'[k].observed = observed
                             /\ \E last \in Handled(k)' :
                                  /\ Fingerprint(last) = Fingerprint(current'[k].quote)
                                  /\ \A q \in Handled(k)' : ~SortsBefore(last, q)
      BY <1>2 DEF ApplyOutcome, Accepts, Impossible, FarBackward, Duplicate,
                  UnconfirmedBackward, Fingerprint, Effective, SortsBefore
    <2>1. CASE quote.key # k \/ Impossible(quote, observed)
      <3>1. Handled(k)' = Handled(k)
        BY <1>1, <2>1, IterationHandled
      <3>2. current'[k] = current[k]
        BY <1>1, <2>1, IterationEffect DEF Accepts
      <3> QED BY <1>1, <3>1, <3>2 DEF ApplyOutcome
    <2>2. CASE quote.key = k /\ ~Impossible(quote, observed)
      <3>1. Handled(k)' = Handled(k) \cup {quote}
        BY <1>1, <2>2, IterationHandled
      <3>2. \A q \in Handled(k)' : ~SortsBefore(quote, q)
        <4>1. ~SortsBefore(quote, quote)
          BY <1>2, SortIrreflexive
        <4>2. \A q \in Handled(k) : ~SortsBefore(quote, q)
          BY <1>1 DEF Handled, LoopInv
        <4> QED BY <3>1, <4>1, <4>2
      <3>3. ASSUME Accepts(current[k], quote, observed),
                   \E q \in Handled(k)' : Accepts(before[k], q, observed)
            PROVE  /\ current'[k] # NoVersion
                   /\ current'[k].quote = quote
                   /\ current'[k].observed = observed
        BY <1>1, <2>2, <3>3, IterationEffect
      <3>4. CASE \A q \in Handled(k) : ~Accepts(before[k], q, observed)
        <4>1. current[k] = before[k]
          BY <1>1, <3>4 DEF ApplyOutcome
        <4>2. CASE Accepts(before[k], quote, observed)
          BY <3>1, <3>2, <3>3, <4>1, <4>2
        <4>3. CASE ~Accepts(before[k], quote, observed)
          BY <1>1, <2>2, <3>1, <3>4, <4>1, <4>3, IterationEffect
        <4> QED BY <4>2, <4>3
      <3>5. CASE \E q \in Handled(k) : Accepts(before[k], q, observed)
        <4>1. /\ current[k] # NoVersion
              /\ current[k].quote \in Handled(k)
              /\ current[k].observed = observed
          BY <1>1, <3>5 DEF ApplyOutcome
        <4>2. current[k] \in Version /\ current[k].quote \in Quote /\ current[k].quote.key = k
          BY <1>1, <4>1 DEF TypeOK, Version, Handled
        <4>3. Effective(quote) >= Effective(current[k].quote)
          BY <1>2, <2>2, <3>1, <3>2, <4>1, <4>2, LaterIsNotOlder
        <4>4. CASE Accepts(current[k], quote, observed)
          BY <3>1, <3>2, <3>3, <3>5, <4>4
        <4>5. CASE ~Accepts(current[k], quote, observed)
          <5>1. Duplicate(current[k], quote)
            BY <1>2, <2>2, <4>2, <4>3, <4>5, NewerIsAcceptedOrDuplicate
          <5>2. current'[k] = current[k]
            BY <1>1, <2>2, <4>5, IterationEffect
          <5> QED BY <3>1, <3>2, <3>5, <4>1, <5>1, <5>2 DEF Duplicate
        <4> QED BY <4>4, <4>5
      <3> QED BY <3>4, <3>5
    <2> QED BY <2>1, <2>2
  <1> QED BY <1>3, <1>4, <1>5

-----------------------------------------------------------------------------
\* The inductive invariant of the store: every reachable state satisfies IInv,
\* the outcome of apply included (ApplyOutcome), whatever is handed over.
THEOREM Invariance == Spec => []IInv
  <1>1. Init => IInv
    BY DEF Init, IInv, TypeOK, NoImpossibleVersion, LoopInv, ApplyOutcome, Handled, Stored
  <1>2. TypeOK /\ TypeOK' /\ IInv /\ [Next]_vars => IInv'
    <2> SUFFICES ASSUME TypeOK, TypeOK', IInv, [Next]_vars
                 PROVE  NoImpossibleVersion' /\ LoopInv' /\ ApplyOutcome'
      BY DEF IInv
    <2>1. NoImpossibleVersion /\ LoopInv /\ ApplyOutcome
      BY DEF IInv
    <2>2. CASE Tick
      <3>1. /\ now' = now + 1 /\ now \in Nat
            /\ UNCHANGED <<current, batch, pending, observed, before>>
        BY <2>2 DEF Tick, TypeOK
      <3>2. NoImpossibleVersion'
        <4>1. \A k \in Stored : current[k].observed \in Int
          BY DEF TypeOK, Stored, Version
        <4> QED BY <2>1, <3>1, <4>1 DEF NoImpossibleVersion, Stored, Impossible, Effective
      <3>3. LoopInv'
        <4>1. observed \in Nat
          BY DEF TypeOK
        <4> QED BY <2>1, <3>1, <4>1 DEF LoopInv
      <3>4. ApplyOutcome'
        BY <2>1, <3>1 DEF ApplyOutcome, Handled
      <3> QED BY <3>2, <3>3, <3>4
    <2>3. ASSUME NEW quotes \in Batches, Apply(quotes)
          PROVE  NoImpossibleVersion' /\ LoopInv' /\ ApplyOutcome'
      <3>1. /\ batch' = quotes /\ pending' = quotes /\ observed' = now
            /\ before' = current /\ now' = now /\ current' = current
        BY <2>3 DEF Apply
      <3>2. NoImpossibleVersion'
        BY <2>1, <3>1 DEF NoImpossibleVersion, Stored, Impossible, Effective
      <3>3. LoopInv'
        <4>1. now \in Nat /\ \A k \in Stored : current[k].revision \in Nat
          BY DEF TypeOK, Stored, Version
        <4> QED BY <2>1, <3>1, <4>1 DEF LoopInv, NoImpossibleVersion, Stored
      <3>4. \A k \in Keys : Handled(k)' = {}
        BY <3>1 DEF Handled
      <3>5. ApplyOutcome'
        BY <3>1, <3>4 DEF ApplyOutcome
      <3> QED BY <3>2, <3>3, <3>5
    <2>4. CASE ApplyNext
      <3>1. PICK quote \in pending : ApplyQuote(quote)
        BY <2>4 DEF ApplyNext
      <3> QED BY <3>1, IterationInductive
    <2>5. CASE EvictStale
      <3>1. /\ pending = {} /\ pending' = {} /\ batch' = {} /\ before' = current'
            /\ now' = now /\ observed' = observed
            /\ \A k \in Keys : current'[k] = NoVersion \/ current'[k] = current[k]
        BY <2>5 DEF EvictStale, Idle
      <3>2. NoImpossibleVersion'
        BY <2>1, <3>1 DEF NoImpossibleVersion, Stored, Impossible, Effective
      <3>3. LoopInv'
        <4>1. \A k \in Stored : current[k].revision \in Nat
          BY DEF TypeOK, Stored, Version
        <4> QED BY <2>1, <3>1, <4>1 DEF LoopInv, NoImpossibleVersion, Stored
      <3>4. \A k \in Keys : Handled(k)' = {}
        BY <3>1 DEF Handled
      <3>5. ApplyOutcome'
        BY <3>1, <3>4 DEF ApplyOutcome
      <3> QED BY <3>2, <3>3, <3>5
    <2>6. CASE UNCHANGED vars
      BY <2>1, <2>6 DEF vars, NoImpossibleVersion, LoopInv, ApplyOutcome, Handled, Stored
    <2> QED BY <2>2, <2>3, <2>4, <2>5, <2>6 DEF Next
  <1> QED BY <1>1, <1>2, TypeCorrect, PTL DEF Spec

\* No version from the future survives admission (FUTURE_INGESTION and
\* CLOCK_SKEW_EXCEEDED in apply).
THEOREM VersionsArePossible == Spec => []NoImpossibleVersion
  <1>1. IInv => NoImpossibleVersion
    BY DEF IInv
  <1> QED BY <1>1, Invariance, PTL

\* The result of one apply call is the newest handled quote of each key, or
\* the version held before, independently of the caller's order.
THEOREM ApplyIsCorrect == Spec => []ApplyOutcome
  <1>1. IInv => ApplyOutcome
    BY DEF IInv
  <1> QED BY <1>1, Invariance, PTL

\* One apply call moves the source clock of a key back by at most the
\* tolerance, and only for a newer ingestion.
THEOREM RegressionIsBounded == Spec => []BoundedRegression
  <1>1. IInv => BoundedRegression
    <2> SUFFICES ASSUME IInv, NEW k \in Stored, before[k] # NoVersion
                 PROVE  /\ current[k].revision >= before[k].revision
                        /\ Effective(before[k].quote) - Effective(current[k].quote) <= SkewTolerance
                        /\ Effective(current[k].quote) < Effective(before[k].quote) =>
                             \E q \in Handled(k) : q.ingested > before[k].quote.ingested
      BY DEF BoundedRegression
    <2>1. TypeOK /\ LoopInv /\ ApplyOutcome /\ k \in Keys /\ current[k] # NoVersion
      BY DEF IInv, Stored
    <2>2. before[k] \in Version /\ before[k].quote \in Quote
      BY <2>1 DEF TypeOK, Version
    <2>3. current[k] \in Version /\ current[k].quote \in Quote
      BY <2>1 DEF TypeOK, Version
    <2>4. Effective(before[k].quote) \in Int /\ Effective(current[k].quote) \in Int
      BY <2>2, <2>3, EffectiveType
    <2>5. current[k].revision >= before[k].revision
      BY <2>1 DEF LoopInv
    <2>6. CASE \A q \in Handled(k) : ~Accepts(before[k], q, observed)
      <3>1. current[k] = before[k]
        BY <2>1, <2>6 DEF ApplyOutcome
      <3> QED BY <2>4, <2>5, <3>1, PolicyAssumption
    <2>7. CASE \E q \in Handled(k) : Accepts(before[k], q, observed)
      <3>1. PICK q \in Handled(k) : Accepts(before[k], q, observed)
        BY <2>7
      <3>2. PICK last \in Handled(k) :
              /\ Fingerprint(last) = Fingerprint(current[k].quote)
              /\ \A r \in Handled(k) : ~SortsBefore(last, r)
        BY <2>1, <2>7 DEF ApplyOutcome
      <3>3. /\ q \in Quote /\ last \in Quote /\ q.key = k /\ last.key = k
            /\ q.ingested \in Int /\ before[k].quote.ingested \in Int
        BY <2>1, <2>2 DEF Handled, TypeOK, Quote
      <3>4. Effective(last) = Effective(current[k].quote)
        BY <3>2 DEF Fingerprint
      <3>5. Effective(last) >= Effective(q)
        BY <3>2, <3>3, LaterIsNotOlder
      <3>6. /\ Effective(q) \in Int
            /\ Effective(before[k].quote) - Effective(q) <= SkewTolerance
            /\ Effective(q) < Effective(before[k].quote) =>
                 q.ingested > before[k].quote.ingested
        BY <2>4, <3>1, <3>3, EffectiveType, PolicyAssumption
           DEF Accepts, FarBackward, UnconfirmedBackward
      <3> QED BY <2>4, <2>5, <3>4, <3>5, <3>6, PolicyAssumption
    <2> QED BY <2>6, <2>7
  <1> QED BY <1>1, Invariance, PTL

\* evict_stale is invisible to fresh_versions, now and later.
THEOREM EvictionIsInvisible == Spec => EvictionInvisible
  <1>1. TypeOK /\ [Next]_vars =>
          [EvictStale => \A moment \in now..MaxTime : FreshKeys(moment)' = FreshKeys(moment)]_vars
    <2> SUFFICES ASSUME TypeOK, EvictStale, NEW moment \in now..MaxTime
                 PROVE  FreshKeys(moment)' = FreshKeys(moment)
      OBVIOUS
    <2>1. now \in Int /\ moment \in Int /\ moment >= now
      BY BoundAssumption DEF TypeOK
    <2>2. ASSUME NEW k \in Keys
          PROVE  k \in FreshKeys(moment)' <=> k \in FreshKeys(moment)
      <3>1. current'[k] = IF k \in EvictedKeys(now) THEN NoVersion ELSE current[k]
        BY DEF EvictStale
      <3>2. CASE k \in EvictedKeys(now)
        <4>1. current[k] # NoVersion /\ current[k] \in Version /\ Evictable(current[k], now)
          BY <3>2 DEF EvictedKeys, Stored, TypeOK
        <4>2. Effective(current[k].quote) \in Int
          BY <4>1, EffectiveType DEF Version
        <4>3. k \notin FreshKeys(moment)
          BY <2>1, <4>1, <4>2, PolicyAssumption DEF FreshKeys, Evictable, Expired
        <4> QED BY <3>1, <3>2, <4>3 DEF FreshKeys, Stored
      <3>3. CASE k \notin EvictedKeys(now)
        BY <3>1, <3>3 DEF FreshKeys, Stored, Expired, Effective
      <3> QED BY <3>2, <3>3
    <2> QED BY <2>2 DEF FreshKeys, Stored
  <1> QED BY <1>1, TypeCorrect, PTL DEF Spec, EvictionInvisible
=============================================================================
