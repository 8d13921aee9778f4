---------------------------- MODULE ReplayProofs ----------------------------
(***************************************************************************)
(* Proofs about Replay for every corpus, configuration, market and set of  *)
(* bookmakers.                                                             *)
(***************************************************************************)
EXTENDS Replay, FiniteSetTheorems, SequenceTheorems, TLAPS

-----------------------------------------------------------------------------
(* Least elements                                                          *)

\* A strict order on a finite set that is not empty has an element that none
\* precedes.
LEMMA FiniteMinimal ==
  ASSUME NEW S, IsFiniteSet(S), S # {}, NEW R,
         \A x \in S : <<x, x>> \notin R,
         \A x, y, z \in S : <<x, y>> \in R /\ <<y, z>> \in R => <<x, z>> \in R
  PROVE  \E x \in S : \A y \in S : <<y, x>> \notin R
  <1> DEFINE Below(x) == {y \in S : <<y, x>> \in R}
             belows == {Below(x) : x \in S}
  <1>1. belows # {} /\ belows \subseteq SUBSET S
    <2>1. PICK x \in S : TRUE
      OBVIOUS
    <2>2. Below(x) \in belows
      BY <2>1
    <2>3. \A y \in S : Below(y) \subseteq S
      OBVIOUS
    <2> HIDE DEF Below
    <2> QED BY <2>2, <2>3
  <1>2. IsWellFoundedOn(StrictSubsetOrdering(S), SUBSET S)
    BY FS_StrictSubsetOrderingWellFounded, FS_FiniteSubsetsOfFinite
  <1> HIDE DEF belows
  <1>3. PICK X \in belows : \A Y \in belows : <<Y, X>> \notin StrictSubsetOrdering(S)
    BY <1>1, <1>2, WFMin
  <1>4. PICK x \in S : X = Below(x)
    BY <1>3 DEF belows
  <1>5. SUFFICES ASSUME NEW y \in S, <<y, x>> \in R PROVE FALSE
    BY <1>4
  <1>6. Below(y) \subseteq Below(x) /\ y \in Below(x) /\ y \notin Below(y) /\ Below(y) \in belows
    BY <1>5 DEF belows
  <1>7. <<Below(y), X>> \in StrictSubsetOrdering(S)
    BY <1>4, <1>6 DEF StrictSubsetOrdering
  <1> QED BY <1>3, <1>6, <1>7

\* A finite set of integers that is not empty has a least and a greatest element.
LEMMA FiniteExtremes ==
  ASSUME NEW S \in SUBSET Int, IsFiniteSet(S), S # {}
  PROVE  /\ \E x \in S : \A y \in S : x <= y
         /\ Max(S) \in S /\ \A y \in S : y <= Max(S)
  <1> DEFINE up == {p \in S \X S : p[1] < p[2]}
             down == {p \in S \X S : p[1] > p[2]}
  <1>1. \A x, y \in S : (<<x, y>> \in up <=> x < y) /\ (<<x, y>> \in down <=> x > y)
    OBVIOUS
  <1> HIDE DEF up, down
  <1>2. /\ \A x \in S : <<x, x>> \notin up /\ <<x, x>> \notin down
        /\ \A x, y, z \in S : <<x, y>> \in up /\ <<y, z>> \in up => <<x, z>> \in up
        /\ \A x, y, z \in S : <<x, y>> \in down /\ <<y, z>> \in down => <<x, z>> \in down
    BY <1>1
  <1>3. PICK x \in S : \A y \in S : <<y, x>> \notin up
    BY <1>2, FiniteMinimal
  <1>4. PICK z \in S : \A y \in S : <<y, z>> \notin down
    BY <1>2, FiniteMinimal
  <1>5. ASSUME NEW y \in S PROVE x <= y /\ z >= y
    <2>1. ~(y < x) /\ ~(y > z)
      BY <1>1, <1>3, <1>4
    <2>2. x \in Int /\ y \in Int /\ z \in Int
      OBVIOUS
    <2> QED BY <2>1, <2>2
  <1>6. \E w \in S : \A y \in S : w >= y
    BY <1>5
  <1>7. Max(S) \in S /\ \A y \in S : Max(S) >= y
    BY <1>6 DEF Max
  <1> QED BY <1>5, <1>7

\* What a function makes of a finite set is finite.
LEMMA ImageIsFinite ==
  ASSUME NEW S, IsFiniteSet(S), NEW f, f = [x \in S |-> f[x]]
  PROVE  IsFiniteSet({f[x] : x \in S})
  <1>1. f \in Surjection(S, {f[x] : x \in S})
    BY DEF Surjection
  <1> QED BY <1>1, FS_Surjection

\* A set of places of a sequence that is not empty has a first one.
LEMMA FirstPlace ==
  ASSUME NEW n \in Nat, NEW T \in SUBSET (0..n), T # {}
  PROVE  \E i \in T : \A j \in T : i <= j
  <1>1. IsFiniteSet(0..n)
    <2>1. 0 \in Int /\ n \in Int
      OBVIOUS
    <2> QED BY <2>1, FS_Interval
  <1>2. IsFiniteSet(T)
    BY <1>1, FS_Subset
  <1>3. T \in SUBSET Int
    OBVIOUS
  <1> QED BY <1>2, <1>3, FiniteExtremes

-----------------------------------------------------------------------------
(* The live store                                                          *)

NoVersions == [k \in Keys |-> NoVersion]

\* A function satisfies the equation of LiveHistory up to place n.
IsHistory(f, batches, moment, n) ==
  f = [i \in 0..n |-> IF i = 0 THEN NoVersions ELSE LiveStep(f[i - 1], batches[i], moment)]

\* There is one for every n: the first place without one could be added to the
\* history before it.
LEMMA HistoryExists ==
  ASSUME NEW batches, NEW moment, NEW n \in Nat
  PROVE  \E f : IsHistory(f, batches, moment, n)
  <1> DEFINE bad == {i \in 0..n : ~\E f : IsHistory(f, batches, moment, i)}
  <1>1. SUFFICES ASSUME bad # {} PROVE FALSE
    OBVIOUS
  <1> HIDE DEF bad
  <1>2. PICK i \in bad : \A j \in bad : i <= j
    <2>1. bad \in SUBSET (0..n)
      BY DEF bad
    <2> QED BY <1>1, <2>1, FirstPlace
  <1>3. i \in 0..n /\ ~\E f : IsHistory(f, batches, moment, i)
    BY <1>2 DEF bad
  <1>4. i # 0
    <2>1. IsHistory([j \in 0..0 |-> NoVersions], batches, moment, 0)
      BY DEF IsHistory
    <2> QED BY <1>3, <2>1
  <1>5. PICK f : IsHistory(f, batches, moment, i - 1)
    <2>1. i - 1 \in 0..n /\ i - 1 < i
      BY <1>3, <1>4
    <2>2. i - 1 \notin bad
      BY <1>2, <1>3, <2>1
    <2> QED BY <2>1, <2>2 DEF bad
  <1> DEFINE last == LiveStep(f[i - 1], batches[i], moment)
             g == [j \in 0..i |-> IF j = i THEN last ELSE f[j]]
  <1>6. ASSUME NEW j \in 0..i
        PROVE  g[j] = IF j = 0 THEN NoVersions ELSE LiveStep(g[j - 1], batches[j], moment)
    <2>1. CASE j = 0
      <3>1. f[0] = NoVersions
        BY <1>3, <1>4, <1>5 DEF IsHistory
      <3> QED BY <1>3, <1>4, <2>1, <3>1
    <2>2. CASE j # 0 /\ j # i
      <3>1. j \in 0..(i - 1) /\ j - 1 \in 0..i /\ j - 1 # i
        BY <1>3, <2>2
      <3>2. f[j] = LiveStep(f[j - 1], batches[j], moment)
        BY <1>5, <2>2, <3>1 DEF IsHistory
      <3> QED BY <2>2, <3>1, <3>2
    <2>3. CASE j = i
      <3>1. i - 1 \in 0..i /\ i - 1 # i /\ i \in 0..i
        BY <1>3, <1>4
      <3>2. g[i] = last /\ g[i - 1] = f[i - 1]
        BY <3>1
      <3> QED BY <1>4, <2>3, <3>2
    <2> QED BY <2>1, <2>2, <2>3
  <1>7. g = [j \in 0..i |-> g[j]]
    OBVIOUS
  <1> HIDE DEF g
  <1>8. IsHistory(g, batches, moment, i)
    BY <1>6, <1>7 DEF IsHistory
  <1> QED BY <1>3, <1>8

\* So LiveHistory is what its equation says.
LEMMA HistoryEquation ==
  ASSUME NEW batches, Len(batches) \in Nat, NEW moment
  PROVE  /\ LiveHistory(batches, moment)[0] = NoVersions
         /\ \A i \in 1..Len(batches) :
              LiveHistory(batches, moment)[i]
                = LiveStep(LiveHistory(batches, moment)[i - 1], batches[i], moment)
  <1> DEFINE n == Len(batches)
             h == LiveHistory(batches, moment)
  <1>1. h = CHOOSE f : IsHistory(f, batches, moment, n)
    BY DEF LiveHistory, IsHistory, NoVersions
  <1>2. IsHistory(h, batches, moment, n)
    BY <1>1, HistoryExists
  <1> HIDE DEF h
  <1>3. h[0] = NoVersions
    BY <1>2 DEF IsHistory
  <1>4. ASSUME NEW i \in 1..n PROVE h[i] = LiveStep(h[i - 1], batches[i], moment)
    <2>1. i \in 0..n /\ i # 0
      OBVIOUS
    <2> QED BY <1>2, <2>1 DEF IsHistory
  <1> QED BY <1>3, <1>4 DEF h

\* Batches that the moment has not seen change nothing.
LEMMA HistoryStops ==
  ASSUME NEW batches, Len(batches) \in Nat, NEW moment \in Int, NEW n \in 0..Len(batches),
         \A i \in (n + 1)..Len(batches) : batches[i].observed > moment
  PROVE  LiveHistory(batches, moment)[Len(batches)] = LiveHistory(batches, moment)[n]
  <1> DEFINE h == LiveHistory(batches, moment)
             bad == {i \in n..Len(batches) : h[i] # h[n]}
  <1>0. h[0] = NoVersions /\ \A i \in 1..Len(batches) : h[i] = LiveStep(h[i - 1], batches[i], moment)
    BY HistoryEquation
  <1> HIDE DEF h
  <1>1. SUFFICES ASSUME bad # {} PROVE FALSE
    BY DEF h
  <1>2. PICK i \in bad : \A j \in bad : i <= j
    <2>1. bad \in SUBSET (0..Len(batches))
      OBVIOUS
    <2> HIDE DEF bad
    <2> QED BY <1>1, <2>1, FirstPlace
  <1>3. i \in n..Len(batches) /\ h[i] # h[n] /\ i # n
    OBVIOUS
  <1>4. i - 1 \in n..Len(batches) /\ i \in (n + 1)..Len(batches) /\ i \in 1..Len(batches)
    BY <1>3
  <1>5. i - 1 \notin bad
    <2> HIDE DEF bad
    <2> QED BY <1>2, <1>4
  <1>6. h[i - 1] = h[n]
    BY <1>4, <1>5
  <1>7. h[i] = h[i - 1]
    BY <1>0, <1>4 DEF LiveStep
  <1> QED BY <1>3, <1>6, <1>7

-----------------------------------------------------------------------------
(* The replay's store and the live store                                   *)

AllActive(quotes) == \A q \in quotes : q.status = "active"

IsBatch(b) == b \in [observed : Int, quotes : SUBSET Store!Quote] /\ ValidBatch(b)

\* A batch replaces the version of a key by the one quote it has of it, or
\* leaves it.
LEMMA AppliedIsChoice ==
  ASSUME NEW held, IsHeld(held), NEW b, IsBatch(b), NEW k \in Keys
  PROVE  \/ /\ Applied(held, b)[k] = held[k]
            /\ \A q \in b.quotes : q.key = k => ~Store!Accepts(held[k], q, b.observed)
         \/ \E q \in b.quotes :
              /\ q.key = k /\ Store!Accepts(held[k], q, b.observed)
              /\ Applied(held, b)[k] # NoVersion
              /\ Applied(held, b)[k] \in Store!Version
              /\ Applied(held, b)[k].quote = q
  <1> DEFINE accepted == {q \in b.quotes : q.key = k /\ Store!Accepts(held[k], q, b.observed)}
             chosen == CHOOSE q \in accepted : TRUE
  <1>1. Applied(held, b)[k] = IF accepted = {} THEN held[k] ELSE Store!NextVersion(held[k], chosen, b.observed)
    BY DEF Applied
  <1>2. CASE accepted = {}
    BY <1>1, <1>2
  <1>3. CASE accepted # {}
    <2>1. chosen \in accepted
      BY <1>3
    <2>2. Applied(held, b)[k] = Store!NextVersion(held[k], chosen, b.observed)
      BY <1>1, <1>3
    <2> HIDE DEF chosen
    <2>3. chosen \in b.quotes /\ chosen.key = k /\ Store!Accepts(held[k], chosen, b.observed)
      BY <2>1
    <2>4. chosen \in Store!Quote /\ b.observed \in Int
      BY <2>3 DEF IsBatch
    <2>5. IF held[k] = NoVersion THEN TRUE ELSE held[k].revision \in Nat \ {0}
      BY DEF IsHeld, Store!Version
    <2>6. Applied(held, b)[k] \in Store!Version /\ Applied(held, b)[k].quote = chosen
      BY <2>2, <2>4, <2>5 DEF Store!NextVersion, Store!Version
    <2>7. Applied(held, b)[k] # NoVersion
      BY <2>6, NoVersionAssumption
    <2> QED BY <2>3, <2>6, <2>7
  <1> QED BY <1>2, <1>3

\* The store keeps versions of their own key.
LEMMA AppliedIsHeld ==
  ASSUME NEW held, IsHeld(held), NEW b, IsBatch(b)
  PROVE  IsHeld(Applied(held, b)) /\ Applied(held, b) = [k \in Keys |-> Applied(held, b)[k]]
  <1>1. ASSUME NEW k \in Keys, Applied(held, b)[k] # NoVersion
        PROVE  Applied(held, b)[k] \in Store!Version /\ Applied(held, b)[k].quote.key = k
    BY <1>1, AppliedIsChoice DEF IsHeld
  <1>2. Applied(held, b) = [k \in Keys |-> Applied(held, b)[k]]
    BY DEF Applied
  <1> QED BY <1>1, <1>2 DEF IsHeld

\* The times of a quote are numbers, and both stores read them alike.
LEMMA QuoteTimes ==
  ASSUME NEW q \in Store!Quote
  PROVE  /\ EffectiveAt(q) \in Int /\ q.ingested \in Int /\ q.key \in Nat /\ q.key \in Keys
         /\ Price[q.offer] \in Nat \ {0}
         /\ Store!Effective(q) = EffectiveAt(q) /\ LiveWindow!Effective(q) = EffectiveAt(q)
  <1>1. q.offer \in Offers /\ q.key \in Keys /\ q.ingested \in Int /\ EffectiveAt(q) \in Int
    BY DEF Store!Quote, EffectiveAt
  <1>2. Price[q.offer] \in Nat \ {0}
    BY <1>1, MarketAssumption
  <1>3. q.key \in Nat
    BY <1>1, KeysAssumption
  <1>4. Store!Effective(q) = EffectiveAt(q) /\ LiveWindow!Effective(q) = EffectiveAt(q)
    BY DEF Store!Effective, LiveWindow!Effective, EffectiveAt
  <1> QED BY <1>1, <1>2, <1>3, <1>4

\* What is out of the window stays out of it.
LEMMA ExpiredStays ==
  ASSUME NEW version \in Store!Version, NEW m \in Int, NEW n \in Int, m <= n,
         LiveWindow!Expired(version, m)
  PROVE  LiveWindow!Expired(version, n)
  <1>1. version.quote \in Store!Quote
    BY DEF Store!Version
  <1>2. EffectiveAt(version.quote) \in Int /\ LiveWindow!Effective(version.quote) = EffectiveAt(version.quote)
    BY <1>1, QuoteTimes
  <1>3. FreshnessWindow \in Int
    BY WindowAssumption
  <1> QED BY <1>2, <1>3 DEF LiveWindow!Expired

\* Two versions of one quote accept the same.
LEMMA AcceptAlike ==
  ASSUME NEW v, NEW w, NEW q, NEW m, v # NoVersion, w # NoVersion, v.quote = w.quote
  PROVE  Store!Accepts(v, q, m) <=> Store!Accepts(w, q, m)
  BY DEF Store!Accepts, Store!FarBackward, Store!Duplicate, Store!UnconfirmedBackward

\* A quote that only a version out of the window keeps out is itself out of the
\* window.
LEMMA RefusedIsExpired ==
  ASSUME NEW v \in Store!Version, NEW q \in Store!Quote, NEW m \in Int, NEW w \in Store!Version,
         w.quote = q, LiveWindow!Expired(v, m),
         Store!Accepts(NoVersion, q, m), ~Store!Accepts(v, q, m)
  PROVE  LiveWindow!Expired(w, m)
  <1>1. /\ v.quote \in Store!Quote /\ v # NoVersion
    BY NoVersionAssumption DEF Store!Version
  <1>2. /\ EffectiveAt(v.quote) \in Int /\ EffectiveAt(q) \in Int
        /\ Store!Effective(q) = EffectiveAt(q) /\ LiveWindow!Effective(q) = EffectiveAt(q)
        /\ Store!Effective(v.quote) = EffectiveAt(v.quote)
        /\ LiveWindow!Effective(v.quote) = EffectiveAt(v.quote)
    BY <1>1, QuoteTimes
  <1>3. Store!FarBackward(v, q) \/ Store!Duplicate(v, q) \/ Store!UnconfirmedBackward(v, q)
    BY <1>1 DEF Store!Accepts
  <1>4. SkewTolerance \in Nat /\ FreshnessWindow \in Nat
    BY WindowAssumption
  <1>5. EffectiveAt(q) <= EffectiveAt(v.quote)
    <2>1. CASE Store!FarBackward(v, q)
      BY <1>2, <1>4, <2>1 DEF Store!FarBackward
    <2>2. CASE Store!Duplicate(v, q)
      BY <1>2, <2>2 DEF Store!Duplicate, Store!Fingerprint
    <2>3. CASE Store!UnconfirmedBackward(v, q)
      BY <1>2, <2>3 DEF Store!UnconfirmedBackward
    <2> QED BY <1>3, <2>1, <2>2, <2>3
  <1> QED BY <1>2, <1>4, <1>5 DEF LiveWindow!Expired

\* A batch, followed by an eviction in the live store, keeps them agreeing.
LEMMA StepAgrees ==
  ASSUME NEW held, IsHeld(held), NEW live, IsHeld(live), NEW m \in Int, Agrees(held, live, m),
         NEW b, IsBatch(b), AllActive(b.quotes), m <= b.observed
  PROVE  /\ IsHeld(Evicted(Applied(live, b), b.observed))
         /\ Agrees(Applied(held, b), Evicted(Applied(live, b), b.observed), b.observed)
  <1> DEFINE t == b.observed
             h(k) == Applied(held, b)[k]
             a(k) == Applied(live, b)[k]
             l(k) == Evicted(Applied(live, b), t)[k]
  <1>1. ASSUME NEW k \in Keys
        PROVE  l(k) = IF a(k) # NoVersion /\ LiveWindow!Evictable(a(k), t) THEN NoVersion ELSE a(k)
    BY DEF Evicted
  <1>2. t \in Int
    BY DEF IsBatch
  <1>3. IsHeld(Evicted(Applied(live, b), t))
    <2> SUFFICES ASSUME NEW k \in Keys, l(k) # NoVersion
                 PROVE  l(k) \in Store!Version /\ l(k).quote.key = k
      BY DEF IsHeld
    <2>1. l(k) = a(k)
      BY <1>1
    <2> QED BY <2>1, AppliedIsHeld DEF IsHeld
  <1>4. ASSUME NEW k \in Keys
        PROVE  /\ h(k) # NoVersion => h(k).quote.status = "active"
               /\ \/ h(k) = NoVersion /\ a(k) = NoVersion
                  \/ h(k) # NoVersion /\ a(k) # NoVersion /\ a(k).quote = h(k).quote
                  \/ /\ h(k) # NoVersion /\ LiveWindow!Expired(h(k), t)
                     /\ a(k) # NoVersion => LiveWindow!Expired(a(k), t)
    <2>1. \A q, r \in b.quotes : q.key = r.key => q = r
      BY DEF IsBatch, ValidBatch
    <2>2. \A q \in b.quotes : q.status = "active"
      BY DEF AllActive
    <2>3. CASE held[k] = NoVersion
      <3>1. live[k] = NoVersion
        BY <2>3 DEF Agrees
      <3> HIDE DEF h, a
      <3> QED BY <2>1, <2>2, <2>3, <3>1, AppliedIsChoice DEF h, a
    <2>4. CASE held[k] # NoVersion /\ live[k] # NoVersion
      <3>1. live[k].quote = held[k].quote /\ held[k].quote.status = "active"
        BY <2>4 DEF Agrees
      <3>2. \A q : Store!Accepts(held[k], q, t) <=> Store!Accepts(live[k], q, t)
        BY <2>4, <3>1, AcceptAlike
      <3>3. \/ h(k) = held[k] /\ \A q \in b.quotes : q.key = k => ~Store!Accepts(held[k], q, t)
            \/ \E q \in b.quotes : /\ q.key = k /\ Store!Accepts(held[k], q, t)
                                   /\ h(k) # NoVersion /\ h(k).quote = q
        BY AppliedIsChoice
      <3>4. \/ a(k) = live[k] /\ \A q \in b.quotes : q.key = k => ~Store!Accepts(live[k], q, t)
            \/ \E q \in b.quotes : /\ q.key = k /\ Store!Accepts(live[k], q, t)
                                   /\ a(k) # NoVersion /\ a(k).quote = q
        BY AppliedIsChoice
      <3> HIDE DEF h, a, t
      <3> QED BY <2>1, <2>2, <2>4, <3>1, <3>2, <3>3, <3>4
    <2>5. CASE held[k] # NoVersion /\ live[k] = NoVersion
      <3>1. held[k] \in Store!Version /\ held[k].quote.status = "active"
        BY <2>5 DEF Agrees, IsHeld
      <3>2. LiveWindow!Expired(held[k], t)
        <4>1. LiveWindow!Expired(held[k], m)
          BY <2>5 DEF Agrees
        <4> QED BY <1>2, <3>1, <4>1, ExpiredStays
      <3>3. \/ h(k) = held[k] /\ \A q \in b.quotes : q.key = k => ~Store!Accepts(held[k], q, t)
            \/ \E q \in b.quotes : /\ q.key = k /\ Store!Accepts(held[k], q, t)
                                   /\ h(k) # NoVersion /\ h(k).quote = q
        BY AppliedIsChoice
      <3>4. \/ a(k) = live[k] /\ \A q \in b.quotes : q.key = k => ~Store!Accepts(live[k], q, t)
            \/ \E q \in b.quotes : /\ q.key = k /\ Store!Accepts(live[k], q, t)
                                   /\ a(k) # NoVersion /\ a(k) \in Store!Version /\ a(k).quote = q
        BY AppliedIsChoice
      <3>5. \A q : Store!Accepts(held[k], q, t) => Store!Accepts(live[k], q, t)
        BY <2>5 DEF Store!Accepts
      <3>6. \A q \in b.quotes : q \in Store!Quote
        BY DEF IsBatch
      <3> HIDE DEF h, a, t
      <3>7. CASE h(k) = held[k] /\ \A q \in b.quotes : q.key = k => ~Store!Accepts(held[k], q, t)
        <4>1. CASE a(k) = live[k]
          BY <2>5, <3>1, <3>2, <3>7, <4>1
        <4>2. CASE a(k) # live[k]
          <5>1. PICK q \in b.quotes : /\ q.key = k /\ Store!Accepts(live[k], q, t)
                                      /\ a(k) \in Store!Version /\ a(k).quote = q
            BY <3>4, <4>2
          <5>2. Store!Accepts(NoVersion, q, t) /\ ~Store!Accepts(held[k], q, t)
            BY <2>5, <3>7, <5>1
          <5>3. LiveWindow!Expired(a(k), t)
            BY <1>2, <3>1, <3>2, <3>6, <5>1, <5>2, RefusedIsExpired
          <5> QED BY <2>5, <3>1, <3>2, <3>7, <5>3
        <4> QED BY <4>1, <4>2
      <3>8. CASE \E q \in b.quotes : /\ q.key = k /\ Store!Accepts(held[k], q, t)
                                     /\ h(k) # NoVersion /\ h(k).quote = q
        BY <2>1, <2>2, <3>4, <3>5, <3>8
      <3> QED BY <3>3, <3>7, <3>8
    <2> QED BY <2>3, <2>4, <2>5
  <1>5. ASSUME NEW k \in Keys
        PROVE  /\ h(k) # NoVersion => h(k).quote.status = "active"
               /\ h(k) = NoVersion => l(k) = NoVersion
               /\ l(k) # NoVersion => l(k).quote = h(k).quote
               /\ h(k) # NoVersion /\ l(k) = NoVersion => LiveWindow!Expired(h(k), t)
    <2>1. a(k) # NoVersion /\ LiveWindow!Expired(a(k), t) => LiveWindow!Evictable(a(k), t)
      BY DEF LiveWindow!Evictable
    <2>2. a(k) # NoVersion /\ h(k) # NoVersion /\ a(k).quote = h(k).quote =>
            (LiveWindow!Evictable(a(k), t) => LiveWindow!Expired(h(k), t))
      BY <1>4 DEF LiveWindow!Evictable, LiveWindow!Expired
    <2>3. l(k) = IF a(k) # NoVersion /\ LiveWindow!Evictable(a(k), t) THEN NoVersion ELSE a(k)
      BY <1>1
    <2> HIDE DEF h, a, l, t
    <2> QED BY <1>4, <2>1, <2>2, <2>3
  <1>6. Agrees(Applied(held, b), Evicted(Applied(live, b), t), t)
    BY <1>5 DEF Agrees
  <1> QED BY <1>3, <1>6

-----------------------------------------------------------------------------
(* Consolidation and books                                                 *)

\* Quotes of different keys.
Keyed(quotes) ==
  /\ quotes \subseteq Store!Quote
  /\ \A q, r \in quotes : q.key = r.key => q = r

\* There are no more of them than keys.
LEMMA KeyedIsFinite ==
  ASSUME NEW quotes, Keyed(quotes)
  PROVE  IsFiniteSet(quotes)
  <1> DEFINE f == [q \in quotes |-> q.key]
  <1>1. f \in Injection(quotes, Keys)
    BY QuoteTimes DEF Keyed, Injection, IsInjective
  <1> HIDE DEF f
  <1>2. IsFiniteSet(Keys)
    BY KeysAssumption
  <1> QED BY <1>1, <1>2, FS_Injection

\* One of two different quotes is better.
LEMMA BetterIsTotal ==
  ASSUME NEW quotes, Keyed(quotes)
  PROVE  /\ \A q \in quotes : ~BetterQuote(q, q)
         /\ \A x, y, z \in quotes : BetterQuote(x, y) /\ BetterQuote(y, z) => BetterQuote(x, z)
         /\ \A x, y \in quotes : x # y => BetterQuote(x, y) \/ BetterQuote(y, x)
  <1>1. \A q \in quotes : EffectiveAt(q) \in Int /\ Price[q.offer] \in Int /\ q.key \in Int
    BY QuoteTimes DEF Keyed
  <1>2. \A x, y \in quotes : x # y => x.key # y.key
    BY DEF Keyed
  <1> QED BY <1>1, <1>2 DEF BetterQuote

\* _best_quote is the one candidate that none is better than.
LEMMA BestIsBest ==
  ASSUME NEW quotes, Keyed(quotes), quotes # {}
  PROVE  /\ BestQuote(quotes) \in quotes
         /\ \A q \in quotes : ~BetterQuote(q, BestQuote(quotes))
         /\ \A q \in quotes : (\A r \in quotes : ~BetterQuote(r, q)) => q = BestQuote(quotes)
  <1> DEFINE R == {p \in quotes \X quotes : BetterQuote(p[1], p[2])}
  <1>1. \A q, r \in quotes : <<q, r>> \in R <=> BetterQuote(q, r)
    OBVIOUS
  <1>2. IsFiniteSet(quotes)
    BY KeyedIsFinite
  <1> HIDE DEF R
  <1>3. \E q \in quotes : \A r \in quotes : <<r, q>> \notin R
    BY <1>1, <1>2, BetterIsTotal, FiniteMinimal
  <1>4. \E q \in quotes : \A r \in quotes \ {q} : ~BetterQuote(r, q)
    BY <1>1, <1>3
  <1>5. BestQuote(quotes) \in quotes /\ \A r \in quotes \ {BestQuote(quotes)} : ~BetterQuote(r, BestQuote(quotes))
    BY <1>4 DEF BestQuote
  <1> QED BY <1>5, BetterIsTotal

\* Consolidation selects among its input.
LEMMA ConsolidatedIsPart ==
  ASSUME NEW quotes
  PROVE  ConsolidateQuotes(quotes) \subseteq quotes
  BY DEF ConsolidateQuotes, Consolidated, NewestOf

\* A book has a quote of each selection, and no candidate is better.
LEMMA BookLegs ==
  ASSUME NEW quotes, Keyed(quotes), NEW moment, BookExists(quotes, moment)
  PROVE  /\ Book(quotes) \in [Selections -> quotes]
         /\ \A s \in Selections : /\ SelectionOf[Book(quotes)[s].key] = s
                                  /\ \A q \in Candidates(quotes, s) : ~BetterQuote(q, Book(quotes)[s])
  <1>1. ASSUME NEW s \in Selections
        PROVE  /\ Book(quotes)[s] \in Candidates(quotes, s)
               /\ \A q \in Candidates(quotes, s) : ~BetterQuote(q, Book(quotes)[s])
    <2>1. Candidates(quotes, s) # {} /\ Keyed(Candidates(quotes, s))
      BY DEF BookExists, Candidates, Keyed
    <2> QED BY <2>1, BestIsBest DEF Book
  <1>2. Book(quotes) \in [Selections -> quotes]
    BY <1>1 DEF Book, Candidates
  <1> QED BY <1>1, <1>2 DEF Candidates

\* The replay's quotes are of different keys.
LEMMA CurrentQuotesKeyed ==
  ASSUME IsHeld(versions)
  PROVE  Keyed(CurrentQuotes)
  <1>1. \A k \in Store!FreshKeys(Moment) : k \in Keys /\ versions[k] # NoVersion
    BY DEF Store!FreshKeys, Store!Stored
  <1>2. \A k \in Store!FreshKeys(Moment) : versions[k].quote \in Store!Quote /\ versions[k].quote.key = k
    BY <1>1 DEF IsHeld, Store!Version
  <1> QED BY <1>2 DEF CurrentQuotes, Keyed

\* What the replay calls fresh is what a live store that agrees holds.
LEMMA FreshAlike ==
  ASSUME IsHeld(versions), NEW live, IsHeld(live), Moment \in Int, Agrees(versions, live, Moment)
  PROVE  {q \in CurrentQuotes : Age(q, Moment) <= FreshnessWindow}
           = {live[k].quote : k \in {x \in Keys :
                /\ live[x] # NoVersion
                /\ live[x].quote.status = "active"
                /\ live[x].quote.ingested <= Moment
                /\ Age(live[x].quote, Moment) \in 0..FreshnessWindow}}
  <1> DEFINE t == Moment
             fresh == {x \in Keys : /\ live[x] # NoVersion /\ live[x].quote.status = "active"
                                    /\ live[x].quote.ingested <= t
                                    /\ Age(live[x].quote, t) \in 0..FreshnessWindow}
             mine == {k \in Store!FreshKeys(t) : Age(versions[k].quote, t) <= FreshnessWindow}
  <1>1. FreshnessWindow \in Nat /\ Unlimited \in Nat /\ FreshnessWindow <= Unlimited /\ t \in Int
    BY WindowAssumption
  <1>2. {q \in CurrentQuotes : Age(q, t) <= FreshnessWindow} = {versions[k].quote : k \in mine}
    BY DEF CurrentQuotes
  <1> HIDE DEF t
  <1>3. ASSUME NEW k \in Keys
        PROVE  /\ k \in mine => k \in fresh /\ live[k].quote = versions[k].quote
               /\ k \in fresh => k \in mine /\ live[k].quote = versions[k].quote
    <2>1. CASE versions[k] = NoVersion
      BY <2>1 DEF Agrees, Store!FreshKeys, Store!Stored
    <2>2. CASE versions[k] # NoVersion
      <3> DEFINE q == versions[k].quote
      <3>1. versions[k] \in Store!Version /\ q \in Store!Quote
        BY <2>2 DEF IsHeld, Store!Version
      <3>2. /\ EffectiveAt(q) \in Int /\ q.ingested \in Int
            /\ Store!Effective(q) = EffectiveAt(q) /\ LiveWindow!Effective(q) = EffectiveAt(q)
        BY <3>1, QuoteTimes
      <3>3. /\ q.status = "active" /\ (live[k] # NoVersion => live[k].quote = q)
            /\ live[k] = NoVersion => EffectiveAt(q) <= t /\ t - EffectiveAt(q) > FreshnessWindow
        BY <2>2, <3>2 DEF Agrees, LiveWindow!Expired, t
      <3>4. k \in mine <=> /\ q.ingested <= t /\ EffectiveAt(q) <= t
                           /\ ~(EffectiveAt(q) <= t /\ t - EffectiveAt(q) > Unlimited)
                           /\ t - EffectiveAt(q) <= FreshnessWindow
        BY <2>2, <3>2, <3>3 DEF Store!FreshKeys, Store!Stored, Store!Expired, Age
      <3>5. k \in fresh <=> /\ live[k] # NoVersion /\ q.ingested <= t
                            /\ t - EffectiveAt(q) \in 0..FreshnessWindow
        BY <3>3 DEF Age
      <3> HIDE DEF q, mine, fresh
      <3> QED BY <1>1, <3>2, <3>3, <3>4, <3>5 DEF q
    <2> QED BY <2>1, <2>2
  <1>4. mine \subseteq Keys /\ fresh \subseteq Keys
    BY DEF Store!FreshKeys, Store!Stored
  <1> HIDE DEF mine, fresh
  <1>5. {versions[k].quote : k \in mine} = {live[k].quote : k \in fresh}
    BY <1>3, <1>4
  <1> QED BY <1>2, <1>5 DEF fresh, t

-----------------------------------------------------------------------------
(* False positives                                                         *)

\* Consolidating only the quotes since a moment leaves what the consolidation of
\* all leaves of them.
LEMMA ConsolidationNested ==
  ASSUME NEW quotes, Keyed(quotes), NEW c \in Int
  PROVE  ConsolidateQuotes({q \in quotes : EffectiveAt(q) >= c})
           = {q \in ConsolidateQuotes(quotes) : EffectiveAt(q) >= c}
  <1> DEFINE part == {q \in quotes : EffectiveAt(q) >= c}
             all(slot) == NewestOf({q \in quotes : SlotOf[q.key] = slot})
             some(slot) == NewestOf({q \in part : SlotOf[q.key] = slot})
  <1>1. \A q \in quotes : EffectiveAt(q) \in Int
    BY QuoteTimes DEF Keyed
  <1>2. ASSUME NEW slot, NEW q \in all(slot), EffectiveAt(q) >= c PROVE all(slot) = some(slot)
    <2>1. q \in quotes /\ SlotOf[q.key] = slot
          /\ \A r \in quotes : SlotOf[r.key] = slot => EffectiveAt(r) <= EffectiveAt(q)
      BY DEF NewestOf
    <2>2. ASSUME NEW r \in all(slot) PROVE r \in some(slot)
      <3>1. /\ r \in quotes /\ SlotOf[r.key] = slot
            /\ \A x \in quotes : SlotOf[x.key] = slot => EffectiveAt(x) <= EffectiveAt(r)
        BY <2>2 DEF NewestOf
      <3>2. EffectiveAt(r) >= EffectiveAt(q) /\ EffectiveAt(r) \in Int /\ EffectiveAt(q) \in Int
        BY <1>1, <2>1, <3>1
      <3>3. EffectiveAt(r) >= c
        BY <1>2, <3>2
      <3> QED BY <3>1, <3>3 DEF NewestOf
    <2>3. ASSUME NEW r \in some(slot) PROVE r \in all(slot)
      <3>1. /\ r \in quotes /\ SlotOf[r.key] = slot /\ EffectiveAt(r) >= EffectiveAt(q)
        BY <1>2, <2>1, <2>3 DEF NewestOf
      <3>2. ASSUME NEW x \in quotes, SlotOf[x.key] = slot PROVE EffectiveAt(x) <= EffectiveAt(r)
        <4>1. EffectiveAt(x) <= EffectiveAt(q)
          BY <2>1, <3>2
        <4> QED BY <1>1, <2>1, <3>1, <4>1
      <3> QED BY <3>1, <3>2 DEF NewestOf
    <2> QED BY <2>2, <2>3
  <1>3. ASSUME NEW slot, NEW q \in some(slot) PROVE q \in all(slot) /\ EffectiveAt(q) >= c
    <2>1. /\ q \in quotes /\ SlotOf[q.key] = slot /\ EffectiveAt(q) >= c
          /\ \A r \in part : SlotOf[r.key] = slot => EffectiveAt(r) <= EffectiveAt(q)
      BY <1>3 DEF NewestOf
    <2>2. ASSUME NEW r \in quotes, SlotOf[r.key] = slot PROVE EffectiveAt(r) <= EffectiveAt(q)
      <3>1. EffectiveAt(r) \in Int /\ EffectiveAt(q) \in Int
        BY <1>1, <2>1
      <3>2. CASE EffectiveAt(r) >= c
        BY <2>1, <2>2, <3>2
      <3>3. CASE ~(EffectiveAt(r) >= c)
        BY <2>1, <3>1, <3>3
      <3> QED BY <3>2, <3>3
    <2> QED BY <2>1, <2>2 DEF NewestOf
  <1>4. ASSUME NEW slot, NEW q
        PROVE  q \in Consolidated(part, slot) <=> q \in Consolidated(quotes, slot) /\ EffectiveAt(q) >= c
    <2>1. q \in Consolidated(part, slot) => q \in some(slot)
      BY DEF Consolidated
    <2>2. q \in Consolidated(quotes, slot) => q \in all(slot)
      BY DEF Consolidated
    <2>3. all(slot) = some(slot) => Consolidated(part, slot) = Consolidated(quotes, slot)
      BY DEF Consolidated
    <2> HIDE DEF all, some, part
    <2> QED BY <1>2, <1>3, <2>1, <2>2, <2>3
  <1>5. \A slot, q : q \in Consolidated(quotes, slot) => q \in quotes /\ SlotOf[q.key] = slot
    BY DEF Consolidated, NewestOf
  <1>6. ASSUME NEW q
        PROVE  /\ q \in ConsolidateQuotes(quotes) <=> q \in quotes /\ q \in Consolidated(quotes, SlotOf[q.key])
               /\ q \in ConsolidateQuotes(part) <=> q \in part /\ q \in Consolidated(part, SlotOf[q.key])
    <2>1. \A slot : q \in Consolidated(part, slot) => q \in part /\ SlotOf[q.key] = slot
      BY DEF Consolidated, NewestOf
    <2> HIDE DEF part
    <2> QED BY <1>5, <2>1 DEF ConsolidateQuotes
  <1>7. \A q : q \in part <=> q \in quotes /\ EffectiveAt(q) >= c
    OBVIOUS
  <1> HIDE DEF part
  <1>8. \A q : q \in ConsolidateQuotes(part) <=> q \in ConsolidateQuotes(quotes) /\ EffectiveAt(q) >= c
    BY <1>4, <1>6, <1>7
  <1>9. ConsolidateQuotes(part) = {q \in ConsolidateQuotes(quotes) : EffectiveAt(q) >= c}
    BY <1>8
  <1> QED BY <1>9 DEF part

\* The greatest age of quotes is a number.
LEMMA MaxAgeIsMax ==
  ASSUME NEW b, \A s \in Selections : b[s] \in Store!Quote, Selections # {}, Moment \in Int
  PROVE  MaxAge(b) \in Int /\ \A s \in Selections : Age(b[s], Moment) <= MaxAge(b)
  <1> DEFINE age == [s \in Selections |-> Age(b[s], Moment)]
             ages == {age[s] : s \in Selections}
  <1>1. ages # {} /\ ages \in SUBSET Int
    BY QuoteTimes DEF Age
  <1>2. IsFiniteSet(ages)
    <2>1. DOMAIN age = Selections /\ IsFiniteSet(Selections) /\ age = [s \in Selections |-> age[s]]
      BY MarketAssumption
    <2> HIDE DEF age
    <2> QED BY <2>1, ImageIsFinite
  <1>3. \A s \in Selections : Age(b[s], Moment) \in ages
    OBVIOUS
  <1> HIDE DEF ages
  <1>4. Max(ages) \in ages /\ \A x \in ages : x <= Max(ages)
    BY <1>1, <1>2, FiniteExtremes
  <1>5. MaxAge(b) = Max(ages)
    BY DEF MaxAge, ages
  <1> QED BY <1>1, <1>3, <1>4, <1>5

\* So is the relaxed window.
LEMMA RelaxedWindowIsNumber ==
  ASSUME IsHeld(versions), Moment \in Int
  PROVE  CounterfactualWindow \in Int
  <1> DEFINE timely == {x \in CurrentQuotes : EffectiveAt(x) <= Moment /\ x.ingested <= Moment}
             age == [q \in timely |-> Age(q, Moment)]
             ages == {age[q] : q \in timely}
  <1>1. FreshnessWindow \in Int
    BY WindowAssumption
  <1>2. CounterfactualWindow = IF ages = {} THEN FreshnessWindow ELSE Max({FreshnessWindow, Max(ages) + 1})
    BY DEF CounterfactualWindow
  <1>3. IsFiniteSet(timely)
    BY CurrentQuotesKeyed, KeyedIsFinite, FS_Subset
  <1>4. timely \subseteq Store!Quote
    BY CurrentQuotesKeyed DEF Keyed
  <1> HIDE DEF timely
  <1>5. IsFiniteSet(ages)
    <2>1. DOMAIN age = timely /\ age = [q \in timely |-> age[q]]
      OBVIOUS
    <2> HIDE DEF age
    <2> QED BY <1>3, <2>1, ImageIsFinite
  <1>6. ages \in SUBSET Int
    BY <1>4, QuoteTimes DEF Age
  <1> HIDE DEF ages
  <1>7. CASE ages = {}
    BY <1>1, <1>2, <1>7
  <1>8. CASE ages # {}
    <2>1. Max(ages) \in Int
      BY <1>5, <1>6, <1>8, FiniteExtremes
    <2> DEFINE two == {FreshnessWindow, Max(ages) + 1}
    <2>2. two \in SUBSET Int /\ two # {}
      BY <1>1, <2>1
    <2>a. IsFiniteSet(two)
      <3>1. IsFiniteSet({FreshnessWindow})
        BY FS_Singleton
      <3>2. IsFiniteSet({FreshnessWindow} \cup {Max(ages) + 1})
        BY <3>1, FS_AddElement
      <3>3. two = {FreshnessWindow} \cup {Max(ages) + 1}
        OBVIOUS
      <3> QED BY <3>2, <3>3
    <2>3. CounterfactualWindow = Max(two)
      BY <1>2, <1>8
    <2> HIDE DEF two
    <2> QED BY <2>2, <2>a, <2>3, FiniteExtremes
  <1> QED BY <1>7, <1>8

\* The quotes of the configured bookmakers after each consolidation, as far as
\* they may compete for the book.
StrictAble == BookEligible(Of(StrictQuotes, config.providers), Moment)
RelaxedAble ==
  Relaxed!BookEligible(Of(ConsolidatedEligible(CurrentQuotes, CounterfactualWindow), config.providers),
                       Moment)

\* Consolidation keeps the keys apart.
LEMMA AbleIsKeyed ==
  ASSUME IsHeld(versions)
  PROVE  Keyed(StrictQuotes) /\ Keyed(StrictAble) /\ Keyed(RelaxedAble)
  <1>1. \A w : ConsolidatedEligible(CurrentQuotes, w) \subseteq CurrentQuotes
    BY ConsolidatedIsPart DEF ConsolidatedEligible
  <1>2. /\ StrictAble \subseteq CurrentQuotes /\ RelaxedAble \subseteq CurrentQuotes
        /\ StrictQuotes \subseteq CurrentQuotes
    BY <1>1 DEF StrictAble, RelaxedAble, StrictQuotes, BookEligible, Relaxed!BookEligible, Of
  <1> QED BY <1>2, CurrentQuotesKeyed DEF Keyed

\* Relaxing the window adds only quotes outside it: within the window both
\* consolidations leave the same.
LEMMA RelaxationAddsStale ==
  ASSUME IsHeld(versions), Moment \in Int, CounterfactualWindow > FreshnessWindow
  PROVE  StrictAble = {q \in RelaxedAble : Age(q, Moment) <= FreshnessWindow}
  <1> DEFINE t == Moment
             w == CounterfactualWindow
             wide == {q \in CurrentQuotes : Age(q, t) <= w}
             c == t - FreshnessWindow
  <1>1. w \in Int /\ FreshnessWindow \in Nat /\ t \in Int /\ c \in Int /\ w > FreshnessWindow
    BY RelaxedWindowIsNumber, WindowAssumption
  <1>2. Keyed(wide)
    BY CurrentQuotesKeyed DEF Keyed
  <1>3. \A q \in CurrentQuotes : EffectiveAt(q) \in Int
    BY CurrentQuotesKeyed, QuoteTimes DEF Keyed
  <1>4. StrictQuotes = ConsolidateQuotes({q \in CurrentQuotes : Age(q, t) <= FreshnessWindow})
    BY DEF StrictQuotes, ConsolidatedEligible
  <1>5. ConsolidatedEligible(CurrentQuotes, w) = ConsolidateQuotes(wide)
    BY DEF ConsolidatedEligible
  <1>a. ConsolidateQuotes(wide) \subseteq CurrentQuotes
    BY ConsolidatedIsPart
  <1> HIDE DEF t, w
  <1>6. {q \in CurrentQuotes : Age(q, t) <= FreshnessWindow} = {q \in wide : EffectiveAt(q) >= c}
    BY <1>1, <1>3 DEF Age
  <1> HIDE DEF wide, c
  <1>7. StrictQuotes = {q \in ConsolidateQuotes(wide) : EffectiveAt(q) >= c}
    BY <1>1, <1>2, <1>4, <1>6, ConsolidationNested
  <1>8. ASSUME NEW q \in ConsolidateQuotes(wide)
        PROVE  /\ EffectiveAt(q) >= c <=> Age(q, t) <= FreshnessWindow
               /\ Age(q, t) <= FreshnessWindow =>
                    (t - EffectiveAt(q) \in 0..FreshnessWindow <=> t - EffectiveAt(q) \in 0..w)
    <2>1. EffectiveAt(q) \in Int
      BY <1>3, <1>a
    <2> QED BY <1>1, <2>1 DEF Age, c
  <1>9. \A q : q \in RelaxedAble <=>
          /\ q \in ConsolidateQuotes(wide) /\ ProviderOf[q.key] \in config.providers
          /\ q.status = "active" /\ q.ingested <= t /\ t - EffectiveAt(q) \in 0..w
    BY <1>5 DEF RelaxedAble, Relaxed!BookEligible, Relaxed!EffectiveAt, EffectiveAt, Of, t, w
  <1>10. \A q : q \in StrictAble <=>
          /\ q \in ConsolidateQuotes(wide) /\ EffectiveAt(q) >= c /\ ProviderOf[q.key] \in config.providers
          /\ q.status = "active" /\ q.ingested <= t /\ t - EffectiveAt(q) \in 0..FreshnessWindow
    BY <1>7 DEF StrictAble, BookEligible, Of, t
  <1>b. \A q : q \in StrictAble <=> q \in RelaxedAble /\ Age(q, t) <= FreshnessWindow
    BY <1>8, <1>9, <1>10
  <1> QED BY <1>b DEF t

\* A false positive has a leg outside the window: a book of quotes inside it
\* would be the book of the strict quotes.
LEMMA FalsePositiveIsStale ==
  ASSUME IsHeld(versions), Moment \in Int, NEW b \in FalsePositiveBooks
  PROVE  MaxAge(b) \in Int /\ MaxAge(b) > FreshnessWindow /\ Arbitrages(StrictBooks) = {}
  <1>1. /\ ~(CounterfactualWindow <= FreshnessWindow) /\ Arbitrages(StrictBooks) = {}
        /\ BookExists(RelaxedAble, Moment) /\ b = Book(RelaxedAble) /\ IsArbitrage(b)
    BY DEF FalsePositiveBooks, RelaxedBooks, Arbitrages, RelaxedAble
  <1>2. CounterfactualWindow \in Int /\ FreshnessWindow \in Int
    BY RelaxedWindowIsNumber, WindowAssumption
  <1>3. CounterfactualWindow > FreshnessWindow
    BY <1>1, <1>2
  <1>4. Keyed(StrictAble) /\ Keyed(RelaxedAble)
    BY AbleIsKeyed
  <1>5. /\ b \in [Selections -> RelaxedAble]
        /\ \A s \in Selections : /\ SelectionOf[b[s].key] = s
                                 /\ \A q \in Candidates(RelaxedAble, s) : ~BetterQuote(q, b[s])
    BY <1>1, <1>4, BookLegs
  <1>6. Selections # {}
    <2>1. Cardinality(Selections) >= 2
      BY <1>1 DEF BookExists
    <2> QED BY <2>1, FS_EmptySet
  <1>7. \A s \in Selections : b[s] \in Store!Quote
    BY <1>4, <1>5 DEF Keyed
  <1>8. MaxAge(b) \in Int /\ \A s \in Selections : Age(b[s], Moment) <= MaxAge(b)
    BY <1>6, <1>7, MaxAgeIsMax
  <1>9. SUFFICES ASSUME MaxAge(b) <= FreshnessWindow PROVE FALSE
    BY <1>1, <1>2, <1>8
  <1>10. ASSUME NEW s \in Selections
         PROVE  b[s] \in Candidates(StrictAble, s) /\ b[s] = BestQuote(Candidates(StrictAble, s))
    <2>1. Age(b[s], Moment) \in Int
      BY <1>7, QuoteTimes DEF Age
    <2>2. Age(b[s], Moment) <= FreshnessWindow
      BY <1>2, <1>8, <1>9, <2>1
    <2>3. StrictAble = {q \in RelaxedAble : Age(q, Moment) <= FreshnessWindow}
      BY <1>3, RelaxationAddsStale
    <2>4. b[s] \in Candidates(StrictAble, s)
      BY <1>5, <2>2, <2>3 DEF Candidates
    <2>5. \A q \in Candidates(StrictAble, s) : ~BetterQuote(q, b[s])
      BY <1>5, <2>3 DEF Candidates
    <2>6. Keyed(Candidates(StrictAble, s))
      BY <1>4 DEF Keyed, Candidates
    <2> QED BY <2>4, <2>5, <2>6, BestIsBest
  <1>11. Book(StrictAble) = b
    BY <1>5, <1>10 DEF Book
  <1>12. BookExists(StrictAble, Moment)
    BY <1>1, <1>10 DEF BookExists
  <1>13. b \in Arbitrages(StrictBooks)
    BY <1>1, <1>11, <1>12 DEF Arbitrages, StrictBooks, Books, StrictAble
  <1> QED BY <1>1, <1>13

-----------------------------------------------------------------------------
(* The invariant                                                           *)

\* The batches of a corpus and their order.
LEMMA CorpusFacts ==
  ASSUME NEW c \in Corpora, ValidCorpus(c)
  PROVE  /\ Len(c) \in Nat \ {0} /\ DOMAIN c = 1..Len(c)
         /\ \A i \in 1..Len(c) : IsBatch(c[i]) /\ c[i].observed \in Int
         /\ \A i, j \in 1..Len(c) : i < j => c[i].observed < c[j].observed
  <1>1. c \in Seq([observed : Int, quotes : SUBSET Store!Quote]) /\ c # <<>>
    BY CorporaAssumption DEF ValidCorpus
  <1>2. /\ Len(c) \in Nat \ {0} /\ DOMAIN c = 1..Len(c)
        /\ \A i \in 1..Len(c) : c[i] \in [observed : Int, quotes : SUBSET Store!Quote]
    BY <1>1, EmptySeq, LenProperties, ElementOfSeq
  <1>3. \A i \in 1..Len(c) : IsBatch(c[i]) /\ c[i].observed \in Int
    BY <1>2 DEF ValidCorpus, IsBatch
  <1>4. ASSUME NEW i \in 1..Len(c), NEW k \in 1..Len(c), i < k, ~(c[i].observed < c[k].observed)
        PROVE  FALSE
    <2> DEFINE bad == {j \in 0..Len(c) : i < j /\ ~(c[i].observed < c[j].observed)}
    <2>1. k \in bad /\ bad \in SUBSET (0..Len(c))
      BY <1>4
    <2> HIDE DEF bad
    <2>2. PICK j \in bad : \A x \in bad : j <= x
      BY <1>2, <2>1, FirstPlace
    <2>3. j \in 0..Len(c) /\ i < j /\ ~(c[i].observed < c[j].observed)
      BY <2>2 DEF bad
    <2>4. j - 1 \in 1..(Len(c) - 1) /\ j - 1 \in 0..Len(c) /\ j - 1 < j
      BY <1>2, <2>3
    <2>5. c[j - 1].observed < c[j].observed
      <3>1. c[j - 1].observed < c[(j - 1) + 1].observed
        BY <2>4 DEF ValidCorpus
      <3> QED BY <2>3, <3>1
    <2>6. c[i].observed <= c[j - 1].observed
      <3>1. CASE j - 1 = i
        BY <1>3, <3>1
      <3>2. CASE i < j - 1
        <4>1. j - 1 \notin bad
          BY <2>2, <2>3, <2>4
        <4> QED BY <1>3, <2>4, <3>2, <4>1 DEF bad
      <3> QED BY <2>3, <3>1, <3>2
    <2>7. c[i].observed \in Int /\ c[j].observed \in Int /\ c[j - 1].observed \in Int
      BY <1>2, <1>3, <2>3, <2>4
    <2> QED BY <2>3, <2>5, <2>6, <2>7
  <1> QED BY <1>2, <1>3, <1>4

\* The moments of detection are numbers and follow each other.
LEMMA MomentFacts ==
  ASSUME corpus \in Corpora, ValidCorpus(corpus), config \in Configs
  PROVE  /\ \A i \in 1..Len(corpus) : DetectionTime(i) \in Int /\ corpus[i].observed <= DetectionTime(i)
         /\ \A i, j \in 1..Len(corpus) : i < j => DetectionTime(i) < DetectionTime(j)
         /\ \A i, j \in 1..Len(corpus) : i <= j => DetectionTime(i) <= DetectionTime(j)
  <1>1. config.latency \in Nat
    BY ConfigsAssumption
  <1>2. \A i \in 1..Len(corpus) : corpus[i].observed \in Int
    BY CorpusFacts
  <1>3. \A i, j \in 1..Len(corpus) : i < j => corpus[i].observed < corpus[j].observed
    BY CorpusFacts
  <1>4. Len(corpus) \in Nat
    BY CorpusFacts
  <1>5. \A i, j \in 1..Len(corpus) : i <= j => i < j \/ i = j
    BY <1>4
  <1> QED BY <1>1, <1>2, <1>3, <1>4, <1>5 DEF DetectionTime

\* The invariant holds at first, with both stores empty.
LEMMA InitEstablishes == Init => ReplayInv
  <1> SUFFICES ASSUME Init PROVE ReplayInv
    OBVIOUS
  <1>1. corpus \in Corpora /\ ValidCorpus(corpus) /\ config \in Configs
    BY DEF Init
  <1>2. Len(corpus) \in Nat \ {0}
    BY <1>1, CorpusFacts
  <1>3. next = 1 /\ instant = 1 /\ versions = NoVersions
    BY DEF Init, NoVersions
  <1>4. IsHeld(NoVersions)
    BY DEF IsHeld, NoVersions
  <1>5. StoresAgree
    <2>1. \A n \in instant..Len(corpus) : LiveHistory(corpus, DetectionTime(n))[next - 1] = NoVersions
      BY <1>2, <1>3, HistoryEquation
    <2>2. {next - 1} \ {0} = {}
      BY <1>3
    <2> QED BY <1>4, <2>1, <2>2 DEF StoresAgree
  <1>6. DetectionsSoFar /\ FalsePositivesAreStale
    BY DEF Init, DetectionsSoFar, FalsePositivesAreStale
  <1>7. ReplayMatchesLive
    <2>1. 1..(instant - 1) = {}
      BY <1>3
    <2> QED BY <2>1 DEF ReplayMatchesLive
  <1>8. next \in 1..(Len(corpus) + 1) /\ instant \in 1..(Len(corpus) + 1)
    BY <1>2, <1>3
  <1>9. \A i \in 1..(next - 1) : corpus[i].observed <= Moment
    BY <1>3
  <1> QED BY <1>1, <1>3, <1>4, <1>5, <1>6, <1>7, <1>8, <1>9 DEF ReplayInv, NoVersions

\* What depends only on what was detected, and on the arguments, stays.
LEMMA ResultsStay ==
  ASSUME ReplayInv, UNCHANGED <<corpus, config, instant, detections, falsePositives>>
  PROVE  DetectionsSoFar' /\ FalsePositivesAreStale' /\ ReplayMatchesLive'
  <1>1. DetectionsSoFar'
    BY DEF ReplayInv, DetectionsSoFar, DetectionTime
  <1>2. FalsePositivesAreStale'
    BY DEF ReplayInv, FalsePositivesAreStale
  <1>3. ReplayMatchesLive'
    <2>1. \A i : DetectionTime(i)' = DetectionTime(i)
      BY DEF DetectionTime
    <2>2. ActiveCorpus' = ActiveCorpus
      BY DEF ActiveCorpus
    <2>3. \A t : Detected(t)' = Detected(t)
      BY DEF Detected
    <2>4. \A t : LiveOpportunities(t)' = LiveOpportunities(t)
      BY DEF LiveOpportunities, LiveQuotes
    <2> QED BY <2>1, <2>2, <2>3, <2>4 DEF ReplayInv, ReplayMatchesLive
  <1> QED BY <1>1, <1>2, <1>3

\* A batch is applied to both stores: they agree for every moment still to come.
LEMMA ApplyKeeps ==
  ASSUME ReplayInv, ApplyBatch
  PROVE  ReplayInv'
  <1> DEFINE b == corpus[next]
  <1>1. corpus \in Corpora /\ ValidCorpus(corpus) /\ config \in Configs
    BY DEF ReplayInv
  <1>2. /\ Len(corpus) \in Nat \ {0} /\ DOMAIN corpus = 1..Len(corpus)
        /\ \A i \in 1..Len(corpus) : IsBatch(corpus[i]) /\ corpus[i].observed \in Int
        /\ \A i, j \in 1..Len(corpus) : i < j => corpus[i].observed < corpus[j].observed
    BY <1>1, CorpusFacts
  <1>3. /\ next \in 1..Len(corpus) /\ instant \in 1..Len(corpus) /\ b.observed <= DetectionTime(instant)
        /\ next' = next + 1 /\ versions' = Applied(versions, b)
        /\ UNCHANGED <<corpus, config, instant, detections, falsePositives>>
    BY <1>2 DEF ReplayInv, ApplyBatch, Replaying, Due, Moment
  <1>4. \A i \in 1..Len(corpus) : DetectionTime(i)' = DetectionTime(i)
    BY <1>3 DEF DetectionTime
  <1>5. IsHeld(versions')
    BY <1>2, <1>3, AppliedIsHeld DEF ReplayInv
  <1>6. StoresAgree'
    <2> SUFFICES ASSUME ActiveCorpus, NEW n \in instant..Len(corpus)
                 PROVE  LET live == LiveHistory(corpus, DetectionTime(n))[next]
                        IN  IsHeld(live) /\ Agrees(versions', live, b.observed)
      <3>1. next' - 1 = next /\ {next} \ {0} = {next}
        BY <1>2, <1>3
      <3>2. \A n \in instant..Len(corpus) : n \in 1..Len(corpus)
        BY <1>2, <1>3
      <3> QED BY <1>3, <1>4, <3>1, <3>2 DEF StoresAgree, ActiveCorpus
    <2> DEFINE t == DetectionTime(n)
               live == LiveHistory(corpus, t)[next - 1]
    <2>1. t \in Int /\ b.observed <= t /\ b.observed \in Int
      <3>1. n \in 1..Len(corpus) /\ instant <= n
        BY <1>2, <1>3
      <3>2. t \in Int /\ DetectionTime(instant) \in Int /\ DetectionTime(instant) <= t
        BY <1>1, <1>3, <3>1, MomentFacts
      <3>3. b.observed \in Int
        BY <1>2, <1>3
      <3> QED BY <1>3, <3>2, <3>3
    <2>2. LiveHistory(corpus, t)[next] = Evicted(Applied(live, b), b.observed)
      <3>1. LiveHistory(corpus, t)[next] = LiveStep(live, b, t)
        BY <1>2, <1>3, HistoryEquation
      <3>2. ~(b.observed > t)
        BY <2>1
      <3> QED BY <3>1, <3>2 DEF LiveStep
    <2>3. IsHeld(live) /\ \A i \in {next - 1} \ {0} : Agrees(versions, live, corpus[i].observed)
      BY DEF ReplayInv, StoresAgree
    <2>4. IsBatch(b) /\ AllActive(b.quotes)
      BY <1>2, <1>3 DEF ActiveCorpus, AllActive
    <2>5. \E m \in Int : m <= b.observed /\ Agrees(versions, live, m)
      <3>1. CASE next = 1
        <4>1. versions = NoVersions
          BY <3>1 DEF ReplayInv, NoVersions
        <4>2. live = NoVersions
          BY <1>2, <3>1, HistoryEquation
        <4>3. Agrees(versions, live, b.observed)
          BY <4>1, <4>2 DEF Agrees, NoVersions
        <4> QED BY <2>1, <4>3
      <3>2. CASE next # 1
        <4>1. next - 1 \in 1..Len(corpus) /\ next - 1 < next /\ next - 1 # 0
          BY <1>2, <1>3, <3>2
        <4>2. Agrees(versions, live, corpus[next - 1].observed)
          BY <2>3, <4>1
        <4>3. corpus[next - 1].observed \in Int /\ corpus[next - 1].observed <= b.observed
          BY <1>2, <1>3, <2>1, <4>1
        <4> QED BY <4>2, <4>3
      <3> QED BY <3>1, <3>2
    <2>6. IsHeld(versions)
      BY DEF ReplayInv
    <2> HIDE DEF live, b, t
    <2>7. /\ IsHeld(Evicted(Applied(live, b), b.observed))
          /\ Agrees(Applied(versions, b), Evicted(Applied(live, b), b.observed), b.observed)
      BY <2>3, <2>4, <2>5, <2>6, StepAgrees
    <2> QED BY <1>3, <2>2, <2>7 DEF t
  <1>7. DetectionsSoFar' /\ FalsePositivesAreStale' /\ ReplayMatchesLive'
    BY <1>3, ResultsStay
  <1>8. (Replaying => \A i \in 1..(next - 1) : corpus[i].observed <= Moment)'
    <2> SUFFICES ASSUME NEW i \in 1..next PROVE corpus[i].observed <= DetectionTime(instant)
      <3>1. next' - 1 = next /\ Moment' = DetectionTime(instant)
        BY <1>2, <1>3, <1>4 DEF Moment
      <3> QED BY <1>3, <3>1
    <2>1. CASE i = next
      BY <1>3, <2>1
    <2>2. CASE i # next
      <3>1. i \in 1..(next - 1)
        BY <1>2, <1>3, <2>2
      <3> QED BY <1>3, <3>1 DEF ReplayInv, Replaying, Moment
    <2> QED BY <2>1, <2>2
  <1>9. (next \in 1..(Len(corpus) + 1) /\ instant \in 1..(Len(corpus) + 1))' /\ next' # 1
    BY <1>2, <1>3
  <1> QED BY <1>1, <1>3, <1>5, <1>6, <1>7, <1>8, <1>9 DEF ReplayInv

\* A sequence and one more element.
LEMMA OneMore ==
  ASSUME NEW S, NEW s \in Seq(S), NEW x \in S
  PROVE  /\ s \o <<x>> \in Seq(S) /\ Append(s, x) = s \o <<x>>
         /\ DOMAIN s = 1..Len(s) /\ Len(s) \in Nat /\ Len(s \o <<x>>) = Len(s) + 1
         /\ DOMAIN (s \o <<x>>) = (DOMAIN s) \cup {Len(s) + 1} /\ Len(s) + 1 \notin DOMAIN s
         /\ \A j \in DOMAIN s : (s \o <<x>>)[j] = s[j]
         /\ (s \o <<x>>)[Len(s) + 1] = x
  <1>1. <<x>> \in Seq(S) /\ Len(<<x>>) = 1 /\ <<x>>[1] = x
    OBVIOUS
  <1>2. Len(s) \in Nat /\ DOMAIN s = 1..Len(s)
    BY LenProperties
  <1>3. /\ s \o <<x>> \in Seq(S) /\ Len(s \o <<x>>) = Len(s) + 1
        /\ \A i \in 1..(Len(s) + 1) : (s \o <<x>>)[i] = IF i <= Len(s) THEN s[i] ELSE <<x>>[i - Len(s)]
    BY <1>1, ConcatProperties
  <1>4. DOMAIN (s \o <<x>>) = 1..(Len(s) + 1)
    BY <1>3, LenProperties
  <1>5. Append(s, x) = s \o <<x>>
    OBVIOUS
  <1>6. (s \o <<x>>)[Len(s) + 1] = x
    BY <1>1, <1>2, <1>3
  <1> QED BY <1>2, <1>3, <1>4, <1>5, <1>6

\* There is one book at most, of quotes that may compete for it.
LEMMA StrictBookLegs ==
  ASSUME IsHeld(versions), Moment \in Int, NEW b \in StrictBooks
  PROVE  /\ StrictBooks = {b} /\ b = Book(StrictAble) /\ BookExists(StrictAble, Moment)
         /\ b \in [Selections -> StrictAble] /\ b \in [Selections -> Store!Quote]
         /\ Selections # {} /\ MaxAge(b) \in Int
  <1>1. StrictBooks = {b} /\ b = Book(StrictAble) /\ BookExists(StrictAble, Moment)
    BY DEF StrictBooks, Books, StrictAble
  <1>2. Keyed(StrictAble)
    BY AbleIsKeyed
  <1>3. b \in [Selections -> StrictAble]
    BY <1>1, <1>2, BookLegs
  <1>4. b \in [Selections -> Store!Quote]
    BY <1>2, <1>3 DEF Keyed
  <1>5. Selections # {}
    <2>1. Cardinality(Selections) >= 2
      BY <1>1 DEF BookExists
    <2> QED BY <2>1, FS_EmptySet
  <1>6. MaxAge(b) \in Int
    BY <1>4, <1>5, MaxAgeIsMax
  <1> QED BY <1>1, <1>3, <1>4, <1>5, <1>6

DetectionType == [at : Int, legs : [Selections -> Store!Quote], actionable : BOOLEAN, maxAge : Int]

\* What a moment adds to the detections.
LEMMA NewDetection ==
  ASSUME IsHeld(versions), Moment \in Int
  PROVE  \/ Arbitrages(StrictBooks) = {} /\ ToSeq(Arbitrages(StrictBooks), Detection) = <<>>
         \/ \E b \in StrictBooks :
              /\ Arbitrages(StrictBooks) = {b} /\ ToSeq(Arbitrages(StrictBooks), Detection) = <<Detection(b)>>
              /\ Detection(b) \in DetectionType /\ Detection(b).at = Moment /\ Detection(b).legs = b
              /\ Detection(b).actionable = Actionable(b)
  <1>1. CASE Arbitrages(StrictBooks) = {}
    BY <1>1 DEF ToSeq
  <1>2. CASE Arbitrages(StrictBooks) # {}
    <2>1. PICK b : b \in Arbitrages(StrictBooks)
      BY <1>2
    <2>2. b \in StrictBooks
      BY <2>1 DEF Arbitrages
    <2>3. StrictBooks = {b} /\ b \in [Selections -> Store!Quote] /\ MaxAge(b) \in Int
      BY <2>2, StrictBookLegs
    <2>4. Arbitrages(StrictBooks) = {b}
      BY <2>1, <2>3 DEF Arbitrages
    <2>5. (CHOOSE x \in Arbitrages(StrictBooks) : TRUE) = b
      BY <2>4
    <2>6. ToSeq(Arbitrages(StrictBooks), Detection) = <<Detection(b)>>
      BY <1>2, <2>5 DEF ToSeq
    <2>7. Actionable(b) \in BOOLEAN
      BY DEF Actionable
    <2>8. /\ Detection(b) \in DetectionType /\ Detection(b).at = Moment /\ Detection(b).legs = b
          /\ Detection(b).actionable = Actionable(b)
      BY <2>3, <2>7 DEF Detection, DetectionType
    <2> QED BY <2>2, <2>4, <2>6, <2>8
  <1> QED BY <1>1, <1>2

\* What a moment adds to the false positives.
LEMMA NewFalsePositive ==
  ASSUME IsHeld(versions), Moment \in Int
  PROVE  LET new == ToSeq(FalsePositiveBooks, LAMBDA b : [at |-> Moment, maxAge |-> MaxAge(b)])
         IN  \/ new = <<>>
             \/ /\ Arbitrages(StrictBooks) = {}
                /\ \E x \in [at : Int, maxAge : Int] :
                     new = <<x>> /\ x.at = Moment /\ x.maxAge > FreshnessWindow
  <1> DEFINE new == ToSeq(FalsePositiveBooks, LAMBDA b : [at |-> Moment, maxAge |-> MaxAge(b)])
  <1>1. CASE FalsePositiveBooks = {}
    BY <1>1 DEF ToSeq
  <1>2. CASE FalsePositiveBooks # {}
    <2> DEFINE b == CHOOSE x \in FalsePositiveBooks : TRUE
    <2>1. b \in FalsePositiveBooks
      BY <1>2
    <2>2. new = <<[at |-> Moment, maxAge |-> MaxAge(b)]>>
      BY <1>2 DEF ToSeq
    <2> HIDE DEF b
    <2>3. MaxAge(b) \in Int /\ MaxAge(b) > FreshnessWindow /\ Arbitrages(StrictBooks) = {}
      BY <2>1, FalsePositiveIsStale
    <2> DEFINE x == [at |-> Moment, maxAge |-> MaxAge(b)]
    <2>4. x \in [at : Int, maxAge : Int] /\ x.at = Moment /\ x.maxAge > FreshnessWindow
      BY <2>3
    <2> HIDE DEF x, new
    <2>5. \E y \in [at : Int, maxAge : Int] :
            new = <<y>> /\ y.at = Moment /\ y.maxAge > FreshnessWindow
      BY <2>2, <2>4 DEF x
    <2> QED BY <2>3, <2>5 DEF new
  <1> QED BY <1>1, <1>2

\* At the moment of a detection the replay sees what the live scanner would see.
LEMMA DetectionIsLive ==
  ASSUME ReplayInv, Replaying, ~Due, ActiveCorpus
  PROVE  Arbitrages(StrictBooks) = LiveOpportunities(Moment)
  <1> DEFINE t == Moment
             n == Len(corpus)
             live == LiveHistory(corpus, t)[next - 1]
  <1>1. corpus \in Corpora /\ ValidCorpus(corpus) /\ config \in Configs /\ IsHeld(versions)
    BY DEF ReplayInv
  <1>2. /\ n \in Nat \ {0}
        /\ \A i \in 1..n : corpus[i].observed \in Int
        /\ \A i, j \in 1..n : i < j => corpus[i].observed < corpus[j].observed
    BY <1>1, CorpusFacts
  <1>3. instant \in 1..n /\ next \in 1..(n + 1)
    BY <1>2 DEF ReplayInv, Replaying
  <1>4. t \in Int
    BY <1>1, <1>3, MomentFacts DEF Moment
  <1>5. ASSUME NEW i \in next..n PROVE corpus[i].observed > t
    <2>1. next \in 1..n /\ i \in 1..n /\ next <= i
      BY <1>2, <1>3
    <2>2. ~(corpus[next].observed <= t)
      BY <2>1 DEF Due
    <2>3. corpus[next].observed <= corpus[i].observed
      BY <1>2, <2>1
    <2> QED BY <1>2, <1>4, <2>1, <2>2, <2>3
  <1>6. LiveHistory(corpus, t)[n] = live
    <2>1. next - 1 \in 0..n /\ (next - 1) + 1 = next
      BY <1>2, <1>3
    <2> QED BY <1>2, <1>4, <1>5, <2>1, HistoryStops
  <1>7. IsHeld(live) /\ Agrees(versions, live, t)
    <2>1. instant \in instant..n
      BY <1>2, <1>3
    <2>2. IsHeld(live) /\ \A i \in {next - 1} \ {0} : Agrees(versions, live, corpus[i].observed)
      BY <2>1 DEF ReplayInv, StoresAgree, Moment
    <2>3. CASE next = 1
      <3>1. versions = NoVersions
        BY <2>3 DEF ReplayInv, NoVersions
      <3>2. live = NoVersions
        BY <1>2, <2>3, HistoryEquation
      <3> QED BY <2>2, <3>1, <3>2 DEF Agrees, NoVersions
    <2>4. CASE next # 1
      <3>1. next - 1 \in 1..n /\ next - 1 # 0 /\ next - 1 \in 1..(next - 1)
        BY <1>2, <1>3, <2>4
      <3>2. Agrees(versions, live, corpus[next - 1].observed)
        BY <2>2, <3>1
      <3>3. corpus[next - 1].observed \in Int /\ corpus[next - 1].observed <= t
        BY <1>2, <3>1 DEF ReplayInv
      <3> HIDE DEF live, t
      <3>4. ASSUME NEW k \in Keys, versions[k] # NoVersion, live[k] = NoVersion
            PROVE  LiveWindow!Expired(versions[k], t)
        <4>1. versions[k] \in Store!Version
          BY <1>1, <3>4 DEF IsHeld
        <4>2. LiveWindow!Expired(versions[k], corpus[next - 1].observed)
          BY <3>2, <3>4 DEF Agrees
        <4> QED BY <1>4, <3>3, <4>1, <4>2, ExpiredStays
      <3> QED BY <2>2, <3>2, <3>4 DEF Agrees
    <2> QED BY <2>3, <2>4
  <1>8. {q \in CurrentQuotes : Age(q, Moment) <= FreshnessWindow} = LiveQuotes(Moment)
    BY <1>1, <1>4, <1>6, <1>7, FreshAlike DEF LiveQuotes
  <1>9. StrictQuotes = ConsolidateQuotes(LiveQuotes(Moment))
    BY <1>8 DEF StrictQuotes, ConsolidatedEligible
  <1>10. LiveOpportunities(Moment)
           = IF BookExists(StrictAble, Moment) /\ IsArbitrage(Book(StrictAble)) THEN {Book(StrictAble)} ELSE {}
    BY <1>9 DEF LiveOpportunities, Opportunities, StrictAble
  <1>11. StrictBooks = IF BookExists(StrictAble, Moment) THEN {Book(StrictAble)} ELSE {}
    BY DEF StrictBooks, Books, StrictAble
  <1> QED BY <1>10, <1>11 DEF Arbitrages

\* A detection adds what the live store would have shown, or nothing.
LEMMA DetectKeeps ==
  ASSUME ReplayInv, Detect
  PROVE  ReplayInv'
  <1> DEFINE t == Moment
             n == Len(corpus)
             F == [at : Int, maxAge : Int]
  <1>1. corpus \in Corpora /\ ValidCorpus(corpus) /\ config \in Configs /\ IsHeld(versions)
    BY DEF ReplayInv
  <1>2. n \in Nat \ {0}
    BY <1>1, CorpusFacts
  <1>3. /\ instant \in 1..n /\ next \in 1..(n + 1) /\ instant' = instant + 1
        /\ UNCHANGED <<corpus, config, next, versions>>
    <2>1. /\ instant <= n /\ instant' = instant + 1
          /\ UNCHANGED <<corpus, config, next, versions>>
      BY DEF Replaying, Detect
    <2>2. next \in 1..(n + 1) /\ instant \in 1..(n + 1)
      BY DEF ReplayInv
    <2> QED BY <1>2, <2>1, <2>2
  <1>4. /\ t = DetectionTime(instant) /\ t \in Int
        /\ \A i \in 1..n : DetectionTime(i) \in Int
        /\ \A i \in 1..(instant - 1) : i \in 1..n /\ DetectionTime(i) < t
    <2>1. \A i \in 1..(instant - 1) : i \in 1..n /\ i < instant
      BY <1>2, <1>3
    <2> QED BY <1>1, <1>3, <2>1, MomentFacts DEF Moment
  <1>5. \A i : DetectionTime(i)' = DetectionTime(i)
    BY <1>3 DEF DetectionTime
  <1>6. 1..(instant' - 1) = 1..instant /\ 1..instant = (1..(instant - 1)) \cup {instant}
    BY <1>2, <1>3
  <1>7. /\ detections \in Seq(DetectionType) /\ falsePositives \in Seq(F)
        /\ \A j \in DOMAIN detections : detections[j].at < t /\ detections[j].at \in Int
        /\ \A j \in DOMAIN falsePositives : falsePositives[j].at < t /\ falsePositives[j].at \in Int
    <2>1. detections \in Seq(DetectionType) /\ falsePositives \in Seq(F)
      BY DEF ReplayInv, DetectionsSoFar, DetectionType
    <2>2. /\ \A j \in DOMAIN detections : \E i \in 1..(instant - 1) : detections[j].at = DetectionTime(i)
          /\ \A j \in DOMAIN falsePositives : \E i \in 1..(instant - 1) : falsePositives[j].at = DetectionTime(i)
      BY DEF ReplayInv, DetectionsSoFar
    <2> QED BY <1>4, <2>1, <2>2
  <1>8. \/ Arbitrages(StrictBooks) = {} /\ detections' = detections
        \/ \E b \in StrictBooks, x \in DetectionType :
             /\ Arbitrages(StrictBooks) = {b} /\ detections' = detections \o <<x>> /\ x.at = t /\ x.legs = b
    <2>1. detections' = detections \o ToSeq(Arbitrages(StrictBooks), Detection)
      BY DEF Detect
    <2>2. detections \o <<>> = detections
      BY <1>7, ConcatEmptySeq
    <2> HIDE DEF t
    <2> QED BY <1>1, <1>4, <2>1, <2>2, NewDetection DEF t
  <1>9. \/ falsePositives' = falsePositives
        \/ /\ Arbitrages(StrictBooks) = {}
           /\ \E x \in F : /\ falsePositives' = falsePositives \o <<x>> /\ x.at = t
                           /\ x.maxAge > FreshnessWindow
    <2>1. falsePositives' = falsePositives
             \o ToSeq(FalsePositiveBooks, LAMBDA b : [at |-> Moment, maxAge |-> MaxAge(b)])
      BY DEF Detect
    <2>2. falsePositives \o <<>> = falsePositives
      BY <1>7, ConcatEmptySeq
    <2>3. LET new == ToSeq(FalsePositiveBooks, LAMBDA b : [at |-> Moment, maxAge |-> MaxAge(b)])
          IN  \/ new = <<>>
              \/ /\ Arbitrages(StrictBooks) = {}
                 /\ \E x \in F : new = <<x>> /\ x.at = Moment /\ x.maxAge > FreshnessWindow
      BY <1>1, <1>4, NewFalsePositive
    <2> QED BY <2>1, <2>2, <2>3
  <1> HIDE DEF t, n, F
  <1>10. /\ detections' \in Seq(DetectionType)
         /\ \A j \in DOMAIN detections' :
              \/ j \in DOMAIN detections /\ detections'[j] = detections[j]
              \/ detections'[j].at = t /\ Arbitrages(StrictBooks) = {detections'[j].legs}
         /\ \A j \in DOMAIN detections : j \in DOMAIN detections' /\ detections'[j] = detections[j]
         /\ Arbitrages(StrictBooks) # {} => \E j \in DOMAIN detections' : detections'[j].at = t
    <2>1. CASE Arbitrages(StrictBooks) = {} /\ detections' = detections
      BY <1>7, <2>1
    <2>2. CASE \E b \in StrictBooks, x \in DetectionType :
                 /\ Arbitrages(StrictBooks) = {b} /\ detections' = detections \o <<x>> /\ x.at = t /\ x.legs = b
      <3>1. PICK b \in StrictBooks, x \in DetectionType :
                 /\ Arbitrages(StrictBooks) = {b} /\ detections' = detections \o <<x>> /\ x.at = t /\ x.legs = b
        BY <2>2
      <3>2. /\ detections' \in Seq(DetectionType)
            /\ DOMAIN detections' = (DOMAIN detections) \cup {Len(detections) + 1}
            /\ \A j \in DOMAIN detections : detections'[j] = detections[j]
            /\ detections'[Len(detections) + 1] = x
        BY <1>7, <3>1, OneMore
      <3> QED BY <3>1, <3>2
    <2> QED BY <1>8, <2>1, <2>2
  <1>11. /\ falsePositives' \in Seq(F)
         /\ \A j \in DOMAIN falsePositives' :
              \/ j \in DOMAIN falsePositives /\ falsePositives'[j] = falsePositives[j]
              \/ /\ falsePositives'[j].at = t /\ falsePositives'[j].maxAge > FreshnessWindow
                 /\ Arbitrages(StrictBooks) = {}
    <2>1. CASE falsePositives' = falsePositives
      BY <1>7, <2>1
    <2>2. CASE /\ Arbitrages(StrictBooks) = {}
               /\ \E x \in F : /\ falsePositives' = falsePositives \o <<x>> /\ x.at = t
                               /\ x.maxAge > FreshnessWindow
      BY <1>7, <2>2, OneMore
    <2> QED BY <1>9, <2>1, <2>2
  <1>12. DetectionsSoFar'
    <2>1. instant \in 1..(instant' - 1)
      BY <1>6
    <2>2. /\ \A j \in DOMAIN detections : \E i \in 1..(instant - 1) : detections[j].at = DetectionTime(i)
          /\ \A j \in DOMAIN falsePositives : \E i \in 1..(instant - 1) : falsePositives[j].at = DetectionTime(i)
      BY DEF ReplayInv, DetectionsSoFar
    <2>3. \A j \in DOMAIN detections' : \E i \in 1..(instant' - 1) : detections'[j].at = DetectionTime(i)
      BY <1>4, <1>6, <1>10, <2>1, <2>2
    <2>4. \A j \in DOMAIN falsePositives' : \E i \in 1..(instant' - 1) : falsePositives'[j].at = DetectionTime(i)
      BY <1>4, <1>6, <1>11, <2>1, <2>2
    <2> QED BY <1>5, <1>10, <1>11, <2>3, <2>4 DEF DetectionsSoFar, DetectionType, F
  <1>13. FalsePositivesAreStale'
    <2> SUFFICES ASSUME NEW i \in DOMAIN falsePositives'
                 PROVE  /\ falsePositives'[i].maxAge > FreshnessWindow
                        /\ \A j \in DOMAIN detections' : detections'[j].at # falsePositives'[i].at
      BY DEF FalsePositivesAreStale
    <2>1. CASE i \in DOMAIN falsePositives /\ falsePositives'[i] = falsePositives[i]
      <3>1. falsePositives[i].maxAge > FreshnessWindow
            /\ \A j \in DOMAIN detections : detections[j].at # falsePositives[i].at
        BY <2>1 DEF ReplayInv, FalsePositivesAreStale
      <3>2. falsePositives[i].at < t /\ falsePositives[i].at \in Int
        BY <1>7, <2>1
      <3>3. falsePositives[i].at # t
        BY <1>4, <3>2
      <3> QED BY <1>10, <2>1, <3>1, <3>3
    <2>2. CASE /\ falsePositives'[i].at = t /\ falsePositives'[i].maxAge > FreshnessWindow
               /\ Arbitrages(StrictBooks) = {}
      <3>1. \A j \in DOMAIN detections : detections[j].at # t
        BY <1>4, <1>7
      <3> QED BY <1>10, <2>2, <3>1
    <2> QED BY <1>11, <2>1, <2>2
  <1>14. ReplayMatchesLive'
    <2> SUFFICES ASSUME ActiveCorpus, NEW i \in 1..instant
                 PROVE  Detected(DetectionTime(i))' = LiveOpportunities(DetectionTime(i))
      <3>1. ActiveCorpus' = ActiveCorpus
        BY <1>3 DEF ActiveCorpus
      <3>2. \A m : LiveOpportunities(m)' = LiveOpportunities(m)
        BY <1>3 DEF LiveOpportunities, LiveQuotes
      <3> QED BY <1>5, <1>6, <3>1, <3>2 DEF ReplayMatchesLive
    <2>1. CASE i = instant
      <3>1. Arbitrages(StrictBooks) = LiveOpportunities(t)
        BY DetectionIsLive DEF Detect, t
      <3>2. \A j \in DOMAIN detections : detections[j].at # t
        BY <1>4, <1>7
      <3>3. {detections'[j].legs : j \in {x \in DOMAIN detections' : detections'[x].at = t}} = Arbitrages(StrictBooks)
        BY <1>10, <3>2, <1>8
      <3>4. DetectionTime(i) = t /\ DetectionTime(i)' = t
        BY <1>4, <1>5, <2>1
      <3> QED BY <3>1, <3>3, <3>4 DEF Detected
    <2>2. CASE i # instant
      <3>1. i \in 1..(instant - 1)
        BY <1>6, <2>2
      <3>2. DetectionTime(i) < t /\ DetectionTime(i) \in Int
        BY <1>4, <3>1
      <3>3. DetectionTime(i) # t
        BY <1>4, <3>2
      <3>4. Detected(DetectionTime(i)) = LiveOpportunities(DetectionTime(i))
        BY <3>1 DEF ReplayInv, ReplayMatchesLive
      <3>5. Detected(DetectionTime(i))' = Detected(DetectionTime(i))
        BY <1>5, <1>10, <3>3 DEF Detected
      <3> QED BY <3>4, <3>5
    <2> QED BY <2>1, <2>2
  <1>15. StoresAgree'
    <2>1. ActiveCorpus' = ActiveCorpus
      BY <1>3 DEF ActiveCorpus
    <2>2. \A m \in instant'..n : m \in instant..n
      BY <1>2, <1>3
    <2> QED BY <1>3, <1>5, <2>1, <2>2 DEF ReplayInv, StoresAgree, n
  <1>16. (Replaying => \A i \in 1..(next - 1) : corpus[i].observed <= Moment)'
    <2> SUFFICES ASSUME instant + 1 \in 1..n, NEW i \in 1..(next - 1)
                 PROVE  corpus[i].observed <= DetectionTime(instant + 1)
      BY <1>2, <1>3, <1>5 DEF Replaying, Moment, n
    <2>1. i \in 1..n
      BY <1>2, <1>3
    <2>2. corpus[i].observed \in Int /\ corpus[i].observed <= t
      BY <1>1, <1>3, <2>1, CorpusFacts DEF ReplayInv, Replaying, t, n
    <2>3. DetectionTime(instant + 1) \in Int /\ t < DetectionTime(instant + 1)
      BY <1>1, <1>3, <1>4, MomentFacts DEF n
    <2> QED BY <1>4, <2>2, <2>3
  <1>17. (next = 1 => versions = [k \in Keys |-> NoVersion])' /\ IsHeld(versions)'
    BY <1>3 DEF ReplayInv, IsHeld
  <1>18. (next \in 1..(Len(corpus) + 1) /\ instant \in 1..(Len(corpus) + 1))'
    BY <1>2, <1>3 DEF n
  <1> QED BY <1>1, <1>3, <1>12, <1>13, <1>14, <1>15, <1>16, <1>17, <1>18 DEF ReplayInv

\* The end of the stream touches no part of this invariant.
LEMMA OthersKeep ==
  ASSUME ReplayInv, UNCHANGED <<corpus, config, next, instant, versions, detections, falsePositives>>
  PROVE  ReplayInv'
  <1>1. DetectionsSoFar' /\ FalsePositivesAreStale' /\ ReplayMatchesLive'
    BY ResultsStay
  <1>2. StoresAgree'
    <2>1. ActiveCorpus' = ActiveCorpus /\ \A i : DetectionTime(i)' = DetectionTime(i)
      BY DEF ActiveCorpus, DetectionTime
    <2> QED BY <2>1 DEF ReplayInv, StoresAgree
  <1>3. IsHeld(versions)'
    BY DEF ReplayInv, IsHeld
  <1>4. (Replaying => \A i \in 1..(next - 1) : corpus[i].observed <= Moment)'
    BY DEF ReplayInv, Replaying, Moment, DetectionTime
  <1> QED BY <1>1, <1>2, <1>3, <1>4 DEF ReplayInv

\* The inductive invariant of the replay.
THEOREM ReplayInvariance == Spec => []ReplayInv
  <1>1. ReplayInv /\ [Next]_vars => ReplayInv'
    <2> SUFFICES ASSUME ReplayInv, [Next]_vars PROVE ReplayInv'
      OBVIOUS
    <2>1. CASE ApplyBatch
      BY <2>1, ApplyKeeps
    <2>2. CASE Detect
      BY <2>2, DetectKeeps
    <2>3. CASE Finish
      BY <2>3, OthersKeep DEF Finish
    <2>4. CASE UNCHANGED vars
      BY <2>4, OthersKeep DEF vars
    <2> QED BY <2>1, <2>2, <2>3, <2>4 DEF Next
  <1> QED BY <1>1, InitEstablishes, PTL DEF Spec

\* What run_backtest detects at a moment is what the scanner would report then,
\* though its store never evicts and applies batches ahead of a delayed
\* detection, for every corpus without suspended quotes.
THEOREM ReplayIsFaithful == Spec => []ReplayMatchesLive
  <1>1. ReplayInv => ReplayMatchesLive
    BY DEF ReplayInv
  <1> QED BY <1>1, ReplayInvariance, PTL

\* A false positive of run_backtest has a leg older than the window, and nothing
\* was detected at its moment, whatever consolidation makes of stale and fresh
\* copies of a slot.
THEOREM FalsePositivesNeedStaleness == Spec => []FalsePositivesAreStale
  <1>1. ReplayInv => FalsePositivesAreStale
    BY DEF ReplayInv
  <1> QED BY <1>1, ReplayInvariance, PTL

-----------------------------------------------------------------------------
(* The implied sum: products and sums over the selections. The lemmas are  *)
(* those of RealtimeScannerProofs, about the market of a backtest.         *)

\* Positive numbers have a positive product.
LEMMA PositiveProduct ==
  ASSUME NEW x \in Nat \ {0}, NEW y \in Nat \ {0}
  PROVE  x * y \in Nat \ {0}
  OBVIOUS

\* Dividing a product by a factor leaves the other.
LEMMA DivideProduct ==
  ASSUME NEW p \in Nat \ {0}, NEW k \in Nat
  PROVE  (p * k) \div p = k
  OBVIOUS

\* A product grows with its factor.
LEMMA MonotoneProduct ==
  ASSUME NEW x \in Nat, NEW y \in Nat, x <= y, NEW k \in Nat
  PROVE  x * k <= y * k
  OBVIOUS

\* A positive factor cancels out of a comparison.
LEMMA CancelProduct ==
  ASSUME NEW x \in Nat, NEW y \in Nat, NEW k \in Nat \ {0}
  PROVE  (x * k <= y * k => x <= y) /\ (x < y <=> x * k < y * k)
  OBVIOUS

\* Inequalities add up.
LEMMA SumOfInequalities ==
  ASSUME NEW x \in Int, NEW y \in Int, NEW u \in Int, NEW v \in Int, x <= y, u <= v
  PROVE  x + u <= y + v
  OBVIOUS

Pick(s) == CHOOSE x \in s : TRUE

\* f is the fold of the values a with op over the subsets of S.
Folds(f, S, V, base, op, a) ==
  /\ f \in [SUBSET S -> V]
  /\ \A s \in SUBSET S : f[s] = IF s = {} THEN base ELSE op[<<a[Pick(s)], f[s \ {Pick(s)}]>>]

\* Pick takes an element out of a set.
LEMMA PickIsElement ==
  ASSUME NEW S, NEW s \in SUBSET S, s # {}
  PROVE  Pick(s) \in s /\ Pick(s) \in S /\ s \ {Pick(s)} \in SUBSET S
  BY DEF Pick

\* A set of subsets of a finite set has a minimal element: the form in which
\* induction over finite sets is used here.
LEMMA MinimalSubset ==
  ASSUME NEW S, IsFiniteSet(S), NEW T \in SUBSET (SUBSET S), T # {}
  PROVE  \E s \in T : \A u \in T : ~(u \subseteq s /\ u # s)
  <1>1. IsWellFoundedOn(StrictSubsetOrdering(S), SUBSET S)
    BY FS_StrictSubsetOrderingWellFounded, FS_FiniteSubsetsOfFinite
  <1>2. PICK s \in T : \A u \in T : ~(<<u, s>> \in StrictSubsetOrdering(S))
    BY <1>1, WFMin
  <1>3. ASSUME NEW u \in T, u \subseteq s, u # s PROVE FALSE
    <2>1. <<u, s>> \in StrictSubsetOrdering(S)
      BY <1>3 DEF StrictSubsetOrdering
    <2> QED BY <1>2, <2>1
  <1> QED BY <1>3

\* The subsets of s without one of its elements are the ones a fold over s needs:
\* a fold over every smaller subset gives one over s.
LEMMA FoldExists ==
  ASSUME NEW S, IsFiniteSet(S), NEW V, NEW base \in V, NEW op \in [V \X V -> V], NEW a \in [S -> V]
  PROVE  \E f : Folds(f, S, V, base, op, a)
  <1> DEFINE upto(n) == {s \in SUBSET S : Cardinality(s) <= n}
             obeys(n) == \E f \in [upto(n) -> V] : \A s \in upto(n) :
                           f[s] = IF s = {} THEN base ELSE op[<<a[Pick(s)], f[s \ {Pick(s)}]>>]
             done == {s \in SUBSET S : ~obeys(Cardinality(s))}
  <1>1. \A s \in SUBSET S : IsFiniteSet(s) /\ Cardinality(s) \in Nat /\ Cardinality(s) <= Cardinality(S)
    BY FS_Subset, FS_CardinalityType
  <1>2. ASSUME NEW s \in SUBSET S, s # {} PROVE Cardinality(s \ {Pick(s)}) = Cardinality(s) - 1
    <2>1. Pick(s) \in s
      BY <1>2, PickIsElement
    <2>2. IsFiniteSet(s)
      BY <1>1
    <2> QED BY <2>1, <2>2, FS_RemoveElement
  <1>3. \A s \in SUBSET S : Cardinality(s) = 0 <=> s = {}
    BY <1>1, FS_EmptySet
  <1>4. obeys(0)
    <2> DEFINE f == [s \in upto(0) |-> base]
    <2>1. \A s \in upto(0) : s = {}
      BY <1>1, <1>3
    <2>2. f \in [upto(0) -> V]
      OBVIOUS
    <2> QED BY <2>1, <2>2
  <1>5. ASSUME NEW n \in Nat, obeys(n) PROVE obeys(n + 1)
    <2> PICK f \in [upto(n) -> V] : \A s \in upto(n) :
          f[s] = IF s = {} THEN base ELSE op[<<a[Pick(s)], f[s \ {Pick(s)}]>>]
      BY <1>5
    <2> DEFINE g == [s \in upto(n + 1) |->
                       IF s = {} THEN base ELSE op[<<a[Pick(s)], f[s \ {Pick(s)}]>>]]
    <2>1. \A s \in upto(n + 1) : s # {} => s \ {Pick(s)} \in upto(n) /\ Pick(s) \in S
      BY <1>1, <1>2, PickIsElement
    <2>2. g \in [upto(n + 1) -> V]
      BY <2>1
    <2>3. \A s \in upto(n) : s \in upto(n + 1) /\ g[s] = f[s]
      BY <1>1
    <2>4. \A s \in upto(n + 1) :
            g[s] = IF s = {} THEN base ELSE op[<<a[Pick(s)], g[s \ {Pick(s)}]>>]
      BY <2>1, <2>3
    <2> HIDE DEF g
    <2> QED BY <2>2, <2>4
  <1>6. obeys(Cardinality(S))
    <2> SUFFICES ASSUME done # {} PROVE FALSE
      OBVIOUS
    <2> HIDE DEF obeys
    <2>1. PICK s \in done : \A u \in done : ~(u \subseteq s /\ u # s)
      <3>1. done \in SUBSET (SUBSET S)
        OBVIOUS
      <3> HIDE DEF done
      <3> QED BY <3>1, MinimalSubset
    <2>2. s \in SUBSET S /\ s # {}
      BY <1>3, <1>4, <2>1
    <2> DEFINE u == s \ {Pick(s)}
    <2>3. u \in SUBSET S /\ u \subseteq s /\ u # s /\ Cardinality(u) = Cardinality(s) - 1
      BY <1>2, <2>2, PickIsElement
    <2>4. obeys(Cardinality(u)) /\ Cardinality(u) \in Nat /\ Cardinality(s) \in Nat
      BY <1>1, <2>1, <2>2, <2>3
    <2>5. obeys(Cardinality(u) + 1) /\ Cardinality(u) + 1 = Cardinality(s)
      BY <1>5, <2>3, <2>4
    <2> QED BY <2>1, <2>5
  <1>7. upto(Cardinality(S)) = SUBSET S
    BY <1>1
  <1>8. PICK f \in [SUBSET S -> V] : \A s \in SUBSET S :
          f[s] = IF s = {} THEN base ELSE op[<<a[Pick(s)], f[s \ {Pick(s)}]>>]
    BY <1>6, <1>7
  <1> QED BY <1>8 DEF Folds


\* The products and the sums of the values a over the subsets of S.
IsProduct(f, S, a) ==
  f = [s \in SUBSET S |-> IF s = {} THEN 1 ELSE a[Pick(s)] * f[s \ {Pick(s)}]]
IsSum(f, S, a) ==
  f = [s \in SUBSET S |-> IF s = {} THEN 0 ELSE a[Pick(s)] + f[s \ {Pick(s)}]]

\* A finite product of positive numbers, and every factor divides it.
LEMMA Products ==
  ASSUME NEW S, IsFiniteSet(S), NEW a \in [S -> Nat \ {0}],
         NEW f, IsProduct(f, S, a)
  PROVE  /\ f[S] \in Nat \ {0}
         /\ \A x \in S : \E k \in Nat : f[S] = a[x] * k
  <1> DEFINE good(s) == /\ f[s] \in Nat \ {0}
                        /\ \A x \in s : \E k \in Nat : f[s] = a[x] * k
             bad == {s \in SUBSET S : ~good(s)}
  <1>1. \A s \in SUBSET S : f[s] = IF s = {} THEN 1 ELSE a[Pick(s)] * f[s \ {Pick(s)}]
    BY DEF IsProduct
  <1> SUFFICES ASSUME bad # {} PROVE FALSE
    OBVIOUS
  <1> HIDE DEF good
  <1>2. PICK s \in bad : \A u \in bad : ~(u \subseteq s /\ u # s)
    <2>1. bad \in SUBSET (SUBSET S)
      OBVIOUS
    <2> HIDE DEF bad
    <2> QED BY <2>1, MinimalSubset
  <1>3. s \in SUBSET S /\ s # {}
    <2>1. f[{}] = 1
      BY <1>1
    <2>2. good({})
      BY <2>1 DEF good
    <2> QED BY <1>2, <2>2
  <1> DEFINE p == Pick(s)
             rest == s \ {p}
  <1>4. p \in s /\ p \in S /\ rest \in SUBSET S /\ rest # s
    BY <1>3, PickIsElement
  <1>5. good(rest)
    BY <1>2, <1>4
  <1>6. f[s] = a[p] * f[rest]
    BY <1>1, <1>3
  <1>7. a[p] \in Nat \ {0} /\ f[rest] \in Nat \ {0}
    BY <1>4, <1>5 DEF good
  <1>8. f[s] \in Nat \ {0}
    <2> HIDE DEF p, rest
    <2> QED BY <1>6, <1>7, PositiveProduct
  <1>9. ASSUME NEW x \in s PROVE \E k \in Nat : f[s] = a[x] * k
    <2>1. CASE x = p
      BY <1>6, <1>7, <2>1
    <2>2. CASE x \in rest
      <3>1. PICK k \in Nat : f[rest] = a[x] * k
        BY <1>5, <2>2 DEF good
      <3>2. a[x] \in Nat
        BY <1>3
      <3> HIDE DEF p, rest
      <3>3. f[s] = a[x] * (a[p] * k) /\ a[p] * k \in Nat
        BY <1>6, <1>7, <3>1, <3>2
      <3> QED BY <3>3
    <2> QED BY <2>1, <2>2
  <1> QED BY <1>2, <1>8, <1>9 DEF good

\* Two sums, term by term: of the sums of a and of b, scaled by c and by d, the
\* one with the larger terms is the larger.
LEMMA Sums ==
  ASSUME NEW S, IsFiniteSet(S), NEW a \in [S -> Nat], NEW b \in [S -> Nat],
         NEW c \in Nat, NEW d \in Nat, \A x \in S : a[x] * c <= b[x] * d,
         NEW f, IsSum(f, S, a),
         NEW g, IsSum(g, S, b)
  PROVE  f[S] \in Nat /\ g[S] \in Nat /\ f[S] * c <= g[S] * d
  <1> DEFINE good(s) == f[s] \in Nat /\ g[s] \in Nat /\ f[s] * c <= g[s] * d
             bad == {s \in SUBSET S : ~good(s)}
  <1>1. \A s \in SUBSET S : /\ f[s] = IF s = {} THEN 0 ELSE a[Pick(s)] + f[s \ {Pick(s)}]
                            /\ g[s] = IF s = {} THEN 0 ELSE b[Pick(s)] + g[s \ {Pick(s)}]
    BY DEF IsSum
  <1> SUFFICES ASSUME bad # {} PROVE FALSE
    OBVIOUS
  <1> HIDE DEF good
  <1>2. PICK s \in bad : \A u \in bad : ~(u \subseteq s /\ u # s)
    <2>1. bad \in SUBSET (SUBSET S)
      OBVIOUS
    <2> HIDE DEF bad
    <2> QED BY <2>1, MinimalSubset
  <1>3. s \in SUBSET S /\ s # {}
    <2>1. f[{}] = 0 /\ g[{}] = 0
      BY <1>1
    <2>2. good({})
      BY <2>1 DEF good
    <2> QED BY <1>2, <2>2
  <1> DEFINE p == Pick(s)
             rest == s \ {p}
  <1>4. p \in s /\ p \in S /\ rest \in SUBSET S /\ rest # s
    BY <1>3, PickIsElement
  <1>5. good(rest)
    BY <1>2, <1>4
  <1>6. f[s] = a[p] + f[rest] /\ g[s] = b[p] + g[rest]
    BY <1>1, <1>3
  <1>7. /\ a[p] \in Nat /\ b[p] \in Nat /\ f[rest] \in Nat /\ g[rest] \in Nat
        /\ a[p] * c <= b[p] * d /\ f[rest] * c <= g[rest] * d
    BY <1>4, <1>5 DEF good
  <1> HIDE DEF p, rest
  <1>8. f[s] \in Nat /\ g[s] \in Nat
    BY <1>6, <1>7
  <1>9. f[s] * c <= g[s] * d
    <2>1. (a[p] + f[rest]) * c = a[p] * c + f[rest] * c
      BY <1>7
    <2>2. (b[p] + g[rest]) * d = b[p] * d + g[rest] * d
      BY <1>7
    <2>3. /\ a[p] * c \in Int /\ b[p] * d \in Int
          /\ f[rest] * c \in Int /\ g[rest] * d \in Int
      BY <1>7
    <2>4. a[p] * c + f[rest] * c <= b[p] * d + g[rest] * d
      BY <1>7, <2>3, SumOfInequalities
    <2> QED BY <1>6, <2>1, <2>2, <2>4
  <1> QED BY <1>2, <1>8, <1>9 DEF good

\* The prices of a set of legs.
Priceable(legs) == \A s \in Selections : Price[legs[s].offer] \in Nat \ {0}

\* The product of the prices is positive and each price divides it.
LEMMA DenominatorIsProduct ==
  ASSUME NEW legs, Priceable(legs)
  PROVE  /\ ImpliedDenominator(legs) \in Nat \ {0}
         /\ \A s \in Selections : \E k \in Nat : ImpliedDenominator(legs) = Price[legs[s].offer] * k
  <1> DEFINE S == Selections
             a == [s \in S |-> Price[legs[s].offer]]
             times == [p \in Nat \X Nat |-> p[1] * p[2]]
             iter == CHOOSE f : f = [s \in SUBSET S |->
                       IF s = {} THEN 1 ELSE Price[legs[Pick(s)].offer] * f[s \ {Pick(s)}]]
  <1>1. ImpliedDenominator(legs) = iter[S]
    BY DEF ImpliedDenominator, MapThenFoldSet, Pick
  <1>2. a \in [S -> Nat \ {0}] /\ a \in [S -> Nat]
    BY DEF Priceable
  <1>3. \A s \in SUBSET S : s # {} =>
          Pick(s) \in S /\ s \ {Pick(s)} \in SUBSET S /\ Price[legs[Pick(s)].offer] = a[Pick(s)]
    BY PickIsElement
  <1>4. times \in [Nat \X Nat -> Nat] /\ \A x, y \in Nat : times[<<x, y>>] = x * y
    OBVIOUS
  <1>5. \E f : f = [s \in SUBSET S |->
                 IF s = {} THEN 1 ELSE Price[legs[Pick(s)].offer] * f[s \ {Pick(s)}]]
    <2> HIDE DEF a, times, iter
    <2>1. PICK f : Folds(f, S, Nat, 1, times, a)
      BY <1>2, <1>4, FoldExists, MarketAssumption
    <2>2. f \in [SUBSET S -> Nat]
      BY <2>1 DEF Folds
    <2>3. ASSUME NEW s \in SUBSET S
          PROVE  f[s] = IF s = {} THEN 1 ELSE Price[legs[Pick(s)].offer] * f[s \ {Pick(s)}]
      <3>1. f[s] = IF s = {} THEN 1 ELSE times[<<a[Pick(s)], f[s \ {Pick(s)}]>>]
        BY <2>1 DEF Folds
      <3>2. CASE s # {}
        BY <1>2, <1>3, <1>4, <2>2, <3>1, <3>2
      <3> QED BY <3>1, <3>2
    <2> QED BY <2>2, <2>3
  <1>6. iter = [s \in SUBSET S |->
                 IF s = {} THEN 1 ELSE Price[legs[Pick(s)].offer] * iter[s \ {Pick(s)}]]
    BY <1>5
  <1> HIDE DEF iter, a, times
  <1>7. IsProduct(iter, S, a)
    BY <1>3, <1>6 DEF IsProduct
  <1>8. /\ iter[S] \in Nat \ {0}
        /\ \A x \in S : \E k \in Nat : iter[S] = a[x] * k
    BY <1>2, <1>7, Products, MarketAssumption
  <1> QED BY <1>1, <1>8 DEF a

\* The term of a selection in the numerator.
Term(legs, s) == PriceScale * (ImpliedDenominator(legs) \div Price[legs[s].offer])

\* A term is a natural number, and the price of its leg is what it lacks of the
\* scaled denominator.
LEMMA TermIsShare ==
  ASSUME NEW legs, Priceable(legs), NEW s \in Selections
  PROVE  /\ Term(legs, s) \in Nat
         /\ \E k \in Nat : /\ ImpliedDenominator(legs) = Price[legs[s].offer] * k
                           /\ Term(legs, s) = PriceScale * k
  <1>1. PICK k \in Nat : ImpliedDenominator(legs) = Price[legs[s].offer] * k
    BY DenominatorIsProduct
  <1>2. ImpliedDenominator(legs) \div Price[legs[s].offer] = k
    BY <1>1, DivideProduct DEF Priceable
  <1>3. PriceScale * k \in Nat
    BY MarketAssumption
  <1> QED BY <1>1, <1>2, <1>3 DEF Term

\* The numerator is the sum of the terms.
LEMMA NumeratorIsSum ==
  ASSUME NEW legs, Priceable(legs)
  PROVE  \E f : /\ ImpliedNumerator(legs) = f[Selections]
                /\ IsSum(f, Selections, [x \in Selections |-> Term(legs, x)])
  <1> DEFINE S == Selections
             a == [x \in S |-> Term(legs, x)]
             plus == [p \in Nat \X Nat |-> p[1] + p[2]]
             iter == CHOOSE f : f = [s \in SUBSET S |->
                       IF s = {} THEN 0 ELSE Term(legs, Pick(s)) + f[s \ {Pick(s)}]]
  <1>1. ImpliedNumerator(legs) = iter[S]
    BY DEF ImpliedNumerator, MapThenSumSet, MapThenFoldSet, Pick, Term
  <1>2. a \in [S -> Nat]
    BY TermIsShare
  <1>3. \A s \in SUBSET S : s # {} =>
          Pick(s) \in S /\ s \ {Pick(s)} \in SUBSET S /\ Term(legs, Pick(s)) = a[Pick(s)]
    BY PickIsElement
  <1>4. plus \in [Nat \X Nat -> Nat] /\ \A x, y \in Nat : plus[<<x, y>>] = x + y
    OBVIOUS
  <1>5. \E f : f = [s \in SUBSET S |->
                 IF s = {} THEN 0 ELSE Term(legs, Pick(s)) + f[s \ {Pick(s)}]]
    <2> HIDE DEF a, plus, iter
    <2>1. PICK f : Folds(f, S, Nat, 0, plus, a)
      BY <1>2, <1>4, FoldExists, MarketAssumption
    <2>2. f \in [SUBSET S -> Nat]
      BY <2>1 DEF Folds
    <2>3. ASSUME NEW s \in SUBSET S
          PROVE  f[s] = IF s = {} THEN 0 ELSE Term(legs, Pick(s)) + f[s \ {Pick(s)}]
      <3>1. f[s] = IF s = {} THEN 0 ELSE plus[<<a[Pick(s)], f[s \ {Pick(s)}]>>]
        BY <2>1 DEF Folds
      <3>2. CASE s # {}
        BY <1>2, <1>3, <1>4, <2>2, <3>1, <3>2
      <3> QED BY <3>1, <3>2
    <2> QED BY <2>2, <2>3
  <1>6. iter = [s \in SUBSET S |->
                 IF s = {} THEN 0 ELSE Term(legs, Pick(s)) + iter[s \ {Pick(s)}]]
    BY <1>5
  <1> HIDE DEF iter, a, plus
  <1>7. IsSum(iter, S, a)
    BY <1>3, <1>6 DEF IsSum
  <1> QED BY <1>1, <1>7 DEF a

\* Higher prices make a smaller implied sum.
LEMMA BetterPricesSumLess ==
  ASSUME NEW o, NEW f, Priceable(o), Priceable(f),
         \A s \in Selections : Price[f[s].offer] <= Price[o[s].offer]
  PROVE  /\ ImpliedNumerator(o) \in Nat /\ ImpliedNumerator(f) \in Nat
         /\ ImpliedNumerator(o) * ImpliedDenominator(f) <= ImpliedNumerator(f) * ImpliedDenominator(o)
  <1> DEFINE a == [x \in Selections |-> Term(o, x)]
             b == [x \in Selections |-> Term(f, x)]
             c == ImpliedDenominator(f)
             d == ImpliedDenominator(o)
  <1>1. a \in [Selections -> Nat] /\ b \in [Selections -> Nat] /\ c \in Nat /\ d \in Nat
    BY TermIsShare, DenominatorIsProduct
  <1>2. ASSUME NEW x \in Selections PROVE a[x] * c <= b[x] * d
    <2>1. PICK k \in Nat : d = Price[o[x].offer] * k /\ a[x] = PriceScale * k
      BY TermIsShare
    <2>2. PICK m \in Nat : c = Price[f[x].offer] * m /\ b[x] = PriceScale * m
      BY TermIsShare
    <2>3. Price[f[x].offer] \in Nat /\ Price[o[x].offer] \in Nat /\ PriceScale \in Nat
      BY MarketAssumption DEF Priceable
    <2> HIDE DEF a, b, c, d
    <2>4. a[x] * c = Price[f[x].offer] * (PriceScale * (k * m))
      BY <2>1, <2>2, <2>3
    <2>5. b[x] * d = Price[o[x].offer] * (PriceScale * (k * m))
      BY <2>1, <2>2, <2>3
    <2>6. PriceScale * (k * m) \in Nat
      BY <2>3
    <2> QED BY <2>3, <2>4, <2>5, <2>6, MonotoneProduct
  <1>3. PICK g : /\ ImpliedNumerator(o) = g[Selections]
                 /\ IsSum(g, Selections, a)
    BY NumeratorIsSum
  <1>4. PICK h : /\ ImpliedNumerator(f) = h[Selections]
                 /\ IsSum(h, Selections, b)
    BY NumeratorIsSum
  <1> HIDE DEF a, b, c, d
  <1>5. g[Selections] \in Nat /\ h[Selections] \in Nat /\ g[Selections] * c <= h[Selections] * d
    BY <1>1, <1>2, <1>3, <1>4, Sums, MarketAssumption
  <1> QED BY <1>3, <1>4, <1>5 DEF c, d

\* So they are an arbitrage when lower prices are one.
LEMMA BetterPricesStayArbitrage ==
  ASSUME NEW o, NEW f, Priceable(o), Priceable(f),
         \A s \in Selections : Price[f[s].offer] <= Price[o[s].offer],
         IsArbitrage(f)
  PROVE  IsArbitrage(o)
  <1> DEFINE n == ImpliedNumerator(o)
             d == ImpliedDenominator(o)
             m == ImpliedNumerator(f)
             e == ImpliedDenominator(f)
             M == 100 + MinMargin
  <1>1. /\ n \in Nat /\ m \in Nat /\ d \in Nat \ {0} /\ e \in Nat \ {0} /\ M \in Nat
        /\ n * e <= m * d
    BY BetterPricesSumLess, DenominatorIsProduct, MarketAssumption
  <1>2. m < e /\ m * M <= 100 * e
    BY <1>1, MarketAssumption DEF IsArbitrage
  <1>3. SUFFICES n < d /\ n * M <= 100 * d
    BY <1>1, MarketAssumption DEF IsArbitrage
  <1> HIDE DEF n, d, m, e, M
  <1>4. n < d
    <2>1. m * d < e * d
      BY <1>1, <1>2, CancelProduct
    <2>2. n * e \in Nat /\ m * d \in Nat /\ e * d \in Nat /\ e * d = d * e
      BY <1>1
    <2>3. n * e < d * e
      BY <1>1, <2>1, <2>2
    <2> QED BY <1>1, <2>3, CancelProduct
  <1>5. n * M <= 100 * d
    <2>1. (n * e) * M <= (m * d) * M
      <3>1. n * e \in Nat /\ m * d \in Nat
        BY <1>1
      <3> QED BY <1>1, <3>1, MonotoneProduct
    <2>2. (m * M) * d <= (100 * e) * d
      <3>1. m * M \in Nat /\ 100 * e \in Nat
        BY <1>1
      <3> QED BY <1>1, <1>2, <3>1, MonotoneProduct
    <2>3. /\ (n * e) * M = (n * M) * e /\ (m * d) * M = (m * M) * d
          /\ (100 * e) * d = (100 * d) * e
      BY <1>1
    <2>4. n * M \in Nat /\ 100 * d \in Nat /\ (m * M) * d \in Nat
          /\ (n * M) * e \in Nat /\ (100 * d) * e \in Nat
      BY <1>1
    <2>5. (n * M) * e <= (100 * d) * e
      BY <2>1, <2>2, <2>3, <2>4
    <2> QED BY <1>1, <2>4, <2>5, CancelProduct
  <1> QED BY <1>4, <1>5

-----------------------------------------------------------------------------
(* Best prices.                                                            *)

\* The prices of quotes are positive.
LEMMA QuotesArePriced ==
  ASSUME NEW legs, \A s \in Selections : legs[s] \in Store!Quote
  PROVE  Priceable(legs)
  <1>1. \A s \in Selections : legs[s].offer \in Offers
    BY DEF Store!Quote
  <1> QED BY <1>1, MarketAssumption DEF Priceable

\* A comparison of implied sums is reflexive and transitive.
LEMMA AtLeastIsOrder ==
  ASSUME NEW a, NEW b, NEW c, Priceable(a), Priceable(b), Priceable(c)
  PROVE  /\ AtLeast(a, a)
         /\ AtLeast(a, b) /\ AtLeast(b, c) => AtLeast(a, c)
         /\ AtLeast(a, b) \/ AtLeast(b, a)
  <1> DEFINE n(x) == ImpliedNumerator(x)
             d(x) == ImpliedDenominator(x)
  <1>1. n(a) \in Nat /\ n(b) \in Nat /\ n(c) \in Nat
    <2>1. ASSUME NEW x, Priceable(x) PROVE ImpliedNumerator(x) \in Nat
      <3>1. \A s \in Selections : Price[x[s].offer] <= Price[x[s].offer]
        BY <2>1 DEF Priceable
      <3> QED BY <2>1, <3>1, BetterPricesSumLess
    <2> QED BY <2>1
  <1>2. d(a) \in Nat \ {0} /\ d(b) \in Nat \ {0} /\ d(c) \in Nat \ {0}
    BY DenominatorIsProduct
  <1>3. \A x, y : AtLeast(x, y) <=> n(x) * d(y) <= n(y) * d(x)
    BY DEF AtLeast
  <1> HIDE DEF n, d
  <1>4. AtLeast(a, a)
    BY <1>1, <1>2, <1>3
  <1>5. AtLeast(a, b) \/ AtLeast(b, a)
    <2>1. n(a) * d(b) \in Nat /\ n(b) * d(a) \in Nat
      BY <1>1, <1>2
    <2> QED BY <1>3, <2>1
  <1>6. ASSUME AtLeast(a, b), AtLeast(b, c) PROVE AtLeast(a, c)
    <2>1. n(a) * d(b) <= n(b) * d(a) /\ n(b) * d(c) <= n(c) * d(b)
      BY <1>3, <1>6
    <2>2. (n(a) * d(b)) * d(c) <= (n(b) * d(a)) * d(c)
      <3>1. n(a) * d(b) \in Nat /\ n(b) * d(a) \in Nat /\ d(c) \in Nat
        BY <1>1, <1>2
      <3> QED BY <2>1, <3>1, MonotoneProduct
    <2>3. (n(b) * d(c)) * d(a) <= (n(c) * d(b)) * d(a)
      <3>1. n(b) * d(c) \in Nat /\ n(c) * d(b) \in Nat /\ d(a) \in Nat
        BY <1>1, <1>2
      <3> QED BY <2>1, <3>1, MonotoneProduct
    <2>4. /\ (n(a) * d(b)) * d(c) = (n(a) * d(c)) * d(b)
          /\ (n(b) * d(a)) * d(c) = (n(b) * d(c)) * d(a)
          /\ (n(c) * d(b)) * d(a) = (n(c) * d(a)) * d(b)
      BY <1>1, <1>2
    <2>5. /\ n(a) * d(c) \in Nat /\ n(c) * d(a) \in Nat
          /\ (n(a) * d(c)) * d(b) \in Nat /\ (n(b) * d(c)) * d(a) \in Nat
          /\ (n(c) * d(a)) * d(b) \in Nat
      BY <1>1, <1>2
    <2>6. (n(a) * d(c)) * d(b) <= (n(c) * d(a)) * d(b)
      BY <2>2, <2>3, <2>4, <2>5
    <2>7. n(a) * d(c) <= n(c) * d(a)
      BY <1>2, <2>5, <2>6, CancelProduct
    <2> QED BY <1>3, <2>7
  <1> QED BY <1>4, <1>5, <1>6

-----------------------------------------------------------------------------
(* The counts of the bookmakers.                                           *)

\* The sum of the selected quotes over the bookmakers of a report.
LEMMA SelectedIsSum ==
  ASSUME NEW P, IsFiniteSet(P), NEW m \in [P -> MetricsType]
  PROVE  \E f : Selected(m) = f[P] /\ IsSum(f, P, [p \in P |-> m[p].selected])
  <1> DEFINE a == [p \in P |-> m[p].selected]
             plus == [x \in Nat \X Nat |-> x[1] + x[2]]
             iter == CHOOSE f : f = [s \in SUBSET P |->
                       IF s = {} THEN 0 ELSE m[Pick(s)].selected + f[s \ {Pick(s)}]]
  <1>0. DOMAIN m = P
    OBVIOUS
  <1>1. Selected(m) = iter[P]
    BY <1>0 DEF Selected, SumOver, MapThenSumSet, MapThenFoldSet, Pick
  <1>2. a \in [P -> Nat]
    BY DEF MetricsType
  <1>3. \A s \in SUBSET P : s # {} =>
          Pick(s) \in P /\ s \ {Pick(s)} \in SUBSET P /\ m[Pick(s)].selected = a[Pick(s)]
    BY PickIsElement
  <1>4. plus \in [Nat \X Nat -> Nat] /\ \A x, y \in Nat : plus[<<x, y>>] = x + y
    OBVIOUS
  <1>5. \E f : f = [s \in SUBSET P |->
                 IF s = {} THEN 0 ELSE m[Pick(s)].selected + f[s \ {Pick(s)}]]
    <2> HIDE DEF a, plus, iter
    <2>1. PICK f : Folds(f, P, Nat, 0, plus, a)
      BY <1>2, <1>4, FoldExists
    <2>2. f \in [SUBSET P -> Nat]
      BY <2>1 DEF Folds
    <2>3. ASSUME NEW s \in SUBSET P
          PROVE  f[s] = IF s = {} THEN 0 ELSE m[Pick(s)].selected + f[s \ {Pick(s)}]
      <3>1. f[s] = IF s = {} THEN 0 ELSE plus[<<a[Pick(s)], f[s \ {Pick(s)}]>>]
        BY <2>1 DEF Folds
      <3>2. CASE s # {}
        BY <1>2, <1>3, <1>4, <2>2, <3>1, <3>2
      <3> QED BY <3>1, <3>2
    <2> QED BY <2>2, <2>3
  <1>6. iter = [s \in SUBSET P |->
                 IF s = {} THEN 0 ELSE m[Pick(s)].selected + iter[s \ {Pick(s)}]]
    BY <1>5
  <1> HIDE DEF iter, a, plus
  <1>7. IsSum(iter, P, a)
    BY <1>3, <1>6 DEF IsSum
  <1> QED BY <1>1, <1>7 DEF a

\* When every element of S is counted for one member of P, the counts add up to
\* the size of S.
LEMMA CountsAddUp ==
  ASSUME NEW P, IsFiniteSet(P), NEW S, IsFiniteSet(S), NEW g \in [S -> P],
         NEW a \in [P -> Nat], NEW b \in [P -> Nat],
         \A p \in P : b[p] = a[p] + Cardinality({s \in S : g[s] = p}),
         NEW f, IsSum(f, P, a),
         NEW h, IsSum(h, P, b)
  PROVE  f[P] \in Nat /\ h[P] = f[P] + Cardinality(S)
  <1> DEFINE of(T) == {s \in S : g[s] \in T}
             good(T) == f[T] \in Nat /\ h[T] = f[T] + Cardinality(of(T))
             bad == {T \in SUBSET P : ~good(T)}
  <1>1. \A T \in SUBSET P : /\ f[T] = IF T = {} THEN 0 ELSE a[Pick(T)] + f[T \ {Pick(T)}]
                            /\ h[T] = IF T = {} THEN 0 ELSE b[Pick(T)] + h[T \ {Pick(T)}]
    BY DEF IsSum
  <1>2. good(P)
    <2> SUFFICES ASSUME bad # {} PROVE FALSE
      OBVIOUS
    <2> HIDE DEF good
    <2>1. PICK T \in bad : \A u \in bad : ~(u \subseteq T /\ u # T)
      <3>1. bad \in SUBSET (SUBSET P)
        OBVIOUS
      <3> HIDE DEF bad
      <3> QED BY <3>1, MinimalSubset
    <2>2. T \in SUBSET P /\ T # {}
      <3>1. f[{}] = 0 /\ h[{}] = 0 /\ of({}) = {}
        BY <1>1
      <3>2. Cardinality({}) = 0
        BY FS_EmptySet
      <3>3. good({})
        <4> HIDE DEF of
        <4>1. Cardinality(of({})) = 0
          BY <3>1, <3>2
        <4> QED BY <3>1, <4>1 DEF good
      <3>4. T \in SUBSET P /\ ~good(T)
        BY <2>1
      <3> HIDE DEF bad
      <3> QED BY <3>3, <3>4
    <2> DEFINE p == Pick(T)
               rest == T \ {p}
               fibre == {s \in S : g[s] = p}
    <2>3. p \in T /\ p \in P /\ rest \in SUBSET P /\ rest # T
      BY <2>2, PickIsElement
    <2>4. good(rest)
      BY <2>1, <2>3
    <2>5. f[T] = a[p] + f[rest] /\ h[T] = b[p] + h[rest]
      BY <1>1, <2>2
    <2>6. of(T) = of(rest) \cup fibre /\ of(rest) \cap fibre = {}
      BY <2>3
    <2>7. /\ IsFiniteSet(of(rest)) /\ IsFiniteSet(fibre)
          /\ Cardinality(of(rest)) \in Nat /\ Cardinality(fibre) \in Nat
      <3>1. of(rest) \in SUBSET S /\ fibre \in SUBSET S
        OBVIOUS
      <3>2. \A U \in SUBSET S : IsFiniteSet(U) /\ Cardinality(U) \in Nat
        BY FS_Subset, FS_CardinalityType
      <3> HIDE DEF of, fibre
      <3> QED BY <3>1, <3>2
    <2>8. Cardinality(of(T)) = Cardinality(of(rest)) + Cardinality(fibre)
      <3> HIDE DEF of, fibre
      <3>1. Cardinality(of(rest) \cup fibre)
              = Cardinality(of(rest)) + Cardinality(fibre) - Cardinality(of(rest) \cap fibre)
        BY <2>7, FS_Union
      <3>2. Cardinality({}) = 0
        BY FS_EmptySet
      <3>3. Cardinality(of(T)) = Cardinality(of(rest) \cup fibre)
        BY <2>6
      <3>4. Cardinality(of(rest) \cap fibre) = 0
        BY <2>6, <3>2
      <3> HIDE DEF p, rest
      <3> QED BY <2>7, <3>1, <3>3, <3>4
    <2>9. b[p] = a[p] + Cardinality(fibre) /\ a[p] \in Nat
      BY <2>3
    <2>10. f[rest] \in Nat /\ h[rest] = f[rest] + Cardinality(of(rest))
      BY <2>4 DEF good
    <2> HIDE DEF p, rest, of, fibre
    <2>11. f[T] \in Nat /\ h[T] = f[T] + Cardinality(of(T))
      BY <2>5, <2>7, <2>8, <2>9, <2>10
    <2> QED BY <2>1, <2>11 DEF good
  <1>3. of(P) = S
    OBVIOUS
  <1> QED BY <1>2, <1>3

\* At most one book, and the count of a part of it.
LEMMA OneAtMost ==
  ASSUME NEW B, NEW b, B = {} \/ B = {b}, NEW C \in SUBSET B
  PROVE  /\ Cardinality(B) \in Nat /\ Cardinality(C) \in Nat /\ Cardinality(C) <= Cardinality(B)
         /\ B = {} => Cardinality(B) = 0
         /\ B # {} => Cardinality(B) = 1
  BY FS_EmptySet, FS_Singleton, FS_Subset, FS_CardinalityType

\* A corpus names finitely many bookmakers.
LEMMA ProvidersAreFinite ==
  ASSUME NEW c \in Corpora, ValidCorpus(c)
  PROVE  IsFiniteSet(CorpusProviders(c))
  <1> DEFINE f == [k \in Keys |-> ProviderOf[k]]
             all == {f[k] : k \in Keys}
  <1>1. IsFiniteSet(all)
    <2>1. f = [k \in Keys |-> f[k]] /\ IsFiniteSet(Keys)
      BY KeysAssumption
    <2> HIDE DEF f
    <2> QED BY <2>1, ImageIsFinite
  <1>2. ASSUME NEW i \in DOMAIN c, NEW q \in c[i].quotes PROVE ProviderOf[q.key] \in all
    <2>1. q \in Store!Quote
      BY CorpusFacts DEF IsBatch
    <2>2. q.key \in Keys
      BY <2>1, QuoteTimes
    <2> QED BY <2>2
  <1>3. CorpusProviders(c) \in SUBSET all
    <2> HIDE DEF all
    <2> QED BY <1>2 DEF CorpusProviders
  <1> HIDE DEF all
  <1> QED BY <1>1, <1>3, FS_Subset

\* The legs of a book are of bookmakers the corpus names.
LEMMA LegsAreRecorded ==
  ASSUME IsHeld(versions), Moment \in Int, QuotesRecorded, NEW b \in StrictBooks, NEW s \in Selections
  PROVE  ProviderOf[b[s].key] \in CorpusProviders(corpus)
  <1>1. b[s] \in StrictAble
    BY StrictBookLegs
  <1>2. StrictAble \subseteq CurrentQuotes
    <2>1. StrictQuotes \subseteq CurrentQuotes
      BY ConsolidatedIsPart DEF StrictQuotes, ConsolidatedEligible
    <2> QED BY <2>1 DEF StrictAble, BookEligible, Of
  <1>3. PICK k \in Store!FreshKeys(Moment) : b[s] = versions[k].quote
    BY <1>1, <1>2 DEF CurrentQuotes
  <1>4. k \in Keys /\ versions[k] # NoVersion
    BY <1>3 DEF Store!FreshKeys, Store!Stored
  <1>5. PICK i \in DOMAIN corpus : b[s] \in corpus[i].quotes
    BY <1>3, <1>4 DEF QuotesRecorded
  <1> QED BY <1>5 DEF CorpusProviders

\* A bookmaker that completes a book alone contributes to one of all together,
\* with prices that are no better.
LEMMA OwnBooks ==
  ASSUME IsHeld(versions), Moment \in Int, NEW p
  PROVE  /\ \E b : ProviderBooks(p) = {} \/ ProviderBooks(p) = {b}
         /\ ProviderBooks(p) # {} => StrictBooks # {}
         /\ Arbitrages(ProviderBooks(p)) # {} => Arbitrages(StrictBooks) # {}
  <1> DEFINE able == BookEligible(Of(StrictQuotes, {p}), Moment)
  <1>1. ProviderBooks(p) = {} \/ ProviderBooks(p) = {Book(able)}
    BY DEF ProviderBooks, Books
  <1>2. ASSUME ProviderBooks(p) # {}
        PROVE  /\ p \in config.providers /\ BookExists(able, Moment)
               /\ able \subseteq StrictAble /\ Keyed(able)
               /\ BookExists(StrictAble, Moment) /\ StrictBooks = {Book(StrictAble)}
    <2>1. p \in config.providers /\ BookExists(able, Moment)
      BY <1>2 DEF ProviderBooks, Books, AllowedProviders
    <2>2. able \subseteq StrictAble
      BY <2>1 DEF StrictAble, BookEligible, Of
    <2>3. Keyed(able)
      BY <2>2, AbleIsKeyed DEF Keyed
    <2> HIDE DEF able
    <2>4. BookExists(StrictAble, Moment)
      BY <2>1, <2>2 DEF BookExists, Candidates
    <2>5. StrictBooks = {Book(StrictAble)}
      BY <2>4 DEF StrictBooks, Books, StrictAble
    <2> QED BY <2>1, <2>2, <2>3, <2>4, <2>5
  <1> HIDE DEF able
  <1>3. ASSUME Arbitrages(ProviderBooks(p)) # {}
        PROVE  Arbitrages(StrictBooks) # {}
    <2> DEFINE own == Book(able)
               all == Book(StrictAble)
    <2>1. ProviderBooks(p) # {} /\ IsArbitrage(own)
      BY <1>1, <1>3 DEF Arbitrages
    <2>2. Keyed(StrictAble)
      BY AbleIsKeyed
    <2>3. own \in [Selections -> able] /\ all \in [Selections -> StrictAble]
      BY <1>2, <2>1, <2>2, BookLegs
    <2>4. Priceable(own) /\ Priceable(all)
      <3>1. \A s \in Selections : own[s] \in Store!Quote /\ all[s] \in Store!Quote
        BY <1>2, <2>1, <2>2, <2>3 DEF Keyed
      <3> QED BY <3>1, QuotesArePriced
    <2>5. ASSUME NEW s \in Selections PROVE Price[own[s].offer] <= Price[all[s].offer]
      <3>1. SelectionOf[own[s].key] = s /\ own[s] \in StrictAble
        BY <1>2, <2>1, <2>3, BookLegs
      <3>2. ~BetterQuote(own[s], all[s])
        BY <1>2, <2>1, <2>2, <3>1, BookLegs DEF Candidates
      <3>3. Price[own[s].offer] \in Nat /\ Price[all[s].offer] \in Nat
        BY <2>4 DEF Priceable
      <3> QED BY <3>2, <3>3 DEF BetterQuote
    <2> HIDE DEF own, all
    <2>6. IsArbitrage(all)
      BY <2>1, <2>4, <2>5, BetterPricesStayArbitrage
    <2>7. all \in StrictBooks
      BY <1>2, <2>1 DEF all
    <2> QED BY <2>6, <2>7 DEF Arbitrages
  <1> QED BY <1>1, <1>2, <1>3

\* The selections for which a bookmaker has the quote of the book.
Chosen(p) == UNION {{s \in Selections : ProviderOf[b[s].key] = p} : b \in StrictBooks}

\* A moment adds a book's selections to the selected quotes, each for one bookmaker.
LEMMA ChosenAddUp ==
  ASSUME IsHeld(versions), Moment \in Int, QuotesRecorded, NEW P, P = CorpusProviders(corpus),
         IsFiniteSet(P), NEW a \in [P -> Nat], NEW c \in [P -> Nat],
         \A p \in P : c[p] = a[p] + Cardinality(Chosen(p)),
         NEW f, IsSum(f, P, a),
         NEW h, IsSum(h, P, c)
  PROVE  /\ f[P] \in Nat
         /\ h[P] = f[P] + Cardinality(StrictBooks) * Cardinality(Selections)
  <1>0. IsFiniteSet(Selections) /\ Cardinality(Selections) \in Nat
    BY MarketAssumption, FS_CardinalityType
  <1>1. CASE StrictBooks = {}
    <2> DEFINE S == {}
               g == [s \in S |-> s]
    <2>1. g \in [S -> P] /\ IsFiniteSet(S) /\ Cardinality(S) = 0
      BY FS_EmptySet
    <2>2. Cardinality(StrictBooks) = 0
      BY <1>1, FS_EmptySet
    <2>3. \A p \in P : Chosen(p) = {s \in S : g[s] = p}
      BY <1>1 DEF Chosen
    <2> HIDE DEF g, S
    <2>4. \A p \in P : c[p] = a[p] + Cardinality({s \in S : g[s] = p})
      BY <2>3
    <2>5. f[P] \in Nat /\ h[P] = f[P] + Cardinality(S)
      BY <2>1, <2>4, CountsAddUp
    <2> QED BY <1>0, <2>1, <2>2, <2>5
  <1>2. CASE StrictBooks # {}
    <2>1. PICK b \in StrictBooks : TRUE
      BY <1>2
    <2>2. StrictBooks = {b} /\ Cardinality(StrictBooks) = 1
      BY <2>1, StrictBookLegs, FS_Singleton
    <2> DEFINE g == [s \in Selections |-> ProviderOf[b[s].key]]
    <2>3. g \in [Selections -> P]
      BY <2>1, LegsAreRecorded
    <2>4. ASSUME NEW p \in P PROVE c[p] = a[p] + Cardinality({s \in Selections : g[s] = p})
      <3>1. Chosen(p) = {s \in Selections : g[s] = p}
        BY <2>2 DEF Chosen
      <3> QED BY <3>1
    <2> HIDE DEF g
    <2>5. f[P] \in Nat /\ h[P] = f[P] + Cardinality(Selections)
      BY <1>0, <2>3, <2>4, CountsAddUp
    <2> QED BY <1>0, <2>2, <2>5
  <1> QED BY <1>1, <1>2

\* The counts after a detection.
LEMMA MetricsKeep ==
  ASSUME ReplayInv, ReportInv, Detect
  PROVE  /\ evaluations' \in Nat
         /\ metrics' \in [CorpusProviders(corpus) -> MetricsType]
         /\ MetricsAddUp'
  <1> DEFINE P == CorpusProviders(corpus)
             strict == Cardinality(StrictBooks)
             arbitrages == Cardinality(Arbitrages(StrictBooks))
             own(p) == Cardinality(ProviderBooks(p))
             theoretical(p) == Cardinality(Arbitrages(ProviderBooks(p)))
             actionable(p) == Cardinality({b \in Arbitrages(ProviderBooks(p)) : Actionable(b)})
             chosen(p) == Cardinality(Chosen(p))
  <1>1. corpus \in Corpora /\ ValidCorpus(corpus) /\ config \in Configs /\ IsHeld(versions)
    BY DEF ReplayInv
  <1>2. Moment \in Int
    <2>1. instant \in 1..Len(corpus)
      <3>1. instant \in 1..(Len(corpus) + 1) /\ instant <= Len(corpus) /\ Len(corpus) \in Nat
        BY <1>1, CorpusFacts DEF ReplayInv, Detect, Replaying
      <3> QED BY <3>1
    <2> QED BY <1>1, <2>1, MomentFacts DEF Moment
  <1>3. /\ evaluations \in Nat /\ metrics \in [P -> MetricsType] /\ IsFiniteSet(P)
        /\ QuotesRecorded /\ MetricsAddUp
    BY <1>1, ProvidersAreFinite DEF ReportInv
  <1>4. strict \in Nat /\ arbitrages \in Nat /\ (StrictBooks # {} => strict = 1)
        /\ (Arbitrages(StrictBooks) # {} => arbitrages = 1)
        /\ (Arbitrages(StrictBooks) = {} => arbitrages = 0)
    <2>1. \E b : StrictBooks = {} \/ StrictBooks = {b}
      BY DEF StrictBooks, Books
    <2>2. \E b : Arbitrages(StrictBooks) = {} \/ Arbitrages(StrictBooks) = {b}
      BY <2>1 DEF Arbitrages
    <2> QED BY <2>1, <2>2, OneAtMost
  <1>5. ASSUME NEW p \in P
        PROVE  /\ own(p) \in Nat /\ own(p) <= strict
               /\ theoretical(p) \in Nat /\ theoretical(p) <= arbitrages
               /\ actionable(p) \in Nat /\ actionable(p) <= theoretical(p)
    <2>1. PICK b : ProviderBooks(p) = {} \/ ProviderBooks(p) = {b}
      BY <1>1, <1>2, OwnBooks
    <2>2. Arbitrages(ProviderBooks(p)) = {} \/ Arbitrages(ProviderBooks(p)) = {b}
      BY <2>1 DEF Arbitrages
    <2>3. own(p) \in Nat /\ own(p) <= strict
      <3>1. own(p) \in Nat /\ own(p) <= 1 /\ (ProviderBooks(p) = {} => own(p) = 0)
        BY <2>1, OneAtMost
      <3> QED BY <1>1, <1>2, <1>4, <3>1, OwnBooks
    <2>4. theoretical(p) \in Nat /\ theoretical(p) <= arbitrages
      <3>1. /\ theoretical(p) \in Nat /\ theoretical(p) <= 1
            /\ (Arbitrages(ProviderBooks(p)) = {} => theoretical(p) = 0)
        BY <2>2, OneAtMost
      <3> QED BY <1>1, <1>2, <1>4, <3>1, OwnBooks
    <2>5. actionable(p) \in Nat /\ actionable(p) <= theoretical(p)
      <3> DEFINE A == {x \in Arbitrages(ProviderBooks(p)) : Actionable(x)}
      <3>1. A \in SUBSET Arbitrages(ProviderBooks(p))
        OBVIOUS
      <3> HIDE DEF A
      <3>2. /\ Cardinality(A) \in Nat
            /\ Cardinality(A) <= Cardinality(Arbitrages(ProviderBooks(p)))
        BY <2>2, <3>1, OneAtMost
      <3> QED BY <3>2 DEF A
    <2> QED BY <2>3, <2>4, <2>5
  <1>6. \A p \in P : chosen(p) \in Nat
    <2>1. \A p : Chosen(p) \in SUBSET Selections
      BY DEF Chosen
    <2> QED BY <2>1, MarketAssumption, FS_Subset, FS_CardinalityType
  <1>7. /\ evaluations' = evaluations + strict
        /\ metrics' = [p \in P |-> [selected |-> metrics[p].selected + chosen(p),
                                    books |-> metrics[p].books + own(p),
                                    theoretical |-> metrics[p].theoretical + theoretical(p),
                                    actionable |-> metrics[p].actionable + actionable(p)]]
    <2>1. DOMAIN metrics = P
      BY <1>3
    <2> QED BY <2>1 DEF Detect, Metrics, Chosen
  <1>8. Len(detections') = Len(detections) + arbitrages /\ Len(detections) \in Nat
    <2>1. detections \in Seq(DetectionType)
      BY DEF ReplayInv, DetectionsSoFar, DetectionType
    <2>2. detections' = detections \o ToSeq(Arbitrages(StrictBooks), Detection)
      BY DEF Detect
    <2>3. CASE Arbitrages(StrictBooks) = {}
      <3>1. detections' = detections
        BY <2>1, <2>2, <2>3, ConcatEmptySeq DEF ToSeq
      <3> QED BY <1>4, <2>1, <2>3, <3>1, LenProperties
    <2>4. CASE Arbitrages(StrictBooks) # {}
      <3>1. PICK b \in StrictBooks : /\ ToSeq(Arbitrages(StrictBooks), Detection) = <<Detection(b)>>
                                     /\ Detection(b) \in DetectionType
        BY <1>1, <1>2, <2>4, NewDetection
      <3>2. Len(detections \o <<Detection(b)>>) = Len(detections) + 1 /\ Len(detections) \in Nat
        BY <2>1, <3>1, OneMore
      <3> QED BY <1>4, <2>2, <2>4, <3>1, <3>2
    <2> QED BY <2>3, <2>4
  <1> HIDE DEF P, strict, arbitrages, own, theoretical, actionable, chosen
  <1>9. \A p \in P : /\ metrics[p].selected \in Nat /\ metrics[p].books \in Nat
                     /\ metrics[p].theoretical \in Nat /\ metrics[p].actionable \in Nat
    BY <1>3 DEF MetricsType
  <1>10. metrics' \in [P -> MetricsType] /\ evaluations' \in Nat
    BY <1>3, <1>4, <1>5, <1>6, <1>7, <1>9 DEF MetricsType
  <1>11. Selected(metrics') = evaluations' * Cardinality(Selections)
    <2> DEFINE a == [p \in P |-> metrics[p].selected]
               c == [p \in P |-> metrics'[p].selected]
    <2>1. PICK f : Selected(metrics) = f[P] /\ IsSum(f, P, a)
      BY <1>3, SelectedIsSum
    <2>2. PICK h : Selected(metrics') = h[P] /\ IsSum(h, P, c)
      BY <1>3, <1>10, SelectedIsSum
    <2>3. a \in [P -> Nat] /\ c \in [P -> Nat] /\ \A p \in P : c[p] = a[p] + Cardinality(Chosen(p))
      BY <1>6, <1>7, <1>9 DEF chosen
    <2>4. P = CorpusProviders(corpus)
      BY DEF P
    <2> HIDE DEF a, c
    <2>5. f[P] \in Nat /\ h[P] = f[P] + strict * Cardinality(Selections)
      BY <1>1, <1>2, <1>3, <2>1, <2>2, <2>3, <2>4, ChosenAddUp DEF strict
    <2>6. f[P] = evaluations * Cardinality(Selections)
      BY <1>3, <2>1 DEF MetricsAddUp
    <2>7. Cardinality(Selections) \in Nat
      BY MarketAssumption, FS_CardinalityType
    <2>8. (evaluations + strict) * Cardinality(Selections)
            = evaluations * Cardinality(Selections) + strict * Cardinality(Selections)
      BY <1>3, <1>4, <2>7
    <2> QED BY <1>7, <2>2, <2>5, <2>6, <2>8
  <1>12. ASSUME NEW p \in P
         PROVE  /\ metrics'[p].theoretical <= Len(detections')
                /\ metrics'[p].actionable <= metrics'[p].theoretical
                /\ metrics'[p].books <= evaluations'
    <2>1. /\ metrics[p].theoretical <= Len(detections)
          /\ metrics[p].actionable <= metrics[p].theoretical
          /\ metrics[p].books <= evaluations
      BY <1>3 DEF MetricsAddUp
    <2>2. /\ metrics'[p].theoretical = metrics[p].theoretical + theoretical(p)
          /\ metrics'[p].actionable = metrics[p].actionable + actionable(p)
          /\ metrics'[p].books = metrics[p].books + own(p)
      BY <1>7
    <2>3. metrics'[p].theoretical <= Len(detections')
      BY <1>4, <1>5, <1>8, <1>9, <2>1, <2>2
    <2>4. metrics'[p].actionable <= metrics'[p].theoretical
      BY <1>5, <1>9, <2>1, <2>2
    <2>5. metrics'[p].books <= evaluations'
      BY <1>3, <1>4, <1>5, <1>7, <1>9, <2>1, <2>2
    <2> QED BY <2>3, <2>4, <2>5
  <1>13. DOMAIN metrics' = P
    BY <1>10
  <1> QED BY <1>10, <1>11, <1>12, <1>13 DEF MetricsAddUp, P

-----------------------------------------------------------------------------
(* The intervals. What the invariant says of them, as a relation between   *)
(* the intervals, the detections d and the moments of a corpus c with the  *)
(* configuration k.                                                        *)

In(v, d) == {j \in DOMAIN d : Covers(v, d[j].at)}
During(v, c, k) == {n \in DOMAIN c : Covers(v, c[n].observed + k.latency)}

Says(v, d, c, k) ==
  /\ v.count >= 1 /\ v.started <= v.ended
  /\ v.count = Cardinality(In(v, d))
  /\ v.count = Cardinality(During(v, c, k))
  /\ v.ever <=> \E j \in In(v, d) : d[j].actionable
  /\ \A j \in In(v, d) : AtLeast(v.best, d[j].legs)

Divides(all, d, c, k) ==
  /\ \A i, l \in DOMAIN all : i # l => In(all[i], d) \cap In(all[l], d) = {}
  /\ \A j \in DOMAIN d : \E i \in DOMAIN all : j \in In(all[i], d)
  /\ \A i \in DOMAIN all : Says(all[i], d, c, k)

\* Before and after a step.
LEMMA DividesIsInvariant ==
  /\ IntervalsDivide <=> Divides(AllIntervals, detections, corpus, config)
  /\ IntervalsDivide' <=> Divides(AllIntervals', detections', corpus', config')
  <1>1. IntervalsDivide <=> Divides(AllIntervals, detections, corpus, config)
    BY DEF IntervalsDivide, Divides, Describes, Says, Within, In, Moments, During, DetectionTime
  <1>2. IntervalsDivide' <=> Divides(AllIntervals', detections', corpus', config')
    BY DEF IntervalsDivide, Divides, Describes, Says, Within, In, Moments, During, DetectionTime
  <1> QED BY <1>1, <1>2

\* An interval that loses and gains no detection still says the truth.
LEMMA SaysTheSame ==
  ASSUME NEW v, NEW w, NEW d, NEW e, NEW c, NEW k, Says(v, d, c, k),
         In(w, e) = In(v, d), During(w, c, k) = During(v, c, k),
         w.count = v.count, w.ever = v.ever, w.best = v.best, w.started <= w.ended,
         \A j \in In(v, d) : e[j] = d[j]
  PROVE  Says(w, e, c, k)
  BY DEF Says

\* e has one detection more than d.
OneMoreThan(e, d, x) ==
  d \in Seq(DetectionType) /\ x \in DetectionType /\ e = d \o <<x>>

\* The detections after one more.
LEMMA InGrows ==
  ASSUME NEW v, NEW d, NEW x, NEW e, OneMoreThan(e, d, x)
  PROVE  /\ Covers(v, x.at) => In(v, e) = In(v, d) \cup {Len(d) + 1}
         /\ ~Covers(v, x.at) => In(v, e) = In(v, d)
         /\ \A j \in In(v, d) : e[j] = d[j]
         /\ Len(d) + 1 \notin In(v, d) /\ IsFiniteSet(In(v, d)) /\ Cardinality(In(v, d)) \in Nat
  <1> DEFINE last == Len(d) + 1
  <1>1. /\ DOMAIN e = DOMAIN d \cup {last} /\ last \notin DOMAIN d /\ DOMAIN d = 1..Len(d)
        /\ \A j \in DOMAIN d : e[j] = d[j]
        /\ e[last] = x /\ Len(d) \in Nat
    BY OneMore DEF OneMoreThan
  <1> HIDE DEF last
  <1>2. Covers(v, x.at) => In(v, e) = In(v, d) \cup {last}
    BY <1>1 DEF In
  <1>3. ~Covers(v, x.at) => In(v, e) = In(v, d)
    BY <1>1 DEF In
  <1>4. In(v, d) \in SUBSET (1..Len(d)) /\ last \notin In(v, d) /\ \A j \in In(v, d) : e[j] = d[j]
    BY <1>1 DEF In
  <1>5. IsFiniteSet(1..Len(d))
    BY <1>1, FS_Interval
  <1>6. IsFiniteSet(In(v, d)) /\ Cardinality(In(v, d)) \in Nat
    BY <1>4, <1>5, FS_Subset, FS_CardinalityType
  <1> QED BY <1>2, <1>3, <1>4, <1>6 DEF last

\* A new last interval w, which has every detection the others do not have.
LEMMA LastDivides ==
  ASSUME NEW ints \in Seq(IntervalType), NEW w \in IntervalType, NEW d, NEW c, NEW k,
         \A i \in DOMAIN ints : Says(ints[i], d, c, k),
         \A i, l \in DOMAIN ints : i # l => In(ints[i], d) \cap In(ints[l], d) = {},
         \A i \in DOMAIN ints : In(ints[i], d) \cap In(w, d) = {},
         \A j \in DOMAIN d : j \in In(w, d) \/ \E i \in DOMAIN ints : j \in In(ints[i], d),
         Says(w, d, c, k)
  PROVE  Divides(Append(ints, w), d, c, k)
  <1> DEFINE all == ints \o <<w>>
             last == Len(ints) + 1
  <1>1. /\ Append(ints, w) = all /\ DOMAIN all = DOMAIN ints \cup {last} /\ last \notin DOMAIN ints
        /\ \A i \in DOMAIN ints : all[i] = ints[i]
        /\ all[last] = w
    BY OneMore
  <1> HIDE DEF all, last
  <1>2. ASSUME NEW i \in DOMAIN all, NEW l \in DOMAIN all, i # l
        PROVE  In(all[i], d) \cap In(all[l], d) = {}
    <2>1. CASE i = last /\ l \in DOMAIN ints
      BY <1>1, <2>1
    <2>2. CASE l = last /\ i \in DOMAIN ints
      BY <1>1, <2>2
    <2>3. CASE i \in DOMAIN ints /\ l \in DOMAIN ints
      BY <1>1, <1>2, <2>3
    <2> QED BY <1>1, <1>2, <2>1, <2>2, <2>3
  <1>3. ASSUME NEW j \in DOMAIN d PROVE \E i \in DOMAIN all : j \in In(all[i], d)
    BY <1>1
  <1>4. \A i \in DOMAIN all : Says(all[i], d, c, k)
    BY <1>1
  <1> QED BY <1>1, <1>2, <1>3, <1>4 DEF Divides

\* What a division says of the intervals before the last.
LEMMA LastDivided ==
  ASSUME NEW ints \in Seq(IntervalType), NEW v \in IntervalType, NEW d, NEW c, NEW k,
         Divides(Append(ints, v), d, c, k)
  PROVE  /\ \A i \in DOMAIN ints : Says(ints[i], d, c, k)
         /\ \A i, l \in DOMAIN ints : i # l => In(ints[i], d) \cap In(ints[l], d) = {}
         /\ \A i \in DOMAIN ints : In(ints[i], d) \cap In(v, d) = {}
         /\ \A j \in DOMAIN d : j \in In(v, d) \/ \E i \in DOMAIN ints : j \in In(ints[i], d)
         /\ Says(v, d, c, k)
  <1> DEFINE all == ints \o <<v>>
             last == Len(ints) + 1
  <1>1. /\ Append(ints, v) = all /\ DOMAIN all = DOMAIN ints \cup {last} /\ last \notin DOMAIN ints
        /\ \A i \in DOMAIN ints : all[i] = ints[i]
        /\ all[last] = v
    BY OneMore
  <1> HIDE DEF all, last
  <1>2. /\ \A i, l \in DOMAIN all : i # l => In(all[i], d) \cap In(all[l], d) = {}
        /\ \A j \in DOMAIN d : \E i \in DOMAIN all : j \in In(all[i], d)
        /\ \A i \in DOMAIN all : Says(all[i], d, c, k)
    BY <1>1 DEF Divides
  <1>3. ASSUME NEW i \in DOMAIN ints, NEW l \in DOMAIN ints, i # l
        PROVE  In(ints[i], d) \cap In(ints[l], d) = {}
    BY <1>1, <1>2, <1>3
  <1>4. ASSUME NEW i \in DOMAIN ints PROVE In(ints[i], d) \cap In(v, d) = {}
    BY <1>1, <1>2
  <1>5. ASSUME NEW j \in DOMAIN d, j \notin In(v, d) PROVE \E i \in DOMAIN ints : j \in In(ints[i], d)
    BY <1>1, <1>2, <1>5
  <1>6. Says(v, d, c, k) /\ \A i \in DOMAIN ints : Says(ints[i], d, c, k)
    BY <1>1, <1>2
  <1> QED BY <1>3, <1>4, <1>5, <1>6

\* A detection that none of the earlier intervals covers and the last one does.
LEMMA LastGrows ==
  ASSUME NEW ints \in Seq(IntervalType), NEW w \in IntervalType,
         NEW d, NEW x, NEW e, OneMoreThan(e, d, x), NEW c, NEW k,
         \A i \in DOMAIN ints : ~Covers(ints[i], x.at),
         Covers(w, x.at),
         \A i \in DOMAIN ints : Says(ints[i], d, c, k),
         \A i, l \in DOMAIN ints : i # l => In(ints[i], d) \cap In(ints[l], d) = {},
         \A i \in DOMAIN ints : In(ints[i], d) \cap In(w, d) = {},
         \A j \in DOMAIN d : j \in In(w, d) \/ \E i \in DOMAIN ints : j \in In(ints[i], d),
         Says(w, e, c, k)
  PROVE  Divides(Append(ints, w), e, c, k)
  <1> DEFINE last == Len(d) + 1
  <1>0. \A v : /\ Covers(v, x.at) => In(v, e) = In(v, d) \cup {last}
               /\ ~Covers(v, x.at) => In(v, e) = In(v, d)
               /\ last \notin In(v, d) /\ \A j \in In(v, d) : e[j] = d[j]
    BY InGrows
  <1>1. In(w, e) = In(w, d) \cup {last}
    BY <1>0
  <1>2. \A i \in DOMAIN ints : /\ In(ints[i], e) = In(ints[i], d) /\ last \notin In(ints[i], d)
                               /\ \A j \in In(ints[i], d) : e[j] = d[j]
    <2> HIDE DEF last
    <2> QED BY <1>0
  <1>3. DOMAIN e = DOMAIN d \cup {last}
    BY OneMore DEF OneMoreThan
  <1> HIDE DEF last
  <1>4. ASSUME NEW i \in DOMAIN ints PROVE Says(ints[i], e, c, k)
    <2>1. ints[i].started <= ints[i].ended
      BY DEF Says
    <2> QED BY <1>2, <2>1, SaysTheSame
  <1>5. \A i, l \in DOMAIN ints : i # l => In(ints[i], e) \cap In(ints[l], e) = {}
    BY <1>2
  <1>6. \A i \in DOMAIN ints : In(ints[i], e) \cap In(w, e) = {}
    BY <1>1, <1>2
  <1>7. \A j \in DOMAIN e : j \in In(w, e) \/ \E i \in DOMAIN ints : j \in In(ints[i], e)
    BY <1>1, <1>2, <1>3
  <1> QED BY <1>4, <1>5, <1>6, <1>7, LastDivides

\* The moments of an interval are finitely many.
LEMMA DuringIsFinite ==
  ASSUME NEW v, NEW c \in Corpora, ValidCorpus(c), NEW k
  PROVE  IsFiniteSet(During(v, c, k)) /\ Cardinality(During(v, c, k)) \in Nat
  <1>1. DOMAIN c = 1..Len(c) /\ Len(c) \in Nat
    BY CorpusFacts
  <1>2. During(v, c, k) \in SUBSET (1..Len(c)) /\ IsFiniteSet(1..Len(c))
    BY <1>1, FS_Interval DEF During
  <1> QED BY <1>2, FS_Subset, FS_CardinalityType

\* An interval that starts with a detection.
LEMMA IntervalStarts ==
  ASSUME NEW w, NEW d, NEW x, NEW e, OneMoreThan(e, d, x), NEW c, NEW k,
         Priceable(x.legs), In(w, d) = {}, Covers(w, x.at), NEW n, During(w, c, k) = {n},
         w.started <= w.ended, w.count = 1, w.best = x.legs, w.ever = x.actionable
  PROVE  Says(w, e, c, k)
  <1> DEFINE last == Len(d) + 1
  <1>1. In(w, e) = {} \cup {last}
    BY InGrows
  <1>2. e[last] = x
    BY OneMore DEF OneMoreThan
  <1> HIDE DEF last
  <1>3. In(w, e) = {last}
    BY <1>1
  <1>4. Cardinality({last}) = 1 /\ Cardinality({n}) = 1
    BY FS_Singleton
  <1>5. AtLeast(x.legs, x.legs)
    BY AtLeastIsOrder
  <1> QED BY <1>2, <1>3, <1>4, <1>5 DEF Says

\* An interval v that a detection makes w.
LEMMA IntervalGrows ==
  ASSUME NEW v, NEW w, NEW d, NEW x, NEW e, OneMoreThan(e, d, x), NEW c \in Corpora, ValidCorpus(c),
         NEW k, Says(v, d, c, k), In(w, d) = In(v, d), Covers(w, x.at),
         NEW n, n \notin During(v, c, k), During(w, c, k) = During(v, c, k) \cup {n},
         w.started <= w.ended, w.count = v.count + 1, w.ever <=> (v.ever \/ x.actionable),
         \A j \in In(v, d) : AtLeast(w.best, d[j].legs),
         AtLeast(w.best, x.legs)
  PROVE  Says(w, e, c, k)
  <1> DEFINE last == Len(d) + 1
  <1>1. /\ In(w, e) = In(w, d) \cup {last} /\ last \notin In(w, d)
        /\ IsFiniteSet(In(w, d)) /\ \A j \in In(w, d) : e[j] = d[j]
    BY InGrows
  <1>2. e[last] = x
    BY OneMore DEF OneMoreThan
  <1> HIDE DEF last
  <1>3. In(w, e) = In(v, d) \cup {last}
    BY <1>1
  <1>4. Cardinality(In(w, e)) = Cardinality(In(v, d)) + 1
    <2>1. IsFiniteSet(In(v, d)) /\ last \notin In(v, d)
      BY <1>1
    <2>2. Cardinality(In(v, d) \cup {last}) = Cardinality(In(v, d)) + 1
      BY <2>1, FS_AddElement
    <2> QED BY <1>3, <2>2
  <1>5. Cardinality(During(w, c, k)) = Cardinality(During(v, c, k)) + 1
    <2>1. IsFiniteSet(During(v, c, k))
      BY DuringIsFinite
    <2>2. Cardinality(During(v, c, k) \cup {n}) = Cardinality(During(v, c, k)) + 1
      BY <2>1, FS_AddElement
    <2> QED BY <2>2
  <1>6. /\ v.count = Cardinality(In(v, d)) /\ v.count = Cardinality(During(v, c, k))
        /\ v.count >= 1 /\ v.count \in Nat
    BY DuringIsFinite DEF Says
  <1>7. w.count = Cardinality(In(w, e)) /\ w.count = Cardinality(During(w, c, k)) /\ w.count >= 1
    BY <1>4, <1>5, <1>6
  <1>8. \A j \in In(v, d) : e[j] = d[j]
    BY <1>1
  <1>9. w.ever <=> \E j \in In(w, e) : e[j].actionable
    <2>1. v.ever <=> \E j \in In(v, d) : d[j].actionable
      BY DEF Says
    <2> QED BY <1>2, <1>3, <1>8, <2>1
  <1>10. \A j \in In(w, e) : AtLeast(w.best, e[j].legs)
    BY <1>2, <1>3, <1>8
  <1> QED BY <1>7, <1>9, <1>10 DEF Says

\* An interval that has lasted to the moment before the m-th of an ordered series
\* of moments: what its end at the m-th, or its extension over it, covers.
LEMMA EndsMeet ==
  ASSUME NEW n \in Nat, NEW T \in [1..n -> Int], \A i, j \in 1..n : i < j => T[i] < T[j],
         NEW m \in 1..n, m - 1 \in 1..n, NEW v, NEW w, NEW u,
         v.started \in Int, v.started <= T[m - 1], w.started = v.started, u.started = v.started,
         v.ended = T[m - 1], v.byEnd = TRUE,
         w.ended = T[m], w.byEnd = FALSE,
         u.ended = T[m], u.byEnd = TRUE
  PROVE  /\ \A i \in 1..n : Covers(w, T[i]) <=> Covers(v, T[i])
         /\ \A i \in 1..n : Covers(u, T[i]) <=> (Covers(v, T[i]) \/ i = m)
         /\ ~Covers(v, T[m])
  <1>1. T[m] \in Int /\ T[m - 1] \in Int /\ T[m - 1] < T[m] /\ \A i \in 1..n : T[i] \in Int
    <2>1. m - 1 < m
      OBVIOUS
    <2> QED BY <2>1
  <1>2. ASSUME NEW i \in 1..n
        PROVE  /\ T[i] <= T[m - 1] <=> T[i] < T[m]
               /\ T[i] <= T[m] <=> (T[i] <= T[m - 1] \/ i = m)
    <2>1. i < m - 1 \/ i = m - 1 \/ i = m \/ m < i
      OBVIOUS
    <2>2. CASE i < m - 1
      <3>1. T[i] < T[m - 1]
        BY <2>2
      <3> QED BY <1>1, <2>2, <3>1
    <2>3. CASE i = m - 1
      BY <1>1, <2>3
    <2>4. CASE i = m
      BY <1>1, <2>4
    <2>5. CASE m < i
      <3>1. T[m] < T[i]
        BY <2>5
      <3> QED BY <1>1, <2>5, <3>1
    <2> QED BY <2>1, <2>2, <2>3, <2>4, <2>5
  <1>3. ASSUME NEW i \in 1..n
        PROVE  /\ Covers(v, T[i]) <=> (T[i] >= v.started /\ T[i] <= T[m - 1])
               /\ Covers(w, T[i]) <=> (T[i] >= v.started /\ T[i] < T[m])
               /\ Covers(u, T[i]) <=> (T[i] >= v.started /\ T[i] <= T[m])
    <2>1. T[i] \in Int
      BY <1>1
    <2> QED BY <1>1, <2>1 DEF Covers
  <1>4. T[m] >= v.started
    BY <1>1
  <1> QED BY <1>1, <1>2, <1>3, <1>4

\* Closing an interval leaves all but its end.
LEMMA ClosedFacts ==
  ASSUME NEW o \in OpenIntervalType, NEW t \in Int, NEW b \in BOOLEAN
  PROVE  LET v == Closed(o, t, b)
         IN  /\ v \in IntervalType /\ v.started = o.started /\ v.ended = t /\ v.count = o.count
             /\ v.best = o.best /\ v.ever = o.ever /\ v.byEnd = b
             /\ v.started \in Int /\ v.count \in Nat /\ v.ever \in BOOLEAN
             /\ Priceable(v.best)
  <1>1. Priceable(o.best)
    <2>1. \A s \in Selections : o.best[s] \in Store!Quote
      BY DEF OpenIntervalType
    <2> QED BY <2>1, QuotesArePriced
  <1> QED BY <1>1 DEF Closed, OpenIntervalType, IntervalType

\* The intervals after a detection: the open one is closed, started, or goes on.
LEMMA IntervalsKeep ==
  ASSUME ReplayInv, ReportInv, Detect
  PROVE  IntervalsSoFar' /\ IntervalsDivide'
  <1> DEFINE n == Len(corpus)
             t == Moment
             T == [i \in 1..n |-> DetectionTime(i)]
             last == instant - 1
             old == Closed(open, DetectionTime(last), TRUE)
  <1>1. corpus \in Corpora /\ ValidCorpus(corpus) /\ config \in Configs /\ IsHeld(versions)
    BY DEF ReplayInv
  <1>2. n \in Nat \ {0} /\ DOMAIN corpus = 1..n
    BY <1>1, CorpusFacts
  <1>3. /\ instant \in 1..n /\ instant' = instant + 1 /\ Replaying
        /\ UNCHANGED <<corpus, config, next, versions>>
    <2>1. /\ instant <= n /\ instant' = instant + 1 /\ Replaying
          /\ UNCHANGED <<corpus, config, next, versions>>
      BY DEF Replaying, Detect
    <2>2. instant \in 1..(n + 1)
      BY DEF ReplayInv
    <2> QED BY <1>2, <2>1, <2>2
  <1>4. /\ T \in [1..n -> Int] /\ \A i, j \in 1..n : i < j => T[i] < T[j]
        /\ \A i \in 1..n : T[i] = DetectionTime(i)
        /\ t = T[instant] /\ t \in Int
        /\ \A i \in 1..last : i \in 1..n /\ i < instant /\ T[i] \in Int /\ T[i] < t
    <2>1. \A i \in 1..last : i \in 1..n /\ i < instant
      BY <1>2, <1>3
    <2>2. /\ \A i \in 1..n : DetectionTime(i) \in Int
          /\ \A i, j \in 1..n : i < j => DetectionTime(i) < DetectionTime(j)
      BY <1>1, MomentFacts
    <2>3. t = T[instant]
      BY <1>3 DEF Moment
    <2> QED BY <1>3, <2>1, <2>2, <2>3
  <1>5. /\ \A i : DetectionTime(i)' = DetectionTime(i)
        /\ instant' - 1 = instant /\ DetectionTime(instant - 1)' = t
        /\ 1..(instant' - 1) = (1..last) \cup {instant}
    <2>1. instant' - 1 = instant /\ 1..(instant' - 1) = (1..last) \cup {instant}
      BY <1>2, <1>3
    <2>2. \A i : DetectionTime(i)' = DetectionTime(i)
      BY <1>3 DEF DetectionTime
    <2>3. DetectionTime(instant - 1)' = t
      BY <1>3, <2>1 DEF DetectionTime, Moment
    <2> QED BY <2>1, <2>2, <2>3
  <1>6. \A v : During(v, corpus, config) = {i \in 1..n : Covers(v, T[i])}
    BY <1>2, <1>4 DEF During, DetectionTime
  <1>7. /\ detections \in Seq(DetectionType)
        /\ \A j \in DOMAIN detections : \E i \in 1..last : detections[j].at = T[i]
    BY <1>4 DEF ReplayInv, DetectionsSoFar, DetectionType
  <1>8. /\ intervals \in Seq(IntervalType)
        /\ \A i \in DOMAIN intervals : ~intervals[i].byEnd /\ \E z \in 1..last : intervals[i].ended = T[z]
        /\ open # None => /\ open \in OpenIntervalType
                          /\ \E z \in 1..last : open.started = T[z]
                          /\ \A i \in DOMAIN intervals : intervals[i].ended <= open.started
    BY <1>3, <1>4 DEF ReportInv, IntervalsSoFar
  <1>9. \A i \in DOMAIN intervals : ~Covers(intervals[i], t)
    <2> TAKE i \in DOMAIN intervals
    <2>1. PICK z \in 1..last : intervals[i].ended = T[z]
      BY <1>8
    <2>2. ~intervals[i].byEnd /\ intervals[i].ended < t /\ intervals[i].ended \in Int
      BY <1>4, <1>8, <2>1
    <2> HIDE DEF t
    <2> QED BY <1>4, <2>2 DEF Covers
  <1>10. Divides(AllIntervals, detections, corpus, config)
    BY DividesIsInvariant DEF ReportInv
  <1>11. open # None =>
           /\ last \in 1..n /\ open.started \in Int /\ open.started <= T[last] /\ T[last] < t
           /\ old \in IntervalType /\ old.ended = T[last] /\ old.byEnd = TRUE
           /\ old.started = open.started /\ AllIntervals = Append(intervals, old)
    <2> HAVE open # None
    <2>1. PICK z \in 1..last : open.started = T[z]
      BY <1>8
    <2>2. last \in 1..last /\ last \in Int
      BY <1>3, <2>1
    <2>3. T[z] \in Int /\ T[z] <= T[last] /\ T[last] \in Int
      <3>1. z = last \/ z < last
        BY <1>3
      <3> QED BY <1>4, <2>2, <3>1
    <2>4. DetectionTime(last) \in Int /\ DetectionTime(last) = T[last]
      BY <1>4, <2>2
    <2>5. old \in IntervalType /\ old.ended = T[last] /\ old.byEnd = TRUE /\ old.started = open.started
      BY <1>8, <2>4, ClosedFacts
    <2>6. AllIntervals = Append(intervals, old)
      BY DEF AllIntervals
    <2> QED BY <1>4, <2>1, <2>2, <2>3, <2>5, <2>6
  <1>12. /\ intervals' = IF open # None /\ Arbitrages(StrictBooks) = {}
                         THEN Append(intervals, Closed(open, t, FALSE)) ELSE intervals
         /\ open' = OpenInterval
    BY DEF Detect, ClosedIntervals
  <1>13. AllIntervals' = IF open' = None THEN intervals' ELSE Append(intervals', Closed(open', t, TRUE))
    BY <1>5 DEF AllIntervals
  <1> HIDE DEF n, t, T, last
  <1>14. CASE Arbitrages(StrictBooks) = {}
    <2>1. open' = None /\ AllIntervals' = intervals'
      BY <1>12, <1>13, <1>14 DEF OpenInterval
    <2>2. detections' = detections
      <3>1. detections' = detections \o <<>>
        BY <1>14 DEF Detect, ToSeq
      <3> QED BY <1>7, <3>1, ConcatEmptySeq
    <2>3. CASE open = None
      <3>1. intervals' = intervals /\ AllIntervals' = AllIntervals
        BY <1>12, <2>1, <2>3 DEF AllIntervals
      <3>2. IntervalsDivide'
        BY <1>3, <1>10, <2>2, <3>1, DividesIsInvariant
      <3>3. IntervalsSoFar'
        <4>1. \A i \in DOMAIN intervals : \E z \in 1..(instant' - 1) : intervals[i].ended = DetectionTime(z)'
          BY <1>4, <1>5, <1>8
        <4> QED BY <1>8, <2>1, <3>1, <4>1 DEF IntervalsSoFar
      <3> QED BY <3>2, <3>3
    <2>4. CASE open # None
      <3> DEFINE w == Closed(open, t, FALSE)
      <3>1. intervals' = Append(intervals, w)
        BY <1>12, <1>14, <2>4
      <3>2. /\ w \in IntervalType /\ w.started = open.started /\ w.ended = t /\ w.byEnd = FALSE
            /\ w.count = old.count /\ w.ever = old.ever /\ w.best = old.best
        BY <1>4, <1>8, <2>4, ClosedFacts DEF Closed
      <3> HIDE DEF w, old
      <3>3. \A i \in 1..n : Covers(w, T[i]) <=> Covers(old, T[i])
        <4> DEFINE u == Closed(open, t, TRUE)
        <4>1. u.started = open.started /\ u.ended = t /\ u.byEnd = TRUE
          BY DEF Closed
        <4>2. instant - 1 = last
          BY DEF last
        <4> HIDE DEF u
        <4>3. /\ instant - 1 \in 1..n /\ old.started \in Int /\ old.started <= T[instant - 1]
              /\ w.started = old.started /\ u.started = old.started
              /\ old.ended = T[instant - 1] /\ old.byEnd = TRUE
              /\ w.ended = T[instant] /\ w.byEnd = FALSE /\ u.ended = T[instant] /\ u.byEnd = TRUE
          BY <1>4, <1>11, <2>4, <3>2, <4>1, <4>2
        <4>4. n \in Nat /\ T \in [1..n -> Int] /\ \A i, j \in 1..n : i < j => T[i] < T[j]
          BY <1>2, <1>4
        <4> QED BY <1>3, <4>3, <4>4, EndsMeet
      <3>4. During(w, corpus, config) = During(old, corpus, config)
        BY <1>6, <3>3
      <3>5. In(w, detections) = In(old, detections)
        BY <1>4, <1>7, <3>3 DEF In
      <3>6. Divides(Append(intervals, old), detections, corpus, config)
        BY <1>10, <1>11, <2>4
      <3>7. /\ \A i \in DOMAIN intervals : Says(intervals[i], detections, corpus, config)
            /\ \A i, l \in DOMAIN intervals :
                 i # l => In(intervals[i], detections) \cap In(intervals[l], detections) = {}
            /\ \A i \in DOMAIN intervals : In(intervals[i], detections) \cap In(old, detections) = {}
            /\ \A j \in DOMAIN detections :
                 j \in In(old, detections) \/ \E i \in DOMAIN intervals : j \in In(intervals[i], detections)
            /\ Says(old, detections, corpus, config)
        BY <1>8, <1>11, <2>4, <3>6, LastDivided
      <3>8. Says(w, detections, corpus, config)
        <4>1. w.started <= w.ended
          BY <1>4, <1>11, <2>4, <3>2
        <4> QED BY <3>2, <3>4, <3>5, <3>7, <4>1, SaysTheSame
      <3>9. Divides(Append(intervals, w), detections, corpus, config)
        BY <1>8, <3>2, <3>5, <3>7, <3>8, LastDivides
      <3>10. IntervalsDivide'
        BY <1>3, <2>1, <2>2, <3>1, <3>9, DividesIsInvariant
      <3>11. IntervalsSoFar'
        <4> DEFINE end == Len(intervals) + 1
        <4>1. /\ intervals' \in Seq(IntervalType) /\ DOMAIN intervals' = DOMAIN intervals \cup {end}
              /\ \A i \in DOMAIN intervals : intervals'[i] = intervals[i]
              /\ intervals'[end] = w
          BY <1>8, <3>1, <3>2, OneMore
        <4> HIDE DEF end
        <4>2. ASSUME NEW i \in DOMAIN intervals'
              PROVE  ~intervals'[i].byEnd /\ \E z \in 1..(instant' - 1) : intervals'[i].ended = DetectionTime(z)'
          <5>1. CASE i = end
            BY <1>3, <1>4, <1>5, <3>2, <4>1, <5>1
          <5>2. CASE i \in DOMAIN intervals
            BY <1>4, <1>5, <1>8, <4>1, <5>2
          <5> QED BY <4>1, <5>1, <5>2
        <4> QED BY <2>1, <4>1, <4>2 DEF IntervalsSoFar
      <3> QED BY <3>10, <3>11
    <2> QED BY <2>3, <2>4
  <1>15. CASE Arbitrages(StrictBooks) # {}
    <2>1. PICK b \in StrictBooks : /\ ToSeq(Arbitrages(StrictBooks), Detection) = <<Detection(b)>>
                                   /\ Detection(b) \in DetectionType /\ Detection(b).at = t
                                   /\ Detection(b).legs = b /\ Detection(b).actionable = Actionable(b)
      BY <1>1, <1>4, <1>15, NewDetection DEF t
    <2> DEFINE x == Detection(b)
    <2>2. OneMoreThan(detections', detections, x)
      BY <1>7, <2>1 DEF Detect, OneMoreThan
    <2>3. /\ StrictBooks = {b} /\ (CHOOSE y \in StrictBooks : TRUE) = b
          /\ b \in [Selections -> Store!Quote] /\ Priceable(b)
      <3>1. StrictBooks = {b} /\ b \in [Selections -> Store!Quote]
        BY <1>1, <1>4, StrictBookLegs DEF t
      <3>2. Priceable(b)
        BY <3>1, QuotesArePriced
      <3> QED BY <3>1, <3>2
    <2>4. intervals' = intervals
      BY <1>12, <1>15
    <2>5. x.at = t /\ x.legs = b /\ x.actionable = Actionable(b) /\ Actionable(b) \in BOOLEAN
      BY <2>1 DEF Actionable
    <2> HIDE DEF x
    <2>6. \A i \in DOMAIN intervals : ~Covers(intervals[i], x.at)
      BY <1>9, <2>5
    <2> DEFINE w == Closed(open', t, TRUE)
    <2>7. CASE open = None
      <3>1. open' = [started |-> t, count |-> 1, best |-> b, ever |-> Actionable(b)]
        BY <1>12, <1>15, <2>3, <2>7 DEF OpenInterval, t
      <3>2. open' \in OpenIntervalType /\ open' # None
        BY <1>4, <2>3, <2>5, <3>1, NoneAssumption DEF OpenIntervalType
      <3>3. /\ w \in IntervalType /\ w.started = t /\ w.ended = t /\ w.byEnd = TRUE
            /\ w.count = 1 /\ w.best = x.legs /\ w.ever = x.actionable
        <4>1. /\ w \in IntervalType /\ w.started = open'.started /\ w.ended = t /\ w.byEnd = TRUE
              /\ w.count = open'.count /\ w.ever = open'.ever /\ w.best = open'.best
          BY <1>4, <3>2, ClosedFacts
        <4> HIDE DEF w
        <4> QED BY <2>5, <3>1, <4>1
      <3>4. AllIntervals' = Append(intervals, w)
        BY <1>13, <2>4, <3>2
      <3> HIDE DEF w
      <3>5. In(w, detections) = {}
        <4>1. \A j \in DOMAIN detections : detections[j].at < t /\ detections[j].at \in Int
          BY <1>4, <1>7
        <4> QED BY <1>4, <3>3, <4>1 DEF In, Covers
      <3>6. Covers(w, x.at)
        BY <1>4, <2>5, <3>3 DEF Covers
      <3>7. During(w, corpus, config) = {instant}
        <4>1. \A i \in 1..n : Covers(w, T[i]) <=> T[i] = t
          BY <1>4, <3>3 DEF Covers
        <4>2. \A i \in 1..n : T[i] = t => i = instant
          <5>1. ASSUME NEW i \in 1..n, i # instant PROVE T[i] # t
            <6>1. i < instant \/ instant < i
              BY <1>3, <5>1
            <6>2. T[i] < T[instant] \/ T[instant] < T[i]
              BY <1>3, <1>4, <6>1
            <6>3. T[i] \in Int
              BY <1>4
            <6> QED BY <1>4, <6>2, <6>3
          <5> QED BY <5>1
        <4> QED BY <1>3, <1>4, <1>6, <4>1, <4>2
      <3>8. Says(w, detections', corpus, config)
        <4>1. w.started <= w.ended
          BY <1>4, <3>3
        <4> QED BY <2>2, <2>3, <2>5, <3>3, <3>5, <3>6, <3>7, <4>1, IntervalStarts
      <3>9. Divides(intervals, detections, corpus, config)
        BY <1>10, <2>7 DEF AllIntervals
      <3>10. /\ \A i \in DOMAIN intervals : Says(intervals[i], detections, corpus, config)
             /\ \A i, l \in DOMAIN intervals :
                  i # l => In(intervals[i], detections) \cap In(intervals[l], detections) = {}
             /\ \A i \in DOMAIN intervals : In(intervals[i], detections) \cap In(w, detections) = {}
             /\ \A j \in DOMAIN detections :
                  j \in In(w, detections) \/ \E i \in DOMAIN intervals : j \in In(intervals[i], detections)
        BY <3>5, <3>9 DEF Divides
      <3>11. Divides(Append(intervals, w), detections', corpus, config)
        BY <1>8, <2>2, <2>6, <3>3, <3>6, <3>8, <3>10, LastGrows
      <3>12. IntervalsDivide'
        BY <1>3, <3>4, <3>11, DividesIsInvariant
      <3>13. IntervalsSoFar'
        <4>1. \E z \in 1..(instant' - 1) : open'.started = DetectionTime(z)'
          BY <1>3, <1>4, <1>5, <3>1
        <4>2. \A i \in DOMAIN intervals : /\ \E z \in 1..(instant' - 1) : intervals[i].ended = DetectionTime(z)'
                                          /\ intervals[i].ended <= open'.started
          BY <1>4, <1>5, <1>8, <3>1
        <4> QED BY <1>8, <2>4, <3>2, <4>1, <4>2 DEF IntervalsSoFar
      <3> QED BY <3>12, <3>13
    <2>8. CASE open # None
      <3>1. open' = [started |-> open.started, count |-> open.count + 1,
                     best |-> IF AtLeast(open.best, b) THEN open.best ELSE b,
                     ever |-> open.ever \/ Actionable(b)]
        BY <1>12, <1>15, <2>3, <2>8 DEF OpenInterval
      <3>2. open' \in OpenIntervalType /\ open' # None
        <4>1. open \in OpenIntervalType
          BY <1>8, <2>8
        <4>2. (IF AtLeast(open.best, b) THEN open.best ELSE b) \in [Selections -> Store!Quote]
          BY <2>3, <4>1 DEF OpenIntervalType
        <4>3. open.count + 1 \in Nat /\ open.started \in Int /\ (open.ever \/ Actionable(b)) \in BOOLEAN
          BY <4>1 DEF OpenIntervalType
        <4>4. open' \in OpenIntervalType
          BY <3>1, <4>2, <4>3 DEF OpenIntervalType
        <4> QED BY <4>4, NoneAssumption
      <3>3. /\ w \in IntervalType /\ w.started = old.started /\ w.ended = t /\ w.byEnd = TRUE
            /\ w.count = old.count + 1 /\ (w.ever <=> (old.ever \/ x.actionable))
            /\ w.best = IF AtLeast(old.best, b) THEN old.best ELSE b
        <4>1. /\ old.started = open.started /\ old.count = open.count /\ old.best = open.best
              /\ old.ever = open.ever
          BY DEF Closed
        <4>2. /\ w \in IntervalType /\ w.started = open'.started /\ w.ended = t /\ w.byEnd = TRUE
              /\ w.count = open'.count /\ w.ever = open'.ever /\ w.best = open'.best
          BY <1>4, <3>2, ClosedFacts
        <4> HIDE DEF w, old
        <4> QED BY <2>5, <3>1, <4>1, <4>2
      <3>4. AllIntervals' = Append(intervals, w)
        BY <1>13, <2>4, <3>2
      <3> HIDE DEF w, old
      <3>5. /\ \A i \in 1..n : Covers(w, T[i]) <=> (Covers(old, T[i]) \/ i = instant)
            /\ ~Covers(old, T[instant])
        <4> DEFINE u == Closed(open, t, FALSE)
        <4>1. u.started = open.started /\ u.ended = t /\ u.byEnd = FALSE
          BY DEF Closed
        <4>2. instant - 1 = last
          BY DEF last
        <4> HIDE DEF u
        <4>3. /\ instant - 1 \in 1..n /\ old.started \in Int /\ old.started <= T[instant - 1]
              /\ w.started = old.started /\ u.started = old.started
              /\ old.ended = T[instant - 1] /\ old.byEnd = TRUE
              /\ w.ended = T[instant] /\ w.byEnd = TRUE /\ u.ended = T[instant] /\ u.byEnd = FALSE
          BY <1>4, <1>11, <2>8, <3>3, <4>1, <4>2
        <4>4. n \in Nat /\ T \in [1..n -> Int] /\ \A i, j \in 1..n : i < j => T[i] < T[j]
          BY <1>2, <1>4
        <4>5. /\ \A i \in 1..n : Covers(u, T[i]) <=> Covers(old, T[i])
              /\ \A i \in 1..n : Covers(w, T[i]) <=> (Covers(old, T[i]) \/ i = instant)
              /\ ~Covers(old, T[instant])
          BY <1>3, <4>3, <4>4, EndsMeet
        <4> QED BY <4>5
      <3>6. /\ instant \notin During(old, corpus, config)
            /\ During(w, corpus, config) = During(old, corpus, config) \cup {instant}
        BY <1>3, <1>6, <3>5
      <3>7. In(w, detections) = In(old, detections)
        BY <1>4, <1>7, <3>5 DEF In
      <3>8. Covers(w, x.at)
        BY <1>3, <1>4, <2>5, <3>5
      <3>9. Divides(Append(intervals, old), detections, corpus, config)
        BY <1>10, <1>11, <2>8
      <3>10. /\ \A i \in DOMAIN intervals : Says(intervals[i], detections, corpus, config)
             /\ \A i, l \in DOMAIN intervals :
                  i # l => In(intervals[i], detections) \cap In(intervals[l], detections) = {}
             /\ \A i \in DOMAIN intervals : In(intervals[i], detections) \cap In(old, detections) = {}
             /\ \A j \in DOMAIN detections :
                  j \in In(old, detections) \/ \E i \in DOMAIN intervals : j \in In(intervals[i], detections)
             /\ Says(old, detections, corpus, config)
        BY <1>8, <1>11, <2>8, <3>9, LastDivided
      <3>11. /\ AtLeast(w.best, x.legs)
             /\ \A j \in In(old, detections) : AtLeast(w.best, detections[j].legs)
        <4>1. Priceable(old.best)
          <5>1. \A s \in Selections : old.best[s] \in Store!Quote
            BY <1>11, <2>8 DEF IntervalType
          <5> QED BY <5>1, QuotesArePriced
        <4>2. ASSUME NEW j \in In(old, detections)
              PROVE  Priceable(detections[j].legs) /\ AtLeast(old.best, detections[j].legs)
          <5>1. j \in DOMAIN detections
            BY DEF In
          <5>2. \A s \in Selections : detections[j].legs[s] \in Store!Quote
            <6>1. detections[j] \in DetectionType
              BY <1>7, <5>1
            <6> QED BY <6>1 DEF DetectionType
          <5> QED BY <3>10, <5>2, QuotesArePriced DEF Says
        <4>3. CASE AtLeast(old.best, b)
          BY <2>5, <3>3, <4>2, <4>3
        <4>4. CASE ~AtLeast(old.best, b)
          <5>1. w.best = b /\ AtLeast(b, old.best) /\ AtLeast(b, b)
            BY <2>3, <3>3, <4>1, <4>4, AtLeastIsOrder
          <5>2. \A j \in In(old, detections) : AtLeast(b, detections[j].legs)
            BY <2>3, <4>1, <4>2, <5>1, AtLeastIsOrder
          <5> QED BY <2>5, <5>1, <5>2
        <4> QED BY <4>3, <4>4
      <3>12. Says(w, detections', corpus, config)
        <4>1. w.started <= w.ended
          BY <1>4, <1>11, <2>8, <3>3
        <4> QED BY <1>1, <2>2, <3>3, <3>6, <3>7, <3>8, <3>10, <3>11, <4>1, IntervalGrows
      <3>13. Divides(Append(intervals, w), detections', corpus, config)
        BY <1>8, <2>2, <2>6, <3>3, <3>7, <3>8, <3>10, <3>12, LastGrows
      <3>14. IntervalsDivide'
        BY <1>3, <3>4, <3>13, DividesIsInvariant
      <3>15. IntervalsSoFar'
        <4>1. open'.started = open.started
          BY <3>1
        <4>2. \A i \in DOMAIN intervals : \E z \in 1..(instant' - 1) : intervals[i].ended = DetectionTime(z)'
          BY <1>4, <1>5, <1>8
        <4>3. \E z \in 1..(instant' - 1) : open.started = DetectionTime(z)'
          BY <1>4, <1>5, <1>8, <2>8
        <4> QED BY <1>8, <2>4, <2>8, <3>2, <4>1, <4>2, <4>3 DEF IntervalsSoFar
      <3> QED BY <3>14, <3>15
    <2> QED BY <2>7, <2>8
  <1> QED BY <1>14, <1>15

-----------------------------------------------------------------------------
(* The invariant of the report.                                            *)

\* An empty report adds up.
LEMMA InitReports == Init => ReportInv
  <1> SUFFICES ASSUME Init PROVE ReportInv
    OBVIOUS
  <1>1. QuotesRecorded
    BY DEF Init, QuotesRecorded
  <1>2. detections = <<>> /\ intervals = <<>> /\ open = None /\ AllIntervals = <<>>
    BY DEF Init, AllIntervals
  <1>3. DOMAIN <<>> = {} /\ <<>> \in Seq(IntervalType) /\ Len(<<>>) = 0
    OBVIOUS
  <1>4. IntervalsSoFar
    BY <1>2, <1>3 DEF IntervalsSoFar
  <1>5. IntervalsDivide
    BY <1>2, <1>3 DEF IntervalsDivide
  <1> DEFINE P == CorpusProviders(corpus)
  <1>6. /\ evaluations = 0 /\ IsFiniteSet(P)
        /\ metrics = [p \in P |-> [selected |-> 0, books |-> 0, theoretical |-> 0, actionable |-> 0]]
    BY ProvidersAreFinite DEF Init
  <1> HIDE DEF P
  <1>7. metrics \in [P -> MetricsType]
    BY <1>6 DEF MetricsType
  <1>8. Selected(metrics) = 0
    <2> DEFINE a == [p \in P |-> metrics[p].selected]
    <2>1. PICK f : Selected(metrics) = f[P] /\ IsSum(f, P, a)
      BY <1>6, <1>7, SelectedIsSum
    <2>2. a \in [P -> Nat] /\ \A p \in P : a[p] * 1 <= a[p] * 0
      BY <1>6
    <2> HIDE DEF a
    <2>3. f[P] \in Nat /\ f[P] * 1 <= f[P] * 0
      BY <1>6, <2>1, <2>2, Sums
    <2> QED BY <2>1, <2>3
  <1>9. 0 * Cardinality(Selections) = 0
    <2>1. Cardinality(Selections) \in Nat
      BY MarketAssumption, FS_CardinalityType
    <2> QED BY <2>1
  <1>10. MetricsAddUp
    BY <1>2, <1>3, <1>6, <1>8, <1>9 DEF MetricsAddUp
  <1> QED BY <1>1, <1>4, <1>5, <1>6, <1>7, <1>10 DEF ReportInv, P

\* What a batch leaves in the store is recorded in the corpus.
LEMMA ApplyRecords ==
  ASSUME ReplayInv, ReportInv, ApplyBatch
  PROVE  QuotesRecorded'
  <1> DEFINE b == corpus[next]
  <1>1. corpus \in Corpora /\ ValidCorpus(corpus) /\ IsHeld(versions) /\ QuotesRecorded
    BY DEF ReplayInv, ReportInv
  <1>2. next \in DOMAIN corpus /\ IsBatch(b)
    <2>1. next \in 1..(Len(corpus) + 1) /\ next <= Len(corpus)
      BY DEF ReplayInv, ApplyBatch, Due
    <2>2. Len(corpus) \in Nat \ {0} /\ DOMAIN corpus = 1..Len(corpus)
      BY <1>1, CorpusFacts
    <2>3. next \in 1..Len(corpus)
      BY <2>1, <2>2
    <2> QED BY <1>1, <2>2, <2>3, CorpusFacts
  <1>3. versions' = Applied(versions, b) /\ corpus' = corpus
    BY DEF ApplyBatch
  <1> HIDE DEF b
  <1>4. ASSUME NEW k \in Keys, versions'[k] # NoVersion
        PROVE  \E i \in DOMAIN corpus : versions'[k].quote \in corpus[i].quotes
    <2>1. CASE versions'[k] = versions[k]
      BY <1>1, <1>4, <2>1 DEF QuotesRecorded
    <2>2. CASE \E q \in b.quotes : versions'[k].quote = q
      BY <1>2, <2>2 DEF b
    <2> QED BY <1>1, <1>2, <1>3, <2>1, <2>2, AppliedIsChoice
  <1> QED BY <1>3, <1>4 DEF QuotesRecorded

\* A step that leaves the report alone.
LEMMA ReportStays ==
  ASSUME ReportInv, QuotesRecorded',
         UNCHANGED <<corpus, config, instant, detections, open, intervals, evaluations, metrics>>
  PROVE  ReportInv'
  <1>1. \A i : DetectionTime(i)' = DetectionTime(i)
    BY DEF DetectionTime
  <1>2. AllIntervals' = AllIntervals
    BY DEF AllIntervals, DetectionTime
  <1>3. IntervalsDivide'
    BY <1>2, DividesIsInvariant DEF ReportInv
  <1>4. IntervalsSoFar'
    BY <1>1 DEF ReportInv, IntervalsSoFar, Replaying
  <1>5. MetricsAddUp'
    BY DEF ReportInv, MetricsAddUp
  <1> QED BY <1>3, <1>4, <1>5 DEF ReportInv

\* The end of the stream closes the open interval where the invariant has it end.
LEMMA FinishReports ==
  ASSUME ReplayInv, ReportInv, Finish
  PROVE  ReportInv'
  <1>1. /\ ~Replaying /\ open # None /\ open' = None
        /\ intervals' = Append(intervals, Closed(open, DetectionTime(Len(corpus)), TRUE))
        /\ UNCHANGED <<corpus, config, next, instant, versions, detections, evaluations, metrics>>
    BY DEF Finish
  <1>2. corpus \in Corpora /\ ValidCorpus(corpus) /\ config \in Configs
    BY DEF ReplayInv
  <1>3. /\ instant - 1 = Len(corpus) /\ Len(corpus) \in 1..Len(corpus)
        /\ Len(corpus) \in 1..(instant - 1) /\ DetectionTime(Len(corpus)) \in Int
    <2>1. Len(corpus) \in Nat \ {0} /\ instant \in 1..(Len(corpus) + 1) /\ ~(instant <= Len(corpus))
      BY <1>1, <1>2, CorpusFacts DEF ReplayInv, Replaying
    <2>2. /\ instant - 1 = Len(corpus) /\ Len(corpus) \in 1..Len(corpus)
          /\ Len(corpus) \in 1..(instant - 1)
      BY <2>1
    <2> QED BY <1>2, <2>2, MomentFacts
  <1>4. AllIntervals' = AllIntervals
    BY <1>1, <1>3 DEF AllIntervals
  <1>5. IntervalsDivide'
    BY <1>1, <1>4, DividesIsInvariant DEF ReportInv
  <1> DEFINE w == Closed(open, DetectionTime(Len(corpus)), TRUE)
             last == Len(intervals) + 1
  <1>6. intervals \in Seq(IntervalType) /\ open \in OpenIntervalType
    BY <1>1 DEF ReportInv, IntervalsSoFar
  <1>7. /\ w \in IntervalType /\ w.ended = DetectionTime(Len(corpus))
        /\ intervals' = Append(intervals, w)
    BY <1>1, <1>3, <1>6, ClosedFacts
  <1> HIDE DEF w
  <1>8. /\ intervals' \in Seq(IntervalType) /\ DOMAIN intervals' = DOMAIN intervals \cup {last}
        /\ \A i \in DOMAIN intervals : intervals'[i] = intervals[i]
        /\ intervals'[last] = w
    BY <1>6, <1>7, OneMore
  <1> HIDE DEF last
  <1>9. \A i : DetectionTime(i)' = DetectionTime(i)
    BY <1>1 DEF DetectionTime
  <1>10. ASSUME NEW i \in DOMAIN intervals'
         PROVE  \E z \in 1..(instant' - 1) : intervals'[i].ended = DetectionTime(z)'
    <2>1. CASE i = last
      BY <1>1, <1>3, <1>7, <1>8, <1>9, <2>1
    <2>2. CASE i \in DOMAIN intervals
      BY <1>1, <1>8, <1>9, <2>2 DEF ReportInv, IntervalsSoFar
    <2> QED BY <1>8, <2>1, <2>2
  <1>11. IntervalsSoFar'
    <2>1. ~Replaying'
      BY <1>1 DEF Replaying
    <2> QED BY <1>1, <1>8, <1>10, <2>1 DEF IntervalsSoFar
  <1>12. MetricsAddUp'
    BY <1>1 DEF ReportInv, MetricsAddUp
  <1>13. QuotesRecorded'
    BY <1>1 DEF ReportInv, QuotesRecorded
  <1> QED BY <1>1, <1>5, <1>11, <1>12, <1>13 DEF ReportInv

\* The inductive invariant of the report run_backtest builds up: its intervals
\* divide the detections so far, and its counts agree, between any two moments.
THEOREM ReportInvariance == Spec => []ReportInv
  <1>1. ReplayInv /\ ReportInv /\ [Next]_vars => ReportInv'
    <2> SUFFICES ASSUME ReplayInv, ReportInv, [Next]_vars PROVE ReportInv'
      OBVIOUS
    <2>1. CASE ApplyBatch
      BY <2>1, ApplyRecords, ReportStays DEF ApplyBatch
    <2>2. CASE Detect
      <3>1. IntervalsSoFar' /\ IntervalsDivide'
        BY <2>2, IntervalsKeep
      <3>2. /\ evaluations' \in Nat /\ metrics' \in [CorpusProviders(corpus) -> MetricsType]
            /\ MetricsAddUp'
        BY <2>2, MetricsKeep
      <3>3. UNCHANGED <<corpus, versions>>
        BY <2>2 DEF Detect
      <3>4. QuotesRecorded'
        BY <3>3 DEF ReportInv, QuotesRecorded
      <3> QED BY <3>1, <3>2, <3>3, <3>4 DEF ReportInv
    <2>3. CASE Finish
      BY <2>3, FinishReports
    <2>4. CASE UNCHANGED vars
      <3>1. QuotesRecorded'
        BY <2>4 DEF vars, ReportInv, QuotesRecorded
      <3> QED BY <2>4, <3>1, ReportStays DEF vars
    <2> QED BY <2>1, <2>2, <2>3, <2>4 DEF Next
  <1> QED BY <1>1, InitReports, ReplayInvariance, PTL DEF Spec

\* When run_backtest returns, the parts of its report agree: the intervals divide
\* the detections and say of theirs how many they are, whether one was actionable
\* and which was best; the selected quotes of the bookmakers add up to the
\* evaluations, and none of them alone beats all together.
THEOREM ReportsAlwaysAddUp == Spec => []ReportAddsUp
  <1>1. ReplayInv /\ ReportInv => ReportAddsUp
    <2> SUFFICES ASSUME ReportInv, Finished PROVE ReportAddsUp
      BY DEF ReportAddsUp
    <2>1. AllIntervals = intervals
      BY DEF Finished, AllIntervals
    <2>2. /\ \A i, k \in DOMAIN intervals : i # k => Within(intervals[i]) \cap Within(intervals[k]) = {}
          /\ \A j \in DOMAIN detections : \E i \in DOMAIN intervals : j \in Within(intervals[i])
          /\ \A i \in DOMAIN intervals : Describes(intervals[i])
      BY <2>1 DEF ReportInv, IntervalsDivide
    <2>3. ASSUME NEW j \in DOMAIN detections
          PROVE  Cardinality({i \in DOMAIN intervals : j \in Within(intervals[i])}) = 1
      <3>1. PICK i \in DOMAIN intervals : j \in Within(intervals[i])
        BY <2>2
      <3>2. {k \in DOMAIN intervals : j \in Within(intervals[k])} = {i}
        BY <2>2, <3>1
      <3> QED BY <3>2, FS_Singleton
    <2> QED BY <2>2, <2>3 DEF ReportAddsUp, ReportInv
  <1> QED BY <1>1, ReplayInvariance, ReportInvariance, PTL
=============================================================================
