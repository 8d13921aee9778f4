--------------------------- MODULE LiveQuoteStore ---------------------------
(***************************************************************************)
(* The in-memory live quote state of ingestion/realtime.py: one current    *)
(* version per quote key, admitted by a deterministic loop over a sorted   *)
(* batch (LiveQuoteStore.apply), read through a freshness filter           *)
(* (fresh_versions) and emptied by evict_stale.                            *)
(*                                                                         *)
(* A batch is processed one quote per step so that the loop itself is in   *)
(* the model; the code has no await inside apply, so nothing else happens  *)
(* until the batch is done (Idle guards every other action).               *)
(***************************************************************************)
EXTENDS Integers, FiniteSets

CONSTANTS
  Keys,             \* quote keys, numbered in the order of their sort key
  Offers,           \* what the fingerprint compares besides the effective
                    \* time and the status: the price and the source ids
  Batches,          \* the sets of canonical quotes a caller may hand to apply
  FreshnessWindow,  \* policy.freshness_window
  SkewTolerance,    \* policy.clock_skew_tolerance
  MaxTime,          \* bound: the clock stops here
  MaxRevision,      \* bound: a key this often revised is not quoted again
  NoTimestamp,      \* source_timestamp is None
  NoVersion         \* the key is not in _current

Status == {"active", "suspended", "closed", "unknown"}

Quote == [key : Keys, offer : Offers, status : Status,
          source : Int \cup {NoTimestamp}, ingested : Int]

ASSUME KeysAssumption == Keys \subseteq Nat
ASSUME PolicyAssumption == /\ FreshnessWindow \in Nat \ {0}
                           /\ SkewTolerance \in Nat
ASSUME BoundAssumption == MaxTime \in Nat /\ MaxRevision \in Nat
ASSUME BatchesAssumption == Batches \subseteq SUBSET Quote
ASSUME NoTimestampAssumption == NoTimestamp \notin Int

\* quote.source_timestamp or quote.ingested_at
Effective(quote) == IF quote.source = NoTimestamp THEN quote.ingested ELSE quote.source

Version == [revision : Nat \ {0}, quote : Quote, observed : Int]

ASSUME NoVersionAssumption == NoVersion \notin Version

VARIABLES
  now,       \* the clock the callers read
  current,   \* _current: the version of each key, or NoVersion
  batch,     \* the quotes of the latest apply call
  pending,   \* those the loop has not reached
  observed,  \* observed_at of that call
  before     \* history: current when that call started

vars == <<now, current, batch, pending, observed, before>>

Idle == pending = {}

-----------------------------------------------------------------------------
(* Admission: the tests of apply, in its order.                            *)

Fingerprint(quote) == <<quote.key, quote.offer, quote.status, Effective(quote)>>

\* Lexicographic order of _sort_key. Equal quote ids keep their input order,
\* which the caller chooses.
SortsBefore(q, r) ==
  \/ q.key < r.key
  \/ /\ q.key = r.key
     /\ \/ Effective(q) < Effective(r)
        \/ Effective(q) = Effective(r) /\ q.ingested < r.ingested

\* FUTURE_INGESTION and CLOCK_SKEW_EXCEEDED
Impossible(quote, moment) ==
  \/ quote.ingested > moment
  \/ Effective(quote) - moment > SkewTolerance

\* OUT_OF_ORDER beyond the tolerance
FarBackward(version, quote) ==
  Effective(version.quote) - Effective(quote) > SkewTolerance

Duplicate(version, quote) == Fingerprint(version.quote) = Fingerprint(quote)

\* OUT_OF_ORDER within the tolerance, not confirmed by a newer ingestion
UnconfirmedBackward(version, quote) ==
  /\ Effective(quote) < Effective(version.quote)
  /\ quote.ingested <= version.quote.ingested

\* Faults to be caught: no admission test on the clocks; no confirmation asked
\* of a small backward step.
AcceptsAnyClock(version, quote, moment) ==
  version # NoVersion => /\ ~FarBackward(version, quote)
                         /\ ~Duplicate(version, quote)
                         /\ ~UnconfirmedBackward(version, quote)
AcceptsUnconfirmed(version, quote, moment) ==
  /\ ~Impossible(quote, moment)
  /\ version # NoVersion => ~FarBackward(version, quote) /\ ~Duplicate(version, quote)

Accepts(version, quote, moment) ==
  /\ ~Impossible(quote, moment)
  /\ version # NoVersion => /\ ~FarBackward(version, quote)
                            /\ ~Duplicate(version, quote)
                            /\ ~UnconfirmedBackward(version, quote)

\* Fault: the first version is revision zero.
NextVersionFromZero(version, quote, moment) ==
  [revision |-> IF version = NoVersion THEN 0 ELSE version.revision + 1,
   quote |-> quote, observed |-> moment]

NextVersion(version, quote, moment) ==
  [revision |-> IF version = NoVersion THEN 1 ELSE version.revision + 1,
   quote |-> quote, observed |-> moment]

-----------------------------------------------------------------------------
(* Reads.                                                                  *)

Stored == {k \in Keys : current[k] # NoVersion}

Expired(version, moment) ==
  /\ Effective(version.quote) <= moment
  /\ moment - Effective(version.quote) > FreshnessWindow

\* the keys fresh_versions returns a version for
FreshKeys(moment) ==
  {k \in Stored : /\ current[k].quote.status = "active"
                  /\ current[k].quote.ingested <= moment
                  /\ Effective(current[k].quote) <= moment
                  /\ ~Expired(current[k], moment)}

StaleCount(moment) == Cardinality({k \in Stored : Expired(current[k], moment)})

-----------------------------------------------------------------------------
Init ==
  /\ now = 0
  /\ current = [k \in Keys |-> NoVersion]
  /\ batch = {}
  /\ pending = {}
  /\ observed = 0
  /\ before = current

Tick ==
  /\ Idle
  /\ now < MaxTime
  /\ now' = now + 1
  /\ UNCHANGED <<current, batch, pending, observed, before>>

\* A caller hands over a batch, observed at its current time.
Apply(quotes) ==
  /\ Idle
  /\ \A q \in quotes : current[q.key] # NoVersion => current[q.key].revision < MaxRevision
  /\ batch' = quotes
  /\ pending' = quotes
  /\ observed' = now
  /\ before' = current
  /\ UNCHANGED <<now, current>>

\* Fault: the loop takes the quotes in the order the caller listed them.
ApplyUnsorted(quote) ==
  /\ pending' = pending \ {quote}
  /\ current' = IF Accepts(current[quote.key], quote, observed)
                THEN [current EXCEPT ![quote.key] =
                        NextVersion(current[quote.key], quote, observed)]
                ELSE current
  /\ UNCHANGED <<now, batch, observed, before>>

\* One iteration of the loop over sorted(quotes).
ApplyQuote(quote) ==
  /\ \A other \in pending : ~SortsBefore(other, quote)
  /\ pending' = pending \ {quote}
  /\ current' = IF Accepts(current[quote.key], quote, observed)
                THEN [current EXCEPT ![quote.key] =
                        NextVersion(current[quote.key], quote, observed)]
                ELSE current
  /\ UNCHANGED <<now, batch, observed, before>>

ApplyNext == \E quote \in pending : ApplyQuote(quote)

\* Fault: the last instant of the window is treated as stale.
EvictableEarly(version, moment) ==
  \/ version.quote.status # "active"
  \/ moment - Effective(version.quote) >= FreshnessWindow

\* INACTIVE_EVICTED and STALE_EVICTED
Evictable(version, moment) ==
  \/ version.quote.status # "active"
  \/ Expired(version, moment)

EvictedKeys(moment) == {k \in Stored : Evictable(current[k], moment)}

EvictStale ==
  /\ Idle
  /\ current' = [k \in Keys |-> IF k \in EvictedKeys(now) THEN NoVersion ELSE current[k]]
  /\ batch' = {}
  /\ before' = current'
  /\ UNCHANGED <<now, pending, observed>>

Next ==
  \/ Tick
  \/ \E quotes \in Batches : Apply(quotes)
  \/ ApplyNext
  \/ EvictStale

Spec == Init /\ [][Next]_vars

-----------------------------------------------------------------------------
TypeOK ==
  /\ now \in Nat
  /\ current \in [Keys -> Version \cup {NoVersion}]
  /\ batch \subseteq Quote
  /\ pending \subseteq batch
  /\ observed \in Nat
  /\ before \in [Keys -> Version \cup {NoVersion}]

\* A stored version was observed at or before now, was not ingested after its
\* observation, and is ahead of it by at most the tolerance: once the clock has
\* advanced by SkewTolerance no stored version is still "not eligible until
\* local time catches up" (the CLOCK_SKEW_DETECTED branch of apply).
NoImpossibleVersion ==
  \A k \in Stored :
    /\ current[k].quote.key = k
    /\ current[k].observed <= now
    /\ ~Impossible(current[k].quote, current[k].observed)

\* The quotes of key k that the loop has handled and that are not impossible.
Handled(k) == {q \in batch \ pending : q.key = k /\ ~Impossible(q, observed)}

\* What apply achieves, whatever the order in which the caller listed the
\* batch: if no handled quote of a key would have replaced the version held
\* when the call started, that version stands; otherwise the key holds the
\* newest handled quote (and among equally new ones, one with the content of
\* the last ingested). It is an invariant of the loop, so it holds when the
\* loop ends; it is what makes duplicated and reordered input harmless.
ApplyOutcome ==
  \A k \in Keys :
    IF \A q \in Handled(k) : ~Accepts(before[k], q, observed)
    THEN current[k] = before[k]
    ELSE /\ current[k] # NoVersion
         /\ current[k].quote \in Handled(k)
         /\ current[k].observed = observed
         /\ \E last \in Handled(k) :
              /\ Fingerprint(last) = Fingerprint(current[k].quote)
              /\ \A q \in Handled(k) : ~SortsBefore(last, q)

\* One call of apply cannot walk the source clock of a key back by more than
\* the tolerance, however many slightly older quotes the batch holds, and only
\* a strictly newer ingestion buys any backward movement (the two OUT_OF_ORDER
\* tests of apply, together with the sort that precedes them).
BoundedRegression ==
  \A k \in Stored :
    before[k] # NoVersion =>
      /\ current[k].revision >= before[k].revision
      /\ Effective(before[k].quote) - Effective(current[k].quote) <= SkewTolerance
      /\ Effective(current[k].quote) < Effective(before[k].quote) =>
           \E q \in Handled(k) : q.ingested > before[k].quote.ingested

\* Eviction removes exactly what no reader can still use: what fresh_versions
\* answers now and at every later time is the same with and without it.
EvictionInvisible ==
  [][EvictStale => \A moment \in now..MaxTime : FreshKeys(moment)' = FreshKeys(moment)]_vars

-----------------------------------------------------------------------------
\* The inductive invariant: the loop has handled a prefix of the sorted batch,
\* and the versions it started from are as sound as the ones it leaves.
LoopInv ==
  /\ observed <= now
  /\ \A d \in batch \ pending, p \in pending : ~SortsBefore(p, d)
  /\ \A k \in Keys : before[k] # NoVersion =>
       /\ before[k].quote.key = k
       /\ current[k] # NoVersion
       /\ current[k].revision >= before[k].revision

IInv == TypeOK /\ NoImpossibleVersion /\ LoopInv /\ ApplyOutcome
=============================================================================
