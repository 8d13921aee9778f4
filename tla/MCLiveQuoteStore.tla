-------------------------- MODULE MCLiveQuoteStore --------------------------
(* Finite instances of LiveQuoteStore.                                      *)
EXTENDS LiveQuoteStore

CONSTANTS a, b

\* Two contents, with and without a source timestamp, and source clocks ahead
\* of and behind the local one.
Active == [key : {1}, offer : {a, b}, status : {"active"},
           source : (0..3) \cup {NoTimestamp}, ingested : {0, 2}]
Inactive == [key : {1}, offer : {a}, status : {"suspended", "closed", "unknown"},
             source : {1, 2}, ingested : {1}]
Other == [key : {2}, offer : {b}, status : {"active"}, source : {1}, ingested : {0}]

\* Every batch of up to two active quotes of one key, and batches with the
\* other statuses and a second key.
MCBatches ==
  {{q, r} : q, r \in Active}
  \cup {{q, r} : q \in {x \in Active : x.offer = a /\ x.ingested = 0 /\ x.source # NoTimestamp} \cup Inactive,
                 r \in Inactive \cup Other}
=============================================================================
