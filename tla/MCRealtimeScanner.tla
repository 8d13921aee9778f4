------------------------- MODULE MCRealtimeScanner --------------------------
(* Finite instances of RealtimeScanner: one market with two selections.     *)
EXTENDS RealtimeScanner

CONSTANTS home, away, low, high

MCPrice == [o \in {low, high} |-> IF o = low THEN 18 ELSE 25]

Says(t, p, source, ingested, active, h, w) ==
  [transport |-> t, provider |-> p, source |-> source, ingested |-> ingested,
   active |-> active, offers |-> [s \in Selections |-> IF s = home THEN h ELSE w]]

\* At most one report of each transport and bookmaker in a poll.
Combine(first, second) ==
  {{}} \cup {{r} : r \in first \cup second} \cup {{r, q} : r \in first, q \in second}

\* One feed, two bookmakers: p1 quotes home, p2 quotes away.
SingleKeyOf ==
  [x \in {"f1"} \X {"p1", "p2"} \X {home, away} |->
     (IF x[2] = "p1" THEN 0 ELSE 2) + (IF x[3] = home THEN 1 ELSE 2)]
SingleSelectionOf == [k \in 1..4 |-> IF k \in {1, 3} THEN home ELSE away]
SingleSlotOf == [k \in 1..4 |-> k]

\* Prices at several source times, a price ahead of and one behind the ingestion,
\* a suspended market, an inactive selection and a malformed price.
SinglePolls ==
  Combine(
    {Says("f1", "p1", source, ingested, TRUE, h, "missing") :
       source \in {0, 2}, ingested \in {0, 2}, h \in {low, high}}
      \cup {Says("f1", "p1", NoTimestamp, 1, FALSE, low, "missing"),
            Says("f1", "p1", 2, 2, TRUE, "inactive", high),
            Says("f1", "p1", NoTimestamp, 1, TRUE, "malformed", low)},
    {Says("f1", "p2", NoTimestamp, 1, TRUE, "missing", high),
     Says("f1", "p2", 1, 2, TRUE, low, low)})

\* A quote, its suspension, and an older report of it that arrives late.
SuspendedPolls ==
  {{Says("f1", "p1", 1, 1, TRUE, high, "missing")},
   {Says("f1", "p1", NoTimestamp, 1, FALSE, "missing", "missing")},
   {Says("f1", "p1", 0, 1, TRUE, low, "missing")}}

\* Two feeds of one bookmaker.
MultiKeyOf ==
  [x \in {"f1", "f2"} \X {"p1"} \X {home, away} |->
     (IF x[1] = "f1" THEN 0 ELSE 2) + (IF x[3] = home THEN 1 ELSE 2)]
MultiSlotOf == [k \in 1..4 |-> IF k \in {1, 3} THEN 1 ELSE 2]

MultiPolls ==
  Combine(
    {Says("f1", "p1", source, ingested, TRUE, h, high) :
       source \in {0, 2}, ingested \in {1, 2}, h \in {low, high}}
      \cup {Says("f1", "p1", NoTimestamp, 1, FALSE, low, "missing"),
            Says("f1", "p1", 1, 1, TRUE, "inactive", low)},
    {Says("f2", "p1", source, 1, TRUE, low, "missing") : source \in {0, 1}}
      \cup {Says("f2", "p1", 2, 2, TRUE, "inactive", high)})
=============================================================================
