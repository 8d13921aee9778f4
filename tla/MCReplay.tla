------------------------------ MODULE MCReplay ------------------------------
(* Finite instance of Replay: three batches of one market with two           *)
(* selections. Key 1 and 2 are one price of bookmaker b1 through two feeds.  *)
EXTENDS Replay

CONSTANTS home, away, low, high

MCSelectionOf == [k \in 1..4 |-> IF k \in {1, 2} THEN home ELSE away]
MCSlotOf == [k \in 1..4 |-> IF k \in {1, 2} THEN 1 ELSE k]
MCProviderOf == [k \in 1..4 |-> IF k = 4 THEN "b2" ELSE "b1"]
MCPrice == [o \in {low, high} |-> IF o = low THEN 16 ELSE 25]

Said(key, offer, status, source, ingested) ==
  [key |-> key, offer |-> offer, status |-> status, source |-> source, ingested |-> ingested]

BatchAt(t, quotes) == [observed |-> t, quotes |-> quotes]

\* The first batch quotes the market by one or two bookmakers.
FirstBatches ==
  {{Said(1, h, "active", source, 0), Said(k, high, "active", NoTimestamp, 0)} :
     h \in {low, high}, source \in {NoTimestamp, 1}, k \in {3, 4}}

\* Later batches: one price or two, in time, late, ahead of the clock, delivered
\* late, or suspended.
LaterQuotes(t) ==
  {Said(k, offer, "active", source, t) :
     k \in {1, 2, 4}, offer \in {low, high}, source \in {NoTimestamp, t - 1, t - 3, t + 1}}
  \cup {Said(1, high, "suspended", NoTimestamp, t), Said(1, low, "active", t - 2, t - 1)}
LaterBatches(t) ==
  {{q} : q \in LaterQuotes(t)}
    \cup {{Said(1, o, "active", source, t), Said(2, p, "active", NoTimestamp, t)} :
            o \in {low, high}, p \in {low, high}, source \in {NoTimestamp, t - 1}}

\* The last corpus is not chronological, so it is refused.
MCCorpora ==
  {<<BatchAt(0, a), BatchAt(2, b), BatchAt(4, c)>> :
     a \in FirstBatches, b \in LaterBatches(2), c \in LaterBatches(4)}
  \cup {<<BatchAt(0, a), BatchAt(0, a)>> : a \in FirstBatches}

Plannable == {[s \in {home, away} |-> high]}
MCConfigs ==
  [latency : {0, 2}, providers : {{"b1", "b2"}},
   policy : {None, [maxAge |-> 1, plannable |-> Plannable]}]
  \cup [latency : {1}, providers : {{"b1"}}, policy : {None}]
=============================================================================
