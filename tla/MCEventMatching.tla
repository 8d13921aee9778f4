--------------------------- MODULE MCEventMatching --------------------------
(* Finite instance of EventMatching: registries of one market in every      *)
(* shape, and registries of events that resemble each other.                *)
EXTENDS EventMatching

-----------------------------------------------------------------------------
(* Registries of one market                                                *)

Team(id, sport) == [id |-> id, sport |-> sport, kind |-> "team"]
League(sport) == [id |-> "league", sport |-> sport]
Fixture(id, sport, participants, start) ==
  [id |-> id, sport |-> sport, competition |-> "league", participants |-> participants,
   start |-> start, references |-> {}, stage |-> None, venue |-> None]

MarketIn(kind, period, line) ==
  [id |-> "market", event |-> "e1", kind |-> kind, period |-> period, line |-> line,
   index |-> IF period \in {"set", "game"} THEN 1 ELSE None,
   setIndex |-> IF period = "game" THEN 1 ELSE None,
   subject |-> IF kind = "podium_finish" THEN "a" ELSE None]
Sel(kind, participant, handicap) ==
  [id |-> <<kind, participant, handicap>>, market |-> "market", kind |-> kind,
   participant |-> participant, handicap |-> handicap]

ParticipantSels == {Sel("participant", p, h) : p \in {"a", "b"}, h \in {None, -2, 2}}
OutcomeSels == {Sel(k, None, None) : k \in {"draw", "over", "under", "yes", "no"}}
Pairs == kSubset(2, ParticipantSels) \cup kSubset(2, OutcomeSels)
           \cup {{Sel("participant", "a", None), Sel("draw", None, None)}}
Kinds == {"match_winner_2_way", "match_winner_3_way", "total_points", "handicap",
          "both_teams_to_score", "set_winner", "game_winner", "outright_winner",
          "podium_finish", "head_to_head"}

OneMarket(sport, market, sels) ==
  [competitions |-> {League(sport)}, participants |-> {Team("a", sport), Team("b", sport)},
   events |-> {Fixture("e1", sport, <<"a", "b">>, 1000)}, markets |-> {market},
   selections |-> sels]

\* Match winners accept any selections, so one shape of them is enough.
WinnerSels == {{Sel("participant", "a", None), Sel("participant", "b", None)}}
SelsOf(kind) == IF kind \in {"match_winner_2_way", "match_winner_3_way"} THEN WinnerSels
                ELSE Pairs

LinesOf(kind) == IF kind \in {"total_points", "handicap"} THEN {-2, 0, 1, 2, 4} ELSE {None}
Markets == UNION {{MarketIn(kind, period, line) : line \in LinesOf(kind)} :
                    kind \in Kinds,
                    period \in {"regulation", "full_event", "set", "game", "race"}}

MarketRegistries ==
  UNION {{OneMarket(sport, m, sels) : sels \in SelsOf(m.kind)} :
           sport \in {"football", "basketball", "tennis"}, m \in Markets}

-----------------------------------------------------------------------------
(* Registries of events                                                    *)

Ref(provider, external) == [provider |-> provider, external |-> external]
EventsOnly(events) ==
  [competitions |-> {League("football")},
   participants |-> {Team("a", "football"), Team("b", "football"), Team("c", "football")},
   events |-> events, markets |-> {}, selections |-> {}]

First == Fixture("e1", "football", <<"a", "b">>, 1000)
EventRegistries ==
  {EventsOnly({First, Fixture("e2", "football", <<"a", "b">>, 1012)}),
   EventsOnly({[First EXCEPT !.references = {Ref("p", "x")}],
               Fixture("e2", "football", <<"b", "a">>, 1030)}),
   EventsOnly({[First EXCEPT !.references = {Ref("p", "y")}, !.stage = "group"],
               [Fixture("e2", "football", <<"a", "b">>, 3160) EXCEPT
                  !.references = {Ref("p", "x"), Ref("q", "x")}]}),
   EventsOnly({[First EXCEPT !.stage = "group", !.venue = "park"],
               [First EXCEPT !.id = "e2", !.stage = "final"]}),
   EventsOnly({First, [Fixture("e2", "football", <<"a", "d">>, 1000) EXCEPT !.references = {}]})}

Matcher(reg, n, all) == [registry |-> reg, capacity |-> n, exhaustive |-> all]
MCMatchers ==
  {Matcher(reg, 0, FALSE) : reg \in MarketRegistries}
    \cup {Matcher(reg, n, all) : reg \in EventRegistries, n \in {0, 2}, all \in BOOLEAN}

\* Alias entries. "twin" is a club of two regions; "A" and "AA" name one club.
Alias(alias, value, needs) ==
  [alias |-> alias, sport |-> "football", value |-> value, needs |-> needs]
League0 == [provider |-> None, region |-> None, season |-> None, parent |-> None]
MCCompetitionAliases ==
  {Alias("L", "league", League0), Alias("R", "league", [League0 EXCEPT !.region = "north"]),
   Alias("R", "cup", [League0 EXCEPT !.region = "south", !.provider = "p"])}
Club == [kind |-> "team", provider |-> None, competition |-> None, region |-> None]
MCParticipantAliases ==
  {Alias("A", "a", Club), Alias("AA", "a", [Club EXCEPT !.provider = "p"]), Alias("B", "b", Club),
   Alias("twin", "b", [Club EXCEPT !.region = "north"]),
   Alias("twin", "c", [Club EXCEPT !.competition = "cup"])}

Source(provider, external, competition, region, names, start, order, stage) ==
  [provider |-> provider, external |-> external, sport |-> "football", ofCompetition |-> TRUE,
   competition |-> competition, region |-> region, season |-> None, kind |-> "team",
   participants |-> names, start |-> start, order |-> order, stage |-> stage, venue |-> None]

MCSources ==
  {Source(ref[1], ref[2], "L", None, <<"A", "B">>, start, "ordered", None) :
     ref \in {<<"p", "x">>, <<"p", "y">>, <<"q", "x">>}, start \in {1000, 1030, 1031}}
  \cup {Source("q", "y", "L", None, <<"B", "A">>, 1000, order, "final") :
     order \in {"ordered", "unordered"}}
  \cup {Source("p", "x", "R", region, <<"A", "twin">>, 1000, "ordered", None) :
     region \in {None, "north", "south"}}
  \cup {Source("p", "x", "L", "south", <<"A", "twin">>, 1000, "ordered", None),
        Source("p", "x", "L", None, <<"A", "AA">>, 1000, "ordered", None),
        Source("p", "x", "unheard", None, <<"A", "B">>, 1000, "ordered", None),
        [Source("p", "x", "L", None, <<"A", "B">>, 1000, "ordered", None) EXCEPT
           !.ofCompetition = FALSE]}

MCResults == [points : [1..2 -> 0..2], sets : [1..2 -> 1..2]]
=============================================================================
