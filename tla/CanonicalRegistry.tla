------------------------- MODULE CanonicalRegistry --------------------------
(***************************************************************************)
(* The canonical catalogue: what the constructors of Event, Market and     *)
(* Selection (domain/models.py) and of CanonicalRegistry                   *)
(* (matching/catalog.py) admit, and which markets assess_market_support    *)
(* lets into generic arbitrage.                                            *)
(*                                                                         *)
(* A registry is a record of sets: competitions, participants, events,     *)
(* markets, selections. An event names its competition and participants by *)
(* id, and carries the round and venue of its matching metadata. Lines and *)
(* handicaps are counted in quarters.                                      *)
(***************************************************************************)
EXTENDS Integers, Sequences, FiniteSets, FiniteSetsExt, Functions

CONSTANT None    \* an optional value that is absent

IndexedPeriods == {"set", "game", "period", "quarter"}
RaceScopes == {"race", "qualifying", "session"}

\* Market.__post_init__
ValidMarket(m) ==
  /\ m.line # None <=> m.kind \in {"total_points", "handicap"}
  /\ IF m.period \in IndexedPeriods THEN m.index # None /\ m.index >= 1 ELSE m.index = None
  /\ IF m.period = "game" THEN m.setIndex # None /\ m.setIndex >= 1 ELSE m.setIndex = None
  /\ m.kind = "set_winner" => m.period = "set"
  /\ m.kind = "game_winner" => m.period = "game"
  /\ m.subject # None <=> m.kind = "podium_finish"
  /\ m.kind = "outright_winner" => m.period \in RaceScopes \cup {"tournament"}
  /\ m.kind \in {"podium_finish", "head_to_head"} => m.period \in RaceScopes

\* Selection.__post_init__
ValidSelection(s) ==
  /\ s.participant # None <=> s.kind = "participant"
  /\ s.handicap # None => s.kind = "participant"

ById(things, id) == CHOOSE x \in things : x.id = id

\* Event.__post_init__
ValidEvent(reg, e) ==
  /\ ById(reg.competitions, e.competition).sport = e.sport
  /\ e.participants # <<>> /\ IsInjective(e.participants)
  /\ \A i \in DOMAIN e.participants : ById(reg.participants, e.participants[i]).sport = e.sport
  /\ \A r, q \in e.references : r.provider = q.provider => r = q

-----------------------------------------------------------------------------
(* CanonicalRegistry.__post_init__                                         *)

Ids(things) == {x.id : x \in things}
UniqueIds(things) == Cardinality(Ids(things)) = Cardinality(things)
ParticipantsOf(e) == Range(e.participants)
EventOf(reg, m) == ById(reg.events, m.event)
SelectionsOf(reg, m) == {s \in reg.selections : s.market = m.id}

ReferencesResolve(reg) ==
  /\ \A e \in reg.events : /\ e.competition \in Ids(reg.competitions)
                           /\ ParticipantsOf(e) \subseteq Ids(reg.participants)
  /\ \A m \in reg.markets : m.event \in Ids(reg.events)
  /\ \A s \in reg.selections :
       /\ s.market \in Ids(reg.markets)
       /\ s.kind = "participant" =>
            s.participant \in ParticipantsOf(EventOf(reg, ById(reg.markets, s.market)))

OneOfEach(sels, kinds) == Cardinality(sels) = 2 /\ {s.kind : s \in sels} = kinds

\* Exactly one selection per participant, without handicap.
OnePerParticipant(sels, participants) ==
  /\ Cardinality(sels) = Cardinality(participants)
  /\ \A s \in sels : s.kind = "participant" /\ s.handicap = None
  /\ {s.participant : s \in sels} = participants

\* The line is the handicap of the first participant, its negation the second's.
HandicapsMirrored(sels, e, line) ==
  /\ Cardinality(sels) = 2 /\ \A s \in sels : s.kind = "participant"
  /\ {s.participant : s \in sels} = ParticipantsOf(e)
  /\ \A s \in sels : s.handicap = IF s.participant = e.participants[1] THEN line ELSE -line

\* The rules of the registry on the selections of a market. Match and
\* qualification winners have none.
KindRules(reg, m) ==
  LET e == EventOf(reg, m)
      sels == SelectionsOf(reg, m)
      two == Len(e.participants) = 2
  IN  CASE m.kind = "total_points" -> OneOfEach(sels, {"over", "under"})
        [] m.kind = "both_teams_to_score" -> OneOfEach(sels, {"yes", "no"})
        [] m.kind \in {"set_winner", "game_winner"} ->
             two /\ OnePerParticipant(sels, ParticipantsOf(e))
        [] m.kind = "outright_winner" ->
             /\ Len(e.participants) >= 2
             /\ Cardinality({ById(reg.participants, p).kind : p \in ParticipantsOf(e)}) = 1
             /\ OnePerParticipant(sels, ParticipantsOf(e))
        [] m.kind = "podium_finish" ->
             /\ m.subject \in ParticipantsOf(e)
             /\ OneOfEach(sels, {"yes", "no"})
        [] m.kind = "head_to_head" ->
             /\ Cardinality(sels) = 2
             /\ OnePerParticipant(sels, {s.participant : s \in sels})
             /\ {s.participant : s \in sels} \subseteq ParticipantsOf(e)
        [] m.kind = "handicap" -> two /\ HandicapsMirrored(sels, e, m.line)
        [] OTHER -> TRUE

WellFormed(reg) ==
  /\ UniqueIds(reg.competitions) /\ UniqueIds(reg.participants) /\ UniqueIds(reg.events)
  /\ UniqueIds(reg.markets) /\ UniqueIds(reg.selections)
  /\ ReferencesResolve(reg)
  /\ \A e \in reg.events : ValidEvent(reg, e)
  /\ \A s \in reg.selections : ValidSelection(s)
  /\ \A m \in reg.markets : ValidMarket(m) /\ KindRules(reg, m)

-----------------------------------------------------------------------------
(* normalization/market_support.py, purpose GENERIC_ARBITRAGE              *)

\* Fault: whole lines, which can push, are let in.
PushFreeOrWhole(line) == line % 2 = 0

\* x.5: the line, doubled, is an odd integer
PushFree(line) == line % 4 = 2

\* assess_market_support
Supported(sport, m) ==
  \/ m.kind \in {"match_winner_2_way", "match_winner_3_way"}
  \/ /\ m.kind = "total_points" /\ m.line > 0 /\ PushFree(m.line)
     /\ <<sport, m.period>> \in {<<"football", "regulation">>, <<"basketball", "full_event">>}
  \/ /\ m.kind = "both_teams_to_score" /\ sport = "football" /\ m.period = "regulation"
  \/ /\ m.kind = "set_winner" /\ sport = "tennis" /\ m.period = "set" /\ m.index \in {1, 2}
  \/ /\ m.kind = "handicap" /\ PushFree(m.line)
     /\ <<sport, m.period>> \in {<<"football", "regulation">>, <<"basketball", "full_event">>}

-----------------------------------------------------------------------------
(* The index over the events                                               *)

\* key of _events_by_match_key
MatchKey(sport, competition, participants) == <<sport, competition, Range(participants)>>

\* event_match_candidates
EventMatchCandidates(reg, sport, competition, participants) ==
  {e \in reg.events : MatchKey(e.sport, e.competition, e.participants)
                        = MatchKey(sport, competition, participants)}

-----------------------------------------------------------------------------
(* Settlement, for the properties                                          *)

\* A result: the points of the two participants and the winner of each set, as
\* positions in the event.
Wins(reg, m, s, result) ==
  LET e == EventOf(reg, m)
      total == 4 * (result.points[1] + result.points[2])
      position == CHOOSE i \in DOMAIN e.participants : e.participants[i] = s.participant
      lead == 4 * (result.points[position] - result.points[3 - position])
      bothScore == result.points[1] > 0 /\ result.points[2] > 0
  IN  CASE s.kind = "over" -> total > m.line
        [] s.kind = "under" -> total < m.line
        [] s.kind = "yes" -> bothScore
        [] s.kind = "no" -> ~bothScore
        [] m.kind = "handicap" -> lead + s.handicap > 0
        [] OTHER -> result.sets[m.index] = position
=============================================================================
