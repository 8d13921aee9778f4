--------------------------- MODULE MCPersistence ----------------------------
(* Finite instance of Persistence: one opportunity with two quotes.         *)
EXTENDS Persistence

\* x1 and y1 are two contents of quote 1: the same id with another price.
MCPayloads == {"x1", "y1", "x2", "deal", "stakes"}
MCOccurredAt == [x \in MCPayloads |-> IF x \in {"x1", "y1"} THEN 0 ELSE 1]
MCQuotesOf == [x \in MCPayloads |-> IF x = "deal" THEN <<"q1", "q2">> ELSE <<>>]
MCOpportunityOf == [x \in MCPayloads |-> IF x = "stakes" THEN "o1" ELSE None]

Quoted(i, x) == [id |-> i, payload |-> x]
Deal == Quoted("o1", "deal")

\* Batches of quotes, and the opportunity without and with a plan.
MCJobs ==
  {[quotes |-> <<Quoted("q1", x)>>, opportunity |-> None, plan |-> None] : x \in {"x1", "y1"}}
  \cup {[quotes |-> <<Quoted("q2", "x2"), Quoted("q1", "x1")>>, opportunity |-> None, plan |-> None]}
  \cup {[quotes |-> <<Quoted("q1", x), Quoted("q2", "x2")>>, opportunity |-> Deal, plan |-> l] :
           x \in {"x1", "y1"}, l \in {None, Quoted("s1", "stakes")}}
=============================================================================
