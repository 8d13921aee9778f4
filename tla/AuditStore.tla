----------------------------- MODULE AuditStore -----------------------------
(***************************************************************************)
(* SqliteAuditStore (persistence/store.py): calls of several processes on  *)
(* one SQLite database, statement by statement.                            *)
(*                                                                         *)
(* Every call opens its own connection. The sqlite3 module of Python opens *)
(* a transaction only before the first INSERT or DELETE of a call: a       *)
(* SELECT before it reads the committed database and holds no lock, and    *)
(* from it to the commit the call is the only writer (external: SQLite).   *)
(***************************************************************************)
EXTENDS Integers, Sequences

CONSTANTS
  Processes,      \* threads or processes that share the database
  Quotes, Opportunities, Plans,  \* canonical ids, by entity type
  Payloads,       \* serialized contents
  OccurredAt,     \* occurred_at of a quote with that payload
  QuotesOf,       \* the quote ids an opportunity's payload refers to, in order
  OpportunityOf,  \* the opportunity a plan's payload refers to
  Jobs,           \* the calls of persist_quote(s) and persist_opportunity
  Cutoffs,        \* the cutoffs of purge_quotes_before
  MaxCreations,   \* bound: how often a row is created
  None

Ids == Quotes \cup Opportunities \cup Plans
Item == [id : Ids, payload : Payloads]

\* The arguments of a call: quotes in order, and for persist_opportunity the
\* opportunity and its plan, if any. Arguments that do not belong together
\* are refused before the database is touched.
Job == {job \in [quotes : Seq([id : Quotes, payload : Payloads]),
                 opportunity : [id : Opportunities, payload : Payloads] \cup {None},
                 plan : [id : Plans, payload : Payloads] \cup {None}] :
          /\ job.opportunity # None =>
               QuotesOf[job.opportunity.payload] = [i \in DOMAIN job.quotes |-> job.quotes[i].id]
          /\ job.plan # None => /\ job.opportunity # None
                                /\ OpportunityOf[job.plan.payload] = job.opportunity.id}

ASSUME IdsAssumption == /\ Quotes \cap Opportunities = {}
                        /\ Quotes \cap Plans = {}
                        /\ Opportunities \cap Plans = {}
ASSUME PayloadsAssumption == /\ QuotesOf \in [Payloads -> Seq(Quotes)]
                             /\ OccurredAt \in [Payloads -> Int]
                             /\ \A x \in Payloads : \A i, j \in DOMAIN QuotesOf[x] :
                                  QuotesOf[x][i] = QuotesOf[x][j] => i = j
ASSUME JobsAssumption == Jobs \subseteq Job /\ Cutoffs \subseteq Int
ASSUME NoneAssumption == /\ None \notin Payloads \cup Ids \cup Processes \cup Item
                         /\ None \notin [job : Jobs, at : Nat, missing : BOOLEAN]

\* canonical_snapshots, the number of audit_events of each id, opportunity_quotes
\* and opportunity_stake_plans.
Link == [opportunity : Opportunities, ordinal : Nat, quote : Quotes]
Database == [rows : [Ids -> Payloads \cup {None}], created : [Ids -> Nat],
             links : SUBSET Link, plans : [Opportunities -> Plans \cup {None}]]

VARIABLES
  db,      \* the committed database
  writer,  \* the process with an open transaction, or None
  work,    \* the database as that process sees it
  call,    \* the call of each process: its job, the next statement, whether the
           \* SELECT of _upsert found no row; None if there is none
  overlapped,   \* history: the processes with a purge since their call began
  acknowledged  \* history: the calls of persist_opportunity that returned

vars == <<db, writer, work, call, overlapped, acknowledged>>

View(p) == IF writer = p THEN work ELSE db

\* The write lock is free or the process's own.
CanWrite(p) == writer \in {None, p}

-----------------------------------------------------------------------------
\* Fault: the audit event is left out for a row that was there before.
WithRowOnce(d, item) ==
  [rows |-> [d.rows EXCEPT ![item.id] = item.payload],
   created |-> [d.created EXCEPT ![item.id] = 1],
   links |-> d.links, plans |-> d.plans]

\* The INSERTs of _upsert: the row and its audit event.
WithRow(d, item) ==
  [rows |-> [d.rows EXCEPT ![item.id] = item.payload],
   created |-> [d.created EXCEPT ![item.id] = @ + 1],
   links |-> d.links, plans |-> d.plans]

\* INSERT OR IGNORE INTO opportunity_quotes, once per quote.
Linked(links, job) ==
  links \cup
  {link \in {[opportunity |-> job.opportunity.id, ordinal |-> i, quote |-> job.quotes[i].id] :
               i \in DOMAIN job.quotes} :
     \A old \in links : old.opportunity = link.opportunity =>
                          old.ordinal # link.ordinal /\ old.quote # link.quote}

WithLinks(d, job) ==
  [rows |-> d.rows, created |-> d.created, links |-> Linked(d.links, job), plans |-> d.plans]

\* INSERT OR IGNORE INTO opportunity_stake_plans.
WithPlan(d, job) ==
  [rows |-> d.rows, created |-> d.created, links |-> d.links,
   plans |-> IF \/ d.plans[job.opportunity.id] # None
                \/ \E o \in Opportunities : d.plans[o] = job.plan.id
             THEN d.plans
             ELSE [d.plans EXCEPT ![job.opportunity.id] = job.plan.id]]

\* A plan may be stored if the opportunity has no other one and its id is not
\* taken by other content.
PlanFits(d, job) ==
  /\ d.plans[job.opportunity.id] \in {None, job.plan.id}
  /\ d.rows[job.plan.id] \in {None, job.plan.payload}

PlanStored(d, job) ==
  WithPlan(IF d.rows[job.plan.id] = None THEN WithRow(d, job.plan) ELSE d, job)

-----------------------------------------------------------------------------
Init ==
  /\ db = [rows |-> [i \in Ids |-> None], created |-> [i \in Ids |-> 0],
           links |-> {}, plans |-> [o \in Opportunities |-> None]]
  /\ writer = None
  /\ work = db
  /\ call = [p \in Processes |-> None]
  /\ overlapped = {}
  /\ acknowledged = {}

\* How many _upsert calls a job makes before it links, the n-th of them, and
\* the number of its steps with the linking.
Upserts(job) == Len(job.quotes) + (IF job.opportunity = None THEN 0 ELSE 1)
Steps(job) == Upserts(job) + (IF job.opportunity = None THEN 0 ELSE 1)
ItemAt(job, n) == IF n <= Len(job.quotes) THEN job.quotes[n] ELSE job.opportunity

Advanced(c) == [job |-> c.job, at |-> c.at + 1, missing |-> FALSE]

Begin(p, job) ==
  /\ call[p] = None
  /\ \A n \in 1..Upserts(job) : db.created[ItemAt(job, n).id] < MaxCreations
  /\ call' = [call EXCEPT ![p] = [job |-> job, at |-> 1, missing |-> FALSE]]
  /\ overlapped' = overlapped \ {p}
  /\ UNCHANGED <<db, writer, work, acknowledged>>

\* Fault: any row under the id will do.
LookupById(p) ==
  LET c == call[p]
      item == ItemAt(c.job, c.at) IN
  /\ c # None /\ ~c.missing
  /\ c.at <= Upserts(c.job)
  /\ call' = [call EXCEPT ![p] =
       IF View(p).rows[item.id] = None THEN [job |-> c.job, at |-> c.at, missing |-> TRUE] ELSE Advanced(c)]
  /\ UNCHANGED <<db, writer, work, overlapped, acknowledged>>

\* The SELECT of _upsert. Other content under the id raises PersistenceError.
Lookup(p) ==
  LET c == call[p]
      item == ItemAt(c.job, c.at) IN
  /\ c # None /\ ~c.missing
  /\ c.at <= Upserts(c.job)
  /\ View(p).rows[item.id] \in {None, item.payload}
  /\ call' = [call EXCEPT ![p] =
       IF View(p).rows[item.id] = None THEN [job |-> c.job, at |-> c.at, missing |-> TRUE] ELSE Advanced(c)]
  /\ UNCHANGED <<db, writer, work, overlapped, acknowledged>>

\* The INSERTs of _upsert; a row that has come up meanwhile is an error.
Insert(p) ==
  LET c == call[p]
      item == ItemAt(c.job, c.at) IN
  /\ c # None /\ c.missing
  /\ CanWrite(p)
  /\ View(p).rows[item.id] = None
  /\ work' = WithRow(View(p), item)
  /\ writer' = p
  /\ call' = [call EXCEPT ![p] = Advanced(c)]
  /\ UNCHANGED <<db, overlapped, acknowledged>>

\* Fault: the linking may be repeated.
LinkingAgain(c) == c.job.opportunity # None /\ c.at > Upserts(c.job)

Linking(c) == c.job.opportunity # None /\ c.at = Upserts(c.job) + 1

\* The rest of persist_opportunity: the links and the plan. The first INSERT
\* takes the lock, so nothing comes between these statements.
LinkEvidence(p) ==
  LET c == call[p]
      linked == WithLinks(View(p), c.job) IN
  /\ c # None /\ Linking(c)
  /\ CanWrite(p)
  /\ c.job.plan # None => PlanFits(linked, c.job)
  /\ work' = IF c.job.plan = None THEN linked ELSE PlanStored(linked, c.job)
  /\ writer' = p
  /\ call' = [call EXCEPT ![p] = Advanced(c)]
  /\ UNCHANGED <<db, overlapped, acknowledged>>

\* Fault: the rows are committed before the links.
DoneEarly(c) == c.at > Upserts(c.job)

Done(c) == c.at = Steps(c.job) + 1

Commit(p) ==
  /\ call[p] # None /\ Done(call[p])
  /\ db' = View(p)
  /\ writer' = IF writer = p THEN None ELSE writer
  /\ call' = [call EXCEPT ![p] = None]
  /\ acknowledged' = IF call[p].job.opportunity = None THEN acknowledged
                     ELSE acknowledged \cup {[job |-> call[p].job, purged |-> p \in overlapped]}
  /\ UNCHANGED <<work, overlapped>>

\* A statement fails, the lock is not free within the timeout, or the process
\* dies: SQLite rolls the open transaction back.
Abort(p) ==
  /\ call[p] # None
  /\ writer' = IF writer = p THEN None ELSE writer
  /\ call' = [call EXCEPT ![p] = None]
  /\ UNCHANGED <<db, work, overlapped, acknowledged>>

\* Fault: every old quote.
PurgeableAny(cutoff) == {q \in Quotes : db.rows[q] # None /\ OccurredAt[db.rows[q]] < cutoff}

\* The old quotes that no opportunity refers to.
Purgeable(cutoff) ==
  {q \in Quotes : /\ db.rows[q] # None
                  /\ OccurredAt[db.rows[q]] < cutoff
                  /\ \A link \in db.links : link.quote # q}

\* purge_quotes_before: one DELETE, in a transaction of its own.
Purge(p, cutoff) ==
  /\ call[p] = None
  /\ writer = None
  /\ db' = [rows |-> [i \in Ids |-> IF i \in Purgeable(cutoff) THEN None ELSE db.rows[i]],
            created |-> db.created, links |-> db.links, plans |-> db.plans]
  /\ overlapped' = {q \in Processes : call[q] # None} \cup overlapped
  /\ UNCHANGED <<writer, work, call, acknowledged>>

Next ==
  \E p \in Processes :
    \/ \E job \in Jobs : Begin(p, job)
    \/ Lookup(p)
    \/ Insert(p)
    \/ LinkEvidence(p)
    \/ Commit(p)
    \/ Abort(p)
    \/ \E cutoff \in Cutoffs : Purge(p, cutoff)

Spec == Init /\ [][Next]_vars

-----------------------------------------------------------------------------
\* The tables hold rows of their schema, and every call has an end.
TypeOK ==
  /\ db \in Database
  /\ writer \in Processes \cup {None}
  /\ work \in Database
  /\ call \in [Processes -> [job : Jobs, at : Nat, missing : BOOLEAN] \cup {None}]
  /\ overlapped \subseteq Processes
  /\ acknowledged \subseteq [job : Jobs, purged : BOOLEAN]
  /\ \A p \in Processes : call[p] # None => call[p].at \in 1..(Steps(call[p].job) + 1)

LinksOf(d, o) == {link \in d.links : link.opportunity = o}
EvidenceLinks(o, payload) ==
  {[opportunity |-> o, ordinal |-> i, quote |-> QuotesOf[payload][i]] : i \in DOMAIN QuotesOf[payload]}

\* reconstruct_opportunity returns: the rows of the opportunity, of its quotes in
\* their order and of its plan are there.
Reconstructs(d, o) ==
  /\ d.rows[o] # None
  /\ LinksOf(d, o) = EvidenceLinks(o, d.rows[o])
  /\ \A link \in LinksOf(d, o) : d.rows[link.quote] # None
  /\ d.plans[o] # None => d.rows[d.plans[o]] # None

\* The contents handed over with a call are what reconstruction gives.
Kept(d, job) ==
  /\ Reconstructs(d, job.opportunity.id)
  /\ d.rows[job.opportunity.id] = job.opportunity.payload
  /\ \A i \in DOMAIN job.quotes : d.rows[job.quotes[i].id] = job.quotes[i].payload
  /\ job.plan # None => /\ d.plans[job.opportunity.id] = job.plan.id
                        /\ d.rows[job.plan.id] = job.plan.payload

\* "Previously persisted opportunities can be reconstructed from canonical
\* evidence": once persist_opportunity has returned, reconstruction succeeds
\* for ever, with the very contents that were handed over, if no retention
\* overlapped the call. Other processes may persist, fail and die meanwhile, and
\* purge before and after.
AuditableUnlessOverlapped ==
  \A ack \in acknowledged : ~ack.purged => Kept(db, ack.job)

\* "The opportunity, its exact ordered quote set, and an optional stake plan are
\* committed together": whatever calls overlap, fail or die, no opportunity
\* row is without exactly its links, and no link is without its opportunity.
WholeIn(d, o) ==
  IF d.rows[o] = None
  THEN LinksOf(d, o) = {} /\ d.plans[o] = None
  ELSE /\ LinksOf(d, o) = EvidenceLinks(o, d.rows[o])
       /\ d.plans[o] # None => d.rows[d.plans[o]] # None
WholeOpportunities == \A o \in Opportunities : WholeIn(db, o)

\* "Retention cannot accidentally destroy evidence referenced by an
\* opportunity": no step of any process makes an opportunity that can be
\* reconstructed one that cannot.
EvidenceProtected ==
  [][\A o \in Opportunities : Reconstructs(db, o) => Reconstructs(db, o)']_vars

\* "The schema maintains append-only creation audit events": a commit adds one
\* event for each row it brings up and none else, and no row changes its content
\* ("an identifier collision ... fails closed instead of silently overwriting").
AuditTrail ==
  [][\A i \in Ids :
       LET old == db.rows[i]
           new == db.rows[i]' IN
       /\ db.created[i]' = db.created[i] + (IF old = None /\ new # None THEN 1 ELSE 0)
       /\ old # None => new \in {old, None}]_vars

=============================================================================
