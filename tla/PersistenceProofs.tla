------------------------- MODULE PersistenceProofs --------------------------
(***************************************************************************)
(* Proofs about AuditStore and Persistence. For any number of processes,   *)
(* any calls and any cutoffs, what is committed is whole, evidence is      *)
(* never lost and the audit trail is complete; the migration is sound      *)
(* wherever processes overlap or die; and what is proved of the audit      *)
(* store holds of a database that is also migrated.                        *)
(***************************************************************************)
EXTENDS Persistence, SequenceTheorems, TLAPS


-----------------------------------------------------------------------------
(* The inductive invariant.                                                *)

\* A transaction only adds to the database d, with one audit event per row.
Grown(d, e) ==
  \A i \in Ids :
    /\ d.rows[i] # None => e.rows[i] = d.rows[i]
    /\ e.created[i] = d.created[i] + (IF d.rows[i] = None /\ e.rows[i] # None THEN 1 ELSE 0)

\* The row of the opportunity is inserted, its links are not.
Pending(d, o) == d.rows[o] # None /\ LinksOf(d, o) = {} /\ d.plans[o] = None

\* While a transaction is open it belongs to a call, and only the opportunity
\* that this call is about to link is not whole.
Transaction ==
  writer # None =>
    /\ call[writer] # None
    /\ Grown(db, work)
    /\ \A o \in Opportunities :
         \/ WholeIn(work, o)
         \/ /\ Linking(call[writer])
            /\ o = call[writer].job.opportunity.id
            /\ Pending(work, o)

\* A call that is past its _upserts sees the row of its opportunity.
Progress ==
  \A p \in Processes :
    call[p] # None =>
      /\ call[p].missing => call[p].at <= Upserts(call[p].job)
      /\ /\ call[p].job.opportunity # None
         /\ call[p].at > Upserts(call[p].job)
         => View(p).rows[call[p].job.opportunity.id] = call[p].job.opportunity.payload

IInv == TypeOK /\ WholeOpportunities /\ Transaction /\ Progress

-----------------------------------------------------------------------------
(* The arguments of a call.                                                *)

\* The elements of a sequence (_upsert takes the quotes one by one).
LEMMA ElementOf ==
  ASSUME NEW S, NEW s \in Seq(S)
  PROVE  /\ Len(s) \in Nat /\ DOMAIN s = 1..Len(s)
         /\ \A i \in DOMAIN s : s[i] \in S
OBVIOUS

\* What Job says of the arguments that persist_opportunity and persist_quotes
\* work on.
LEMMA JobIsSound ==
  ASSUME NEW job \in Jobs
  PROVE  /\ Len(job.quotes) \in Nat
         /\ DOMAIN job.quotes = 1..Len(job.quotes)
         /\ \A i \in DOMAIN job.quotes : job.quotes[i] \in [id : Quotes, payload : Payloads]
         /\ job.opportunity # None =>
              /\ job.opportunity \in [id : Opportunities, payload : Payloads]
              /\ QuotesOf[job.opportunity.payload]
                   = [i \in DOMAIN job.quotes |-> job.quotes[i].id]
         /\ job.plan # None =>
              /\ job.plan \in [id : Plans, payload : Payloads]
              /\ job.opportunity # None
         /\ Upserts(job) \in Nat /\ Steps(job) \in Nat
<1>1. /\ job.quotes \in Seq([id : Quotes, payload : Payloads])
      /\ job.opportunity \in [id : Opportunities, payload : Payloads] \cup {None}
      /\ job.plan \in [id : Plans, payload : Payloads] \cup {None}
      /\ job.opportunity # None =>
           QuotesOf[job.opportunity.payload] = [i \in DOMAIN job.quotes |-> job.quotes[i].id]
      /\ job.plan # None => job.opportunity # None
  BY JobsAssumption DEF Job
<1>2. Len(job.quotes) \in Nat /\ DOMAIN job.quotes = 1..Len(job.quotes)
  BY <1>1, ElementOf
<1>3. \A i \in DOMAIN job.quotes : job.quotes[i] \in [id : Quotes, payload : Payloads]
  BY <1>1, ElementOf, Zenon
<1>4. Upserts(job) \in Nat /\ Steps(job) \in Nat
  <2>1. CASE job.opportunity = None
    <3>1. Upserts(job) = Len(job.quotes) + 0 /\ Steps(job) = Upserts(job) + 0
      BY <2>1, Zenon DEF Upserts, Steps
    <3>2. QED
      BY <3>1, <1>2
  <2>2. CASE job.opportunity # None
    <3>1. Upserts(job) = Len(job.quotes) + 1 /\ Steps(job) = Upserts(job) + 1
      BY <2>2, Zenon DEF Upserts, Steps
    <3>2. QED
      BY <3>1, <1>2
  <2>3. QED
    BY <2>1, <2>2
<1>5. QED
  BY <1>1, <1>2, <1>3, <1>4

\* persist_opportunity has an _upsert for the opportunity, and links after it.
LEMMA StepsOfOpportunity ==
  ASSUME NEW job \in Jobs, job.opportunity # None
  PROVE  /\ Upserts(job) = Len(job.quotes) + 1 /\ Upserts(job) >= 1
         /\ Steps(job) = Upserts(job) + 1
<1>1. Upserts(job) = Len(job.quotes) + 1 /\ Steps(job) = Upserts(job) + 1
  BY Zenon DEF Upserts, Steps
<1>2. Len(job.quotes) \in Nat
  BY JobIsSound
<1>3. QED
  BY <1>1, <1>2

\* Each _upsert of a call is about a quote, or it is the last and about the
\* opportunity.
LEMMA ItemIsRow ==
  ASSUME NEW job \in Jobs, NEW n \in 1..Upserts(job)
  PROVE  /\ ItemAt(job, n) \in Item
         /\ \/ ItemAt(job, n).id \in Quotes
            \/ /\ job.opportunity # None
               /\ ItemAt(job, n) = job.opportunity
               /\ n = Upserts(job)
         /\ job.opportunity # None /\ n = Upserts(job) => ItemAt(job, n) = job.opportunity
<1>1. CASE n <= Len(job.quotes)
  <2>1. ItemAt(job, n) = job.quotes[n] /\ n \in DOMAIN job.quotes
    BY <1>1, JobIsSound DEF ItemAt, Upserts
  <2>2. job.quotes[n] \in [id : Quotes, payload : Payloads]
    BY <2>1, JobIsSound
  <2>3. ~(job.opportunity # None /\ n = Upserts(job))
    <3>1. job.opportunity # None => Upserts(job) = Len(job.quotes) + 1
      BY Zenon DEF Upserts
    <3>2. QED
      BY <3>1, <1>1, JobIsSound
  <2>4. QED
    BY <2>1, <2>2, <2>3 DEF Item, Ids
<1>2. CASE ~(n <= Len(job.quotes))
  <2>1. ItemAt(job, n) = job.opportunity
    BY <1>2 DEF ItemAt
  <2>2. job.opportunity # None /\ n = Upserts(job)
    <3>1. Len(job.quotes) \in Nat /\ n \in Nat /\ n <= Upserts(job)
      BY JobIsSound
    <3>2. CASE job.opportunity = None
      <4>1. Upserts(job) = Len(job.quotes) + 0
        BY <3>2, Zenon DEF Upserts
      <4>2. QED
        BY <4>1, <3>1, <1>2
    <3>3. CASE job.opportunity # None
      <4>1. Upserts(job) = Len(job.quotes) + 1
        BY <3>3, Zenon DEF Upserts
      <4>2. QED
        BY <4>1, <3>1, <3>3, <1>2
    <3>4. QED
      BY <3>2, <3>3
  <2>3. job.opportunity \in [id : Opportunities, payload : Payloads]
    BY <2>2, JobIsSound
  <2>4. QED
    BY <2>1, <2>2, <2>3 DEF Item, Ids
<1>3. QED
  BY <1>1, <1>2

-----------------------------------------------------------------------------
(* The statements.                                                         *)

\* _upsert on a missing row adds the row and its event and nothing else.
LEMMA RowAdded ==
  ASSUME NEW d \in Database, NEW item \in Item, d.rows[item.id] = None
  PROVE  LET e == WithRow(d, item) IN
         /\ e \in Database
         /\ e.rows[item.id] = item.payload
         /\ \A i \in Ids : i # item.id => e.rows[i] = d.rows[i]
         /\ \A b \in Database : Grown(b, d) => Grown(b, e)
         /\ \A o \in Opportunities : o # item.id /\ WholeIn(d, o) => WholeIn(e, o)
         /\ item.id \in Opportunities /\ WholeIn(d, item.id) => Pending(e, item.id)
<1> DEFINE e == WithRow(d, item)
<1>0. item.id \in Ids /\ item.payload \in Payloads /\ item.payload # None
  BY NoneAssumption DEF Item
<1>1. /\ e.rows = [d.rows EXCEPT ![item.id] = item.payload]
      /\ e.created = [d.created EXCEPT ![item.id] = @ + 1]
      /\ e.links = d.links /\ e.plans = d.plans
  BY DEF WithRow
<1>2. /\ d.rows \in [Ids -> Payloads \cup {None}] /\ d.created \in [Ids -> Nat]
      /\ d.links \in SUBSET Link /\ d.plans \in [Opportunities -> Plans \cup {None}]
  BY DEF Database
<1>3. e.rows[item.id] = item.payload /\ \A i \in Ids : i # item.id => e.rows[i] = d.rows[i]
  BY <1>0, <1>1, <1>2
<1>4. e \in Database
  BY <1>0, <1>2 DEF WithRow, Database
<1>5. ASSUME NEW b \in Database, Grown(b, d) PROVE Grown(b, e)
  <2>1. SUFFICES ASSUME NEW i \in Ids
                 PROVE  /\ b.rows[i] # None => e.rows[i] = b.rows[i]
                        /\ e.created[i] = b.created[i]
                             + (IF b.rows[i] = None /\ e.rows[i] # None THEN 1 ELSE 0)
    BY DEF Grown
  <2>2. /\ b.rows[i] # None => d.rows[i] = b.rows[i]
        /\ d.created[i] = b.created[i] + (IF b.rows[i] = None /\ d.rows[i] # None THEN 1 ELSE 0)
    BY <1>5 DEF Grown
  <2>3. b.created[i] \in Nat
    BY DEF Database
  <2>4. CASE i = item.id
    BY <2>2, <2>3, <2>4, <1>0, <1>1, <1>2
  <2>5. CASE i # item.id
    BY <2>2, <2>5, <1>0, <1>1, <1>2
  <2>6. QED
    BY <2>4, <2>5
<1>6. ASSUME NEW o \in Opportunities, o # item.id, WholeIn(d, o) PROVE WholeIn(e, o)
  <2>1. LinksOf(e, o) = LinksOf(d, o) /\ e.plans[o] = d.plans[o] /\ e.rows[o] = d.rows[o]
    BY <1>1, <1>3, <1>6 DEF LinksOf, Ids
  <2>2. d.plans[o] # None /\ d.rows[d.plans[o]] # None => e.rows[d.plans[o]] # None
    BY <1>0, <1>2, <1>3 DEF Ids
  <2>3. QED
    BY <1>6, <2>1, <2>2 DEF WholeIn
<1>7. ASSUME item.id \in Opportunities, WholeIn(d, item.id) PROVE Pending(e, item.id)
  <2>1. LinksOf(d, item.id) = {} /\ d.plans[item.id] = None
    BY <1>7 DEF WholeIn
  <2>2. LinksOf(e, item.id) = LinksOf(d, item.id)
    BY <1>1 DEF LinksOf
  <2>3. QED
    BY <2>1, <2>2, <1>0, <1>1, <1>3 DEF Pending
<1>8. QED
  BY <1>3, <1>4, <1>5, <1>6, <1>7

\* Linking an opportunity that is whole, or whose row has just been inserted,
\* leaves every opportunity whole.
LEMMA LinksAdded ==
  ASSUME NEW d \in Database, NEW job \in Jobs, job.opportunity # None,
         d.rows[job.opportunity.id] = job.opportunity.payload,
         \A o \in Opportunities :
           WholeIn(d, o) \/ (o = job.opportunity.id /\ Pending(d, o))
  PROVE  LET e == WithLinks(d, job) IN
         /\ e \in Database
         /\ e.rows = d.rows /\ e.plans = d.plans
         /\ \A b \in Database : Grown(b, d) => Grown(b, e)
         /\ \A o \in Opportunities : WholeIn(e, o)
<1> DEFINE e == WithLinks(d, job)
           x == job.opportunity
           new == {[opportunity |-> x.id, ordinal |-> i, quote |-> job.quotes[i].id] :
                     i \in DOMAIN job.quotes}
<1>0. x.id \in Opportunities /\ x.payload \in Payloads /\ x.payload # None
  BY JobIsSound, NoneAssumption
<1>1. e.rows = d.rows /\ e.created = d.created /\ e.plans = d.plans /\ e.links = Linked(d.links, job)
  BY DEF WithLinks
<1>2. new \subseteq Link
  <2>1. DOMAIN job.quotes \subseteq Nat /\ \A i \in DOMAIN job.quotes : job.quotes[i].id \in Quotes
    <3>1. DOMAIN job.quotes = 1..Len(job.quotes)
      BY JobIsSound
    <3>2. ASSUME NEW i \in DOMAIN job.quotes PROVE job.quotes[i].id \in Quotes
      <4>1. job.quotes[i] \in [id : Quotes, payload : Payloads]
        BY JobIsSound
      <4>2. QED
        BY <4>1
    <3>3. QED
      BY <3>1, <3>2
  <2>2. QED
    BY <2>1, <1>0 DEF Link
<1>3. /\ d.links \subseteq e.links
      /\ e.links \subseteq d.links \cup new
      /\ \A link \in e.links : link \in d.links
           \/ (link \in new /\ \A old \in d.links : old.opportunity = link.opportunity =>
                                 old.ordinal # link.ordinal /\ old.quote # link.quote)
      /\ \A link \in new : (\A old \in d.links : old.opportunity = link.opportunity =>
                              old.ordinal # link.ordinal /\ old.quote # link.quote) => link \in e.links
  BY <1>1 DEF Linked
<1>4. e \in Database
  <2>1. /\ d.rows \in [Ids -> Payloads \cup {None}] /\ d.created \in [Ids -> Nat]
        /\ d.links \in SUBSET Link /\ d.plans \in [Opportunities -> Plans \cup {None}]
    BY DEF Database
  <2>2. Linked(d.links, job) \in SUBSET Link
    BY <2>1, <1>1, <1>2, <1>3
  <2>3. QED
    BY <2>1, <2>2 DEF WithLinks, Database
<1>5. new = EvidenceLinks(x.id, x.payload)
  <2>1. QuotesOf[x.payload] = [i \in DOMAIN job.quotes |-> job.quotes[i].id]
    BY JobIsSound
  <2>2. QED
    BY <2>1 DEF EvidenceLinks
<1>6. ASSUME NEW o \in Opportunities, o # x.id PROVE WholeIn(e, o)
  <2>1. \A link \in new : link.opportunity # o
    BY <1>6
  <2>2. LinksOf(e, o) = LinksOf(d, o)
    BY <2>1, <1>3 DEF LinksOf
  <2>3. WholeIn(d, o)
    BY <1>6
  <2>4. QED
    BY <2>2, <2>3, <1>1 DEF WholeIn
<1>7. WholeIn(e, x.id)
  <2>1. LinksOf(e, x.id) = EvidenceLinks(x.id, x.payload)
    <3>1. \A link \in new : link.opportunity = x.id
      OBVIOUS
    <3>2. CASE Pending(d, x.id)
      <4>1. \A old \in d.links : old.opportunity # x.id
        BY <3>2 DEF Pending, LinksOf
      <4>2. new \subseteq e.links
        BY <4>1, <3>1, <1>3
      <4>3. QED
        BY <4>1, <4>2, <3>1, <1>3, <1>5 DEF LinksOf
    <3>3. CASE WholeIn(d, x.id)
      <4>1. LinksOf(d, x.id) = new
        BY <3>3, <1>0, <1>5 DEF WholeIn
      <4>2. QED
        BY <4>1, <3>1, <1>3, <1>5 DEF LinksOf
    <3>4. QED
      BY <3>2, <3>3, <1>0
  <2>2. e.plans[x.id] # None => e.rows[e.plans[x.id]] # None
    BY <1>0, <1>1 DEF WholeIn, Pending
  <2>3. QED
    BY <2>1, <2>2, <1>0, <1>1 DEF WholeIn
<1>8. ASSUME NEW b \in Database, Grown(b, d) PROVE Grown(b, e)
  BY <1>8, <1>1 DEF Grown
<1>9. QED
  BY <1>1, <1>4, <1>6, <1>7, <1>8

\* Storing a plan that fits leaves every opportunity whole.
LEMMA PlanAdded ==
  ASSUME NEW d \in Database, NEW job \in Jobs, job.plan # None, PlanFits(d, job),
         d.rows[job.opportunity.id] # None,
         \A o \in Opportunities : WholeIn(d, o)
  PROVE  LET e == PlanStored(d, job) IN
         /\ e \in Database
         /\ \A o \in Opportunities : e.rows[o] = d.rows[o]
         /\ \A b \in Database : Grown(b, d) => Grown(b, e)
         /\ \A o \in Opportunities : WholeIn(e, o)
<1> DEFINE c == IF d.rows[job.plan.id] = None THEN WithRow(d, job.plan) ELSE d
           e == WithPlan(c, job)
<1>0. /\ job.opportunity.id \in Opportunities /\ job.plan.id \in Plans
      /\ job.plan \in Item /\ job.plan.id \notin Opportunities
      /\ job.plan.payload # None
  <2>1. /\ job.plan \in [id : Plans, payload : Payloads]
        /\ job.opportunity \in [id : Opportunities, payload : Payloads]
    BY JobIsSound
  <2>2. QED
    BY <2>1, IdsAssumption, NoneAssumption DEF Item, Ids
<1>1. /\ c \in Database
      /\ c.rows[job.plan.id] # None
      /\ \A o \in Opportunities : c.rows[o] = d.rows[o]
      /\ \A b \in Database : Grown(b, d) => Grown(b, c)
      /\ \A o \in Opportunities : WholeIn(c, o)
  <2>1. CASE d.rows[job.plan.id] = None
    <3>1. c = WithRow(d, job.plan)
      BY <2>1
    <3>2. \A o \in Opportunities : o \in Ids /\ o # job.plan.id
      BY <1>0 DEF Ids
    <3>3. QED
      BY <2>1, <3>1, <3>2, <1>0, RowAdded
  <2>2. CASE d.rows[job.plan.id] # None
    BY <2>2
  <2>3. QED
    BY <2>1, <2>2
<1> HIDE DEF c
<1>2. e.rows = c.rows /\ e.created = c.created /\ e.links = c.links
  BY DEF WithPlan
<1>3. e.plans \in [Opportunities -> Plans \cup {None}]
  BY <1>0, <1>1 DEF WithPlan, Database
<1>4. e \in Database
  <2>1. c.rows \in [Ids -> Payloads \cup {None}] /\ c.created \in [Ids -> Nat] /\ c.links \in SUBSET Link
    BY <1>1 DEF Database
  <2>2. QED
    BY <2>1, <1>3 DEF WithPlan, Database
<1>5. ASSUME NEW o \in Opportunities PROVE WholeIn(e, o)
  <2>1. LinksOf(e, o) = LinksOf(c, o)
    BY <1>2 DEF LinksOf
  <2>2. e.plans[o] = c.plans[o] \/ (o = job.opportunity.id /\ e.plans[o] = job.plan.id)
    BY <1>0, <1>1 DEF WithPlan, Database
  <2>3. WholeIn(c, o)
    BY <1>1
  <2>4. CASE c.rows[o] = None
    <3>1. o # job.opportunity.id
      BY <2>4, <1>0, <1>1
    <3>2. QED
      BY <2>1, <2>2, <2>3, <2>4, <3>1, <1>2 DEF WholeIn
  <2>5. CASE c.rows[o] # None
    BY <2>1, <2>2, <2>3, <2>5, <1>1, <1>2 DEF WholeIn
  <2>6. QED
    BY <2>4, <2>5
<1>6. ASSUME NEW b \in Database, Grown(b, d) PROVE Grown(b, e)
  BY <1>6, <1>1, <1>2 DEF Grown
<1>7. PlanStored(d, job) = e
  BY DEF PlanStored, c
<1>8. QED
  BY <1>1, <1>2, <1>4, <1>5, <1>6, <1>7

-----------------------------------------------------------------------------
(* The inductive step, one action at a time.                               *)

\* The empty database satisfies the invariant.
LEMMA InitIInv == Init => IInv
<1> SUFFICES ASSUME Init PROVE IInv
  OBVIOUS
<1>1. db \in Database
  BY DEF Init, Database
<1>2. TypeOK
  BY <1>1 DEF Init, TypeOK
<1>3. ASSUME NEW o \in Opportunities PROVE WholeIn(db, o)
  <2>1. db.rows[o] = None /\ db.links = {} /\ db.plans[o] = None
    BY DEF Init, Ids
  <2>2. QED
    BY <2>1 DEF WholeIn, LinksOf
<1>4. Transaction /\ Progress
  BY DEF Init, Transaction, Progress
<1>5. QED
  BY <1>2, <1>3, <1>4 DEF IInv, WholeOpportunities

\* What a process sees is a database, grown from the committed one, and whole
\* but for the opportunity it is about to link.
LEMMA ViewIsSound ==
  ASSUME IInv, NEW p \in Processes, call[p] # None, CanWrite(p)
  PROVE  /\ View(p) \in Database
         /\ Grown(db, View(p))
         /\ \A o \in Opportunities :
              \/ WholeIn(View(p), o)
              \/ Linking(call[p]) /\ o = call[p].job.opportunity.id /\ Pending(View(p), o)
<1>1. CASE writer = p
  <2>1. p # None
    BY NoneAssumption
  <2>2. QED
    BY <1>1, <2>1 DEF IInv, TypeOK, Transaction, View
<1>2. CASE writer # p
  <2>1. View(p) = db
    BY <1>2 DEF View
  <2>2. db.rows \in [Ids -> Payloads \cup {None}] /\ db.created \in [Ids -> Nat]
    BY DEF IInv, TypeOK, Database
  <2>3. Grown(db, db)
    BY <2>2 DEF Grown
  <2>4. QED
    BY <2>1, <2>3 DEF IInv, TypeOK, WholeOpportunities
<1>3. QED
  BY <1>1, <1>2

\* The records of the calls in progress.
LEMMA CallIsSound ==
  ASSUME TypeOK, NEW p \in Processes, call[p] # None
  PROVE  /\ call[p].job \in Jobs /\ call[p].missing \in BOOLEAN
         /\ call[p].at \in 1..(Steps(call[p].job) + 1)
         /\ call[p].at \in Nat
         /\ Upserts(call[p].job) \in Nat /\ Steps(call[p].job) \in Nat
         /\ Steps(call[p].job) >= Upserts(call[p].job)
         /\ call[p] = [job |-> call[p].job, at |-> call[p].at, missing |-> call[p].missing]
<1>1. call[p] \in [job : Jobs, at : Nat, missing : BOOLEAN]
  BY DEF TypeOK
<1>2. call[p].job \in Jobs /\ call[p].missing \in BOOLEAN /\ call[p].at \in Nat
  BY <1>1
<1>3. Upserts(call[p].job) \in Nat /\ Steps(call[p].job) \in Nat
  BY <1>2, JobIsSound
<1>4. Steps(call[p].job) = Upserts(call[p].job) + 0 \/ Steps(call[p].job) = Upserts(call[p].job) + 1
  BY Zenon DEF Steps
<1>5. call[p] = [job |-> call[p].job, at |-> call[p].at, missing |-> call[p].missing]
  BY <1>1
<1>6. QED
  BY <1>2, <1>3, <1>4, <1>5 DEF TypeOK

\* The records that the actions make for a call.
LEMMA RecordIsCall ==
  ASSUME NEW job \in Jobs, NEW n \in Nat, NEW b \in BOOLEAN
  PROVE  LET X == [job |-> job, at |-> n, missing |-> b] IN
         X \in [job : Jobs, at : Nat, missing : BOOLEAN] /\ X # None
BY NoneAssumption

\* The record of a call that goes on to its next statement.
LEMMA AdvancedIsCall ==
  ASSUME NEW c, c.job \in Jobs, c.at \in Nat
  PROVE  /\ Advanced(c) \in [job : Jobs, at : Nat, missing : BOOLEAN] /\ Advanced(c) # None
         /\ Advanced(c).job = c.job /\ Advanced(c).at = c.at + 1 /\ Advanced(c).missing = FALSE
<1>1. c.at + 1 \in Nat
  OBVIOUS
<1>2. Advanced(c) = [job |-> c.job, at |-> c.at + 1, missing |-> FALSE]
  BY DEF Advanced
<1>3. Advanced(c) \in [job : Jobs, at : Nat, missing : BOOLEAN]
  BY <1>1, <1>2
<1>4. Advanced(c) # None
  BY <1>3, NoneAssumption
<1>5. Advanced(c).job = c.job /\ Advanced(c).at = c.at + 1 /\ Advanced(c).missing = FALSE
  BY <1>2
<1>6. QED
  BY <1>3, <1>4, <1>5

\* A step that changes one call keeps the types if the new record is sound.
LEMMA TypeStep ==
  ASSUME TypeOK, NEW p \in Processes,
         NEW X \in [job : Jobs, at : Nat, missing : BOOLEAN] \cup {None},
         X # None => X.at \in 1..(Steps(X.job) + 1),
         call' = [call EXCEPT ![p] = X],
         db' \in Database, work' \in Database,
         writer' \in Processes \cup {None}, overlapped' \subseteq Processes,
         acknowledged' \subseteq [job : Jobs, purged : BOOLEAN]
  PROVE  TypeOK'
<1>1. call' \in [Processes -> [job : Jobs, at : Nat, missing : BOOLEAN] \cup {None}]
  BY DEF TypeOK
<1>2. ASSUME NEW q \in Processes, call'[q] # None
      PROVE  call'[q].at \in 1..(Steps(call'[q].job) + 1)
  <2>1. CASE q = p
    <3>1. call'[q] = X
      BY <2>1 DEF TypeOK
    <3>2. QED
      BY <3>1, <1>2
  <2>2. CASE q # p
    <3>1. call'[q] = call[q]
      BY <2>2 DEF TypeOK
    <3>2. QED
      BY <3>1, <1>2 DEF TypeOK
  <2>3. QED
    BY <2>1, <2>2
<1>3. QED
  BY <1>1, <1>2 DEF TypeOK

\* The call of another process that saw the opportunity's row still sees it.
LEMMA ProgressStep ==
  ASSUME TypeOK, Progress, NEW p \in Processes, NEW X, call' = [call EXCEPT ![p] = X],
         X # None =>
           /\ X.missing => X.at <= Upserts(X.job)
           /\ X.job.opportunity # None /\ X.at > Upserts(X.job)
                => View(p)'.rows[X.job.opportunity.id] = X.job.opportunity.payload,
         \A q \in Processes : q # p =>
           \A o \in Opportunities : View(q).rows[o] # None => View(q)'.rows[o] = View(q).rows[o]
  PROVE  Progress'
<1> SUFFICES ASSUME NEW q \in Processes, call'[q] # None
             PROVE  /\ call'[q].missing => call'[q].at <= Upserts(call'[q].job)
                    /\ /\ call'[q].job.opportunity # None
                       /\ call'[q].at > Upserts(call'[q].job)
                       => View(q)'.rows[call'[q].job.opportunity.id]
                            = call'[q].job.opportunity.payload
  BY DEF Progress
<1>1. CASE q = p
  <2>1. call'[q] = X
    BY <1>1 DEF TypeOK
  <2>2. QED
    BY <2>1, <1>1
<1>2. CASE q # p
  <2>1. call'[q] = call[q] /\ call[q] # None
    BY <1>2 DEF TypeOK
  <2>2. call[q].missing => call[q].at <= Upserts(call[q].job)
    BY <2>1 DEF Progress
  <2>3. ASSUME call[q].job.opportunity # None, call[q].at > Upserts(call[q].job)
        PROVE  View(q)'.rows[call[q].job.opportunity.id] = call[q].job.opportunity.payload
    <3>1. View(q).rows[call[q].job.opportunity.id] = call[q].job.opportunity.payload
      BY <2>1, <2>3 DEF Progress
    <3>2. call[q].job.opportunity \in [id : Opportunities, payload : Payloads]
      BY <2>1, <2>3, CallIsSound, JobIsSound
    <3>3. call[q].job.opportunity.id \in Opportunities /\ call[q].job.opportunity.payload # None
      BY <3>2, NoneAssumption
    <3>4. QED
      BY <3>1, <3>3, <1>2
  <2>4. QED
    BY <2>1, <2>2, <2>3
<1>3. QED
  BY <1>1, <1>2

\* A call starts (persist_quotes, persist_opportunity).
LEMMA BeginStep ==
  ASSUME IInv, NEW p \in Processes, NEW job \in Jobs, Begin(p, job)
  PROVE  IInv'
<1> DEFINE X == [job |-> job, at |-> 1, missing |-> FALSE]
<1>1. call' = [call EXCEPT ![p] = X] /\ call[p] = None
      /\ overlapped' = overlapped \ {p} /\ UNCHANGED <<db, writer, work, acknowledged>>
  BY DEF Begin
<1>2. Upserts(job) \in Nat /\ Steps(job) \in Nat /\ (job.opportunity # None => Upserts(job) >= 1)
  <2>1. Upserts(job) \in Nat /\ Steps(job) \in Nat
    BY JobIsSound
  <2>2. QED
    BY <2>1, StepsOfOpportunity
<1>3. TypeOK'
  BY <1>1, <1>2, TypeStep DEF IInv, TypeOK
<1>4. Progress'
  <2>1. \A q \in Processes : View(q)' = View(q)
    BY <1>1 DEF View
  <2>2. X # None => /\ ~X.missing
                    /\ ~(X.job.opportunity # None /\ X.at > Upserts(X.job))
    BY <1>2
  <2>3. QED
    BY <1>1, <2>1, <2>2, ProgressStep DEF IInv
<1>5. Transaction'
  <2>1. writer # None => call'[writer] = call[writer]
    BY <1>1 DEF IInv, TypeOK, Transaction
  <2>2. QED
    BY <1>1, <2>1 DEF IInv, Transaction, Linking
<1>6. WholeOpportunities'
  BY <1>1 DEF IInv, WholeOpportunities
<1>7. QED
  BY <1>3, <1>4, <1>5, <1>6 DEF IInv

\* The SELECT of _upsert.
LEMMA LookupStep ==
  ASSUME IInv, NEW p \in Processes, Lookup(p)
  PROVE  IInv'
<1> DEFINE c == call[p]
           item == ItemAt(c.job, c.at)
           X == IF View(p).rows[item.id] = None
                THEN [job |-> c.job, at |-> c.at, missing |-> TRUE] ELSE Advanced(c)
<1>1. /\ c # None /\ c.at <= Upserts(c.job)
      /\ View(p).rows[item.id] \in {None, item.payload}
      /\ call' = [call EXCEPT ![p] = X]
      /\ UNCHANGED <<db, writer, work, overlapped, acknowledged>>
  BY DEF Lookup
<1>2. /\ c.job \in Jobs /\ c.at \in Nat /\ c.at >= 1 /\ c.at \in 1..Upserts(c.job)
      /\ Upserts(c.job) \in Nat /\ Steps(c.job) \in Nat /\ Steps(c.job) >= Upserts(c.job)
  <2>1. /\ c.job \in Jobs /\ c.at \in Nat /\ c.at \in 1..(Steps(c.job) + 1)
        /\ Upserts(c.job) \in Nat /\ Steps(c.job) \in Nat /\ Steps(c.job) >= Upserts(c.job)
    BY <1>1, CallIsSound DEF IInv
  <2>2. QED
    BY <1>1, <2>1
<1>3. X \in [job : Jobs, at : Nat, missing : BOOLEAN] /\ X.job = c.job /\ X # None
      /\ (X.missing => X.at = c.at) /\ X.at \in {c.at, c.at + 1}
      /\ (X.at = c.at + 1 => View(p).rows[item.id] = item.payload)
  <2>1. CASE View(p).rows[item.id] = None
    <3>1. X = [job |-> c.job, at |-> c.at, missing |-> TRUE]
      BY <2>1
    <3> HIDE DEF X, c, item
    <3>2. X \in [job : Jobs, at : Nat, missing : BOOLEAN] /\ X # None
      BY <3>1, <1>2, RecordIsCall
    <3>3. X.job = c.job /\ X.at = c.at
      BY <3>1
    <3>4. c.at # c.at + 1
      BY <1>2
    <3>5. QED
      BY <3>2, <3>3, <3>4
  <2>2. CASE View(p).rows[item.id] # None
    <3>1. X = Advanced(c)
      BY <2>2
    <3> HIDE DEF X, c, item
    <3>2. X \in [job : Jobs, at : Nat, missing : BOOLEAN] /\ X # None
          /\ X.job = c.job /\ X.at = c.at + 1 /\ X.missing = FALSE
      BY <3>1, <1>2, AdvancedIsCall
    <3>4. View(p).rows[item.id] = item.payload
      BY <2>2, <1>1
    <3>5. QED
      BY <3>2, <3>4
  <2>3. QED
    BY <2>1, <2>2
<1> HIDE DEF X
<1>4. TypeOK'
  <2>1. X.at \in 1..(Steps(X.job) + 1)
    BY <1>2, <1>3
  <2>2. QED
    BY <1>1, <1>3, <2>1, TypeStep DEF IInv, TypeOK
<1>5. Progress'
  <2>1. \A q \in Processes : View(q)' = View(q)
    BY <1>1 DEF View
  <2>2. X.missing => X.at <= Upserts(X.job)
    BY <1>1, <1>3
  <2>3. ASSUME X.job.opportunity # None, X.at > Upserts(X.job)
        PROVE  View(p)'.rows[X.job.opportunity.id] = X.job.opportunity.payload
    <3>1. c.at = Upserts(c.job) /\ X.at = c.at + 1
      BY <2>3, <1>2, <1>3
    <3>2. item = c.job.opportunity
      BY <3>1, <2>3, <1>2, <1>3, ItemIsRow
    <3>3. QED
      BY <3>1, <3>2, <2>1, <1>3
  <2>4. QED
    BY <1>1, <2>1, <2>2, <2>3, ProgressStep DEF IInv
<1>6. Transaction'
  <2>1. CASE writer = p
    <3>1. p # None /\ ~Linking(c)
      BY <1>1, <1>2, NoneAssumption DEF Linking
    <3>2. Grown(db, work) /\ \A o \in Opportunities : WholeIn(work, o)
      BY <2>1, <3>1 DEF IInv, Transaction
    <3>3. call'[p] = X
      BY <1>1 DEF IInv, TypeOK
    <3>4. QED
      BY <1>1, <1>3, <2>1, <3>2, <3>3 DEF Transaction
  <2>2. CASE writer # p
    <3>1. writer # None => call'[writer] = call[writer]
      BY <1>1, <2>2 DEF IInv, TypeOK
    <3>2. QED
      BY <1>1, <3>1 DEF IInv, Transaction, Linking
  <2>3. QED
    BY <2>1, <2>2
<1>7. WholeOpportunities'
  BY <1>1 DEF IInv, WholeOpportunities
<1>8. QED
  BY <1>4, <1>5, <1>6, <1>7 DEF IInv

\* The INSERTs of _upsert.
LEMMA InsertStep ==
  ASSUME IInv, NEW p \in Processes, Insert(p)
  PROVE  IInv'
<1> DEFINE c == call[p]
           item == ItemAt(c.job, c.at)
           X == Advanced(c)
           d == View(p)
           e == WithRow(d, item)
<1>1. /\ c # None /\ c.missing /\ CanWrite(p)
      /\ d.rows[item.id] = None
      /\ work' = e /\ writer' = p
      /\ call' = [call EXCEPT ![p] = X]
      /\ UNCHANGED <<db, overlapped, acknowledged>>
  BY DEF Insert
<1>2. /\ c.job \in Jobs /\ c.at \in Nat /\ c.at \in 1..Upserts(c.job)
      /\ Upserts(c.job) \in Nat /\ Steps(c.job) \in Nat /\ Steps(c.job) >= Upserts(c.job)
  <2>1. /\ c.job \in Jobs /\ c.at \in Nat /\ c.at \in 1..(Steps(c.job) + 1)
        /\ Upserts(c.job) \in Nat /\ Steps(c.job) \in Nat /\ Steps(c.job) >= Upserts(c.job)
    BY <1>1, CallIsSound DEF IInv
  <2>2. c.at <= Upserts(c.job)
    BY <1>1 DEF IInv, Progress
  <2>3. QED
    BY <2>1, <2>2
<1>3. d \in Database /\ Grown(db, d) /\ \A o \in Opportunities : WholeIn(d, o)
  <2>1. ~Linking(c)
    BY <1>2 DEF Linking
  <2>2. QED
    BY <1>1, <2>1, ViewIsSound
<1>4. /\ item \in Item
      /\ item.id \in Quotes
         \/ (c.job.opportunity # None /\ item = c.job.opportunity /\ c.at = Upserts(c.job))
      /\ c.job.opportunity # None /\ c.at = Upserts(c.job) => item = c.job.opportunity
  BY <1>2, ItemIsRow
<1> HIDE DEF d
<1>5. /\ e \in Database
      /\ e.rows[item.id] = item.payload
      /\ Grown(db, e)
      /\ \A o \in Opportunities : o # item.id => WholeIn(e, o)
      /\ item.id \in Opportunities => Pending(e, item.id)
  BY <1>1, <1>3, <1>4, RowAdded DEF IInv, TypeOK
<1> HIDE DEF e, item
<1>6. X \in [job : Jobs, at : Nat, missing : BOOLEAN] /\ X # None
      /\ X.job = c.job /\ X.at = c.at + 1 /\ ~X.missing
  BY <1>2, AdvancedIsCall
<1> HIDE DEF X
<1>7. TypeOK'
  <2>1. X.at \in 1..(Steps(X.job) + 1)
    BY <1>2, <1>6
  <2>2. QED
    BY <1>1, <1>5, <1>6, <2>1, TypeStep DEF IInv, TypeOK
<1>8. p # None
  BY NoneAssumption
<1>9. Progress'
  <2>1. View(p)' = e
    BY <1>1 DEF View
  <2>2. \A q \in Processes : q # p => View(q)' = View(q)
    BY <1>1, <1>8, NoneAssumption DEF View, CanWrite
  <2>3. X.job.opportunity # None /\ X.at > Upserts(X.job)
          => View(p)'.rows[X.job.opportunity.id] = X.job.opportunity.payload
    <3>1. X.job.opportunity # None /\ X.at > Upserts(X.job) => item = c.job.opportunity
      BY <1>2, <1>4, <1>6
    <3>2. QED
      BY <3>1, <2>1, <1>5, <1>6
  <2>4. QED
    BY <1>1, <1>6, <2>2, <2>3, ProgressStep DEF IInv
<1>10. Transaction'
  <2>1. call'[p] = X
    BY <1>1 DEF IInv, TypeOK
  <2>2. ASSUME NEW o \in Opportunities
        PROVE  \/ WholeIn(e, o)
               \/ Linking(X) /\ o = X.job.opportunity.id /\ Pending(e, o)
    <3>1. CASE o = item.id
      <4>1. item.id \notin Quotes
        BY <3>1, IdsAssumption
      <4>2. Linking(X)
        BY <4>1, <1>4, <1>6 DEF Linking
      <4>3. QED
        BY <3>1, <4>1, <4>2, <1>4, <1>5, <1>6
    <3>2. CASE o # item.id
      BY <3>2, <1>5
    <3>3. QED
      BY <3>1, <3>2
  <2>3. QED
    BY <1>1, <1>5, <1>6, <2>1, <2>2 DEF Transaction
<1>11. WholeOpportunities'
  BY <1>1 DEF IInv, WholeOpportunities
<1>12. QED
  BY <1>7, <1>9, <1>10, <1>11 DEF IInv

\* The links and the plan of persist_opportunity.
LEMMA LinkEvidenceStep ==
  ASSUME IInv, NEW p \in Processes, LinkEvidence(p)
  PROVE  IInv'
<1> DEFINE c == call[p]
           x == c.job.opportunity
           X == Advanced(c)
           d == View(p)
           l == WithLinks(d, c.job)
           e == IF c.job.plan = None THEN l ELSE PlanStored(l, c.job)
<1>1. /\ c # None /\ CanWrite(p) /\ x # None /\ c.at = Upserts(c.job) + 1
      /\ c.job.plan # None => PlanFits(l, c.job)
      /\ work' = e /\ writer' = p
      /\ call' = [call EXCEPT ![p] = X]
      /\ UNCHANGED <<db, overlapped, acknowledged>>
  BY DEF LinkEvidence, Linking
<1>2. /\ c.job \in Jobs /\ c.at \in Nat /\ Upserts(c.job) \in Nat /\ Steps(c.job) = Upserts(c.job) + 1
  <2>1. c.job \in Jobs /\ c.at \in Nat /\ Upserts(c.job) \in Nat
    BY <1>1, CallIsSound DEF IInv
  <2>2. QED
    BY <1>1, <2>1, StepsOfOpportunity
<1>3. /\ d \in Database /\ Grown(db, d)
      /\ \A o \in Opportunities : WholeIn(d, o) \/ (o = x.id /\ Pending(d, o))
  BY <1>1, ViewIsSound
<1>4. d.rows[x.id] = x.payload /\ x.id \in Opportunities /\ x.payload # None
  <2>1. d.rows[x.id] = x.payload
    <3>1. c.at > Upserts(c.job)
      BY <1>1, <1>2
    <3>2. QED
      BY <1>1, <3>1 DEF IInv, Progress
  <2>2. x \in [id : Opportunities, payload : Payloads]
    BY <1>1, <1>2, JobIsSound
  <2>3. QED
    BY <2>1, <2>2, NoneAssumption
<1> HIDE DEF d
<1>5. /\ l \in Database /\ l.rows = d.rows /\ Grown(db, l)
      /\ \A o \in Opportunities : WholeIn(l, o)
  BY <1>1, <1>2, <1>3, <1>4, LinksAdded DEF IInv, TypeOK
<1> HIDE DEF l
<1>6. /\ e \in Database /\ Grown(db, e)
      /\ e.rows[x.id] = x.payload
      /\ \A o \in Opportunities : WholeIn(e, o)
  <2>1. CASE c.job.plan = None
    BY <2>1, <1>4, <1>5
  <2>2. CASE c.job.plan # None
    <3>1. e = PlanStored(l, c.job)
      BY <2>2
    <3>2. l.rows[c.job.opportunity.id] # None
      BY <1>4, <1>5
    <3>3. QED
      BY <2>2, <3>1, <3>2, <1>1, <1>2, <1>4, <1>5, PlanAdded DEF IInv, TypeOK
  <2>3. QED
    BY <2>1, <2>2
<1> HIDE DEF e
<1>7. X \in [job : Jobs, at : Nat, missing : BOOLEAN] /\ X # None
      /\ X.job = c.job /\ X.at = c.at + 1 /\ ~X.missing
  BY <1>2, AdvancedIsCall
<1> HIDE DEF X
<1>8. TypeOK'
  <2>1. X.at \in 1..(Steps(X.job) + 1)
    BY <1>1, <1>2, <1>7
  <2>2. QED
    BY <1>1, <1>6, <1>7, <2>1, TypeStep DEF IInv, TypeOK
<1>9. Progress'
  <2>1. View(p)' = e
    BY <1>1 DEF View
  <2>2. \A q \in Processes : q # p => View(q)' = View(q)
    BY <1>1, NoneAssumption DEF View, CanWrite
  <2>3. View(p)'.rows[X.job.opportunity.id] = X.job.opportunity.payload
    BY <2>1, <1>6, <1>7
  <2>4. QED
    BY <1>1, <1>7, <2>2, <2>3, ProgressStep DEF IInv
<1>10. Transaction'
  <2>1. call'[p] = X
    BY <1>1 DEF IInv, TypeOK
  <2>2. QED
    BY <1>1, <1>6, <1>7, <2>1 DEF Transaction
<1>11. WholeOpportunities'
  BY <1>1 DEF IInv, WholeOpportunities
<1>12. QED
  BY <1>8, <1>9, <1>10, <1>11 DEF IInv

\* The end of a call, by commit or by rollback, is the end of its transaction.
LEMMA EndStep ==
  ASSUME IInv, NEW p \in Processes, call[p] # None,
         writer' = IF writer = p THEN None ELSE writer,
         call' = [call EXCEPT ![p] = None],
         work' = work, overlapped' = overlapped,
         acknowledged' \subseteq [job : Jobs, purged : BOOLEAN],
         db' = db \/ (writer = p /\ db' = work /\ \A o \in Opportunities : WholeIn(work, o))
  PROVE  IInv'
<1>1. TypeOK'
  BY TypeStep DEF IInv, TypeOK
<1>2. Progress'
  <2>1. ASSUME NEW q \in Processes, q # p, NEW o \in Opportunities, View(q).rows[o] # None
        PROVE  View(q)'.rows[o] = View(q).rows[o]
    <3>1. CASE db' = db
      <4>1. View(q)' = View(q)
        BY <2>1, <3>1, NoneAssumption DEF View
      <4>2. QED
        BY <4>1
    <3>2. CASE writer = p /\ db' = work
      <4>1. View(q) = db /\ View(q)' = work
        BY <2>1, <3>2, NoneAssumption DEF View
      <4>2. Grown(db, work) /\ o \in Ids
        BY <3>2, NoneAssumption DEF IInv, Transaction, Ids
      <4>3. QED
        BY <2>1, <4>1, <4>2 DEF Grown
    <3>3. QED
      BY <3>1, <3>2
  <2>2. QED
    BY <2>1, ProgressStep DEF IInv
<1>3. Transaction'
  <2>1. CASE writer = p
    BY <2>1 DEF Transaction
  <2>2. CASE writer # p
    <3>1. writer # None => call'[writer] = call[writer]
      BY <2>2 DEF IInv, TypeOK
    <3>2. QED
      BY <2>2, <3>1 DEF IInv, Transaction, Linking
  <2>3. QED
    BY <2>1, <2>2
<1>4. WholeOpportunities'
  BY DEF IInv, WholeOpportunities
<1>5. QED
  BY <1>1, <1>2, <1>3, <1>4 DEF IInv

\* At the commit of a transaction every opportunity is whole.
LEMMA CommitIsWhole ==
  ASSUME IInv, NEW p \in Processes, Commit(p)
  PROVE  /\ db' = db \/ (writer = p /\ db' = work)
         /\ writer = p => \A o \in Opportunities : WholeIn(work, o)
<1>1. call[p] # None /\ call[p].at = Steps(call[p].job) + 1 /\ db' = View(p)
  BY DEF Commit, Done
<1>2. call[p].job \in Jobs /\ Upserts(call[p].job) \in Nat
  BY <1>1, CallIsSound DEF IInv
<1>3. ~Linking(call[p])
  <2>1. call[p].job.opportunity # None => Steps(call[p].job) = Upserts(call[p].job) + 1
    BY <1>2, StepsOfOpportunity
  <2>2. QED
    BY <1>1, <1>2, <2>1 DEF Linking
<1>4. QED
  BY <1>1, <1>3, NoneAssumption DEF IInv, Transaction, View

\* The commit.
LEMMA CommitStep ==
  ASSUME IInv, NEW p \in Processes, Commit(p)
  PROVE  IInv'
<1>1. call[p] # None /\ call[p].job \in Jobs
  BY CallIsSound DEF Commit, IInv
<1>2. /\ writer' = IF writer = p THEN None ELSE writer
      /\ call' = [call EXCEPT ![p] = None]
      /\ work' = work
      /\ overlapped' = overlapped
      /\ \/ acknowledged' = acknowledged
         \/ acknowledged' = acknowledged \cup {[job |-> call[p].job, purged |-> p \in overlapped]}
  BY DEF Commit
<1>3. acknowledged' \subseteq [job : Jobs, purged : BOOLEAN]
  <2>1. [job |-> call[p].job, purged |-> p \in overlapped] \in [job : Jobs, purged : BOOLEAN]
    BY <1>1
  <2>2. QED
    BY <1>2, <2>1 DEF IInv, TypeOK
<1>4. QED
  BY <1>1, <1>2, <1>3, CommitIsWhole, EndStep

\* A failure or a crash.
LEMMA AbortStep ==
  ASSUME IInv, NEW p \in Processes, Abort(p)
  PROVE  IInv'
<1>1. /\ call[p] # None
      /\ writer' = IF writer = p THEN None ELSE writer
      /\ call' = [call EXCEPT ![p] = None]
      /\ db' = db /\ work' = work
      /\ overlapped' = overlapped /\ acknowledged' = acknowledged
  BY DEF Abort
<1>2. acknowledged' \subseteq [job : Jobs, purged : BOOLEAN]
  BY <1>1 DEF IInv, TypeOK
<1>3. QED
  BY <1>1, <1>2, EndStep

\* purge_quotes_before removes rows of quotes that no link mentions.
LEMMA PurgeIsSafe ==
  ASSUME IInv, NEW p \in Processes, NEW cutoff \in Cutoffs, Purge(p, cutoff)
  PROVE  /\ db' \in Database
         /\ db'.created = db.created /\ db'.links = db.links /\ db'.plans = db.plans
         /\ \A i \in Ids : db'.rows[i] = db.rows[i]
                         \/ (i \in Quotes /\ db'.rows[i] = None /\ \A link \in db.links : link.quote # i)
         /\ \A i \in Opportunities \cup Plans : db'.rows[i] = db.rows[i]
<1>1. db' = [rows |-> [i \in Ids |-> IF i \in Purgeable(cutoff) THEN None ELSE db.rows[i]],
             created |-> db.created, links |-> db.links, plans |-> db.plans]
  BY DEF Purge
<1>2. /\ db.rows \in [Ids -> Payloads \cup {None}] /\ db.created \in [Ids -> Nat]
      /\ db.links \in SUBSET Link /\ db.plans \in [Opportunities -> Plans \cup {None}]
  BY DEF IInv, TypeOK, Database
<1>3. \A i \in Purgeable(cutoff) : i \in Quotes /\ \A link \in db.links : link.quote # i
  BY DEF Purgeable
<1>4. db' \in Database
  <2>1. [i \in Ids |-> IF i \in Purgeable(cutoff) THEN None ELSE db.rows[i]]
          \in [Ids -> Payloads \cup {None}]
    BY <1>2
  <2>2. QED
    BY <1>1, <1>2, <2>1 DEF Database
<1>5. \A i \in Ids : db'.rows[i] = IF i \in Purgeable(cutoff) THEN None ELSE db.rows[i]
  BY <1>1
<1>6. QED
  BY <1>1, <1>3, <1>4, <1>5, IdsAssumption DEF Ids

\* Retention.
LEMMA PurgeStep ==
  ASSUME IInv, NEW p \in Processes, NEW cutoff \in Cutoffs, Purge(p, cutoff)
  PROVE  IInv'
<1>1. /\ writer = None /\ UNCHANGED <<writer, work, call, acknowledged>>
      /\ overlapped' = {q \in Processes : call[q] # None} \cup overlapped
  BY DEF Purge
<1>2. TypeOK'
  BY <1>1, PurgeIsSafe DEF IInv, TypeOK
<1>3. Progress'
  <2>1. \A q \in Processes : View(q) = db /\ View(q)' = db'
    BY <1>1, NoneAssumption DEF View
  <2>2. \A q \in Processes : \A o \in Opportunities : View(q)'.rows[o] = View(q).rows[o]
    BY <2>1, PurgeIsSafe
  <2>3. call' = [call EXCEPT ![p] = call[p]]
    BY <1>1 DEF IInv, TypeOK
  <2>4. call[p] = None
    BY DEF Purge
  <2>5. QED
    BY <2>2, <2>3, <2>4, ProgressStep DEF IInv
<1>4. Transaction'
  BY <1>1 DEF Transaction
<1>5. ASSUME NEW o \in Opportunities PROVE WholeIn(db', o)
  <2>1. WholeIn(db, o)
    BY DEF IInv, WholeOpportunities
  <2>2. LinksOf(db', o) = LinksOf(db, o) /\ db'.rows[o] = db.rows[o] /\ db'.plans[o] = db.plans[o]
    BY PurgeIsSafe DEF LinksOf
  <2>3. db.plans[o] # None => db'.rows[db.plans[o]] = db.rows[db.plans[o]]
    <3>1. db.plans[o] \in Plans \cup {None}
      BY DEF IInv, TypeOK, Database
    <3>2. QED
      BY <3>1, PurgeIsSafe
  <2>4. QED
    BY <2>1, <2>2, <2>3 DEF WholeIn
<1>6. QED
  BY <1>2, <1>3, <1>4, <1>5 DEF IInv, WholeOpportunities

-----------------------------------------------------------------------------
(* The theorems.                                                           *)

\* The invariant is inductive: whatever statements of any processes follow
\* each other, the database and the open transaction stay sound.
THEOREM Invariance == Spec => []IInv
<1>1. IInv /\ [Next]_vars => IInv'
  <2> SUFFICES ASSUME IInv, [Next]_vars PROVE IInv'
    OBVIOUS
  <2>1. CASE Next
    <3>1. PICK p \in Processes :
            \/ \E job \in Jobs : Begin(p, job)
            \/ Lookup(p) \/ Insert(p) \/ LinkEvidence(p) \/ Commit(p) \/ Abort(p)
            \/ \E cutoff \in Cutoffs : Purge(p, cutoff)
      BY <2>1 DEF Next
    <3>2. QED
      BY <3>1, BeginStep, LookupStep, InsertStep, LinkEvidenceStep, CommitStep, AbortStep, PurgeStep
  <2>2. CASE UNCHANGED vars
    BY <2>2 DEF IInv, TypeOK, WholeOpportunities, Transaction, Progress, View, vars, Linking
  <2>3. QED
    BY <2>1, <2>2
<1>2. QED
  BY <1>1, InitIInv, PTL DEF Spec

\* The tables hold rows of their schema, and every call has an end.
THEOREM TypeCorrect == Spec => []TypeOK
<1>1. IInv => TypeOK
  BY DEF IInv
<1>2. QED
  BY <1>1, Invariance, PTL

\* persist_opportunity is atomic: an opportunity is committed with exactly its
\* links and the row of its plan, or not at all, whatever fails or overlaps.
THEOREM OpportunitiesAreWhole == Spec => []WholeOpportunities
<1>1. IInv => WholeOpportunities
  BY DEF IInv
<1>2. QED
  BY <1>1, Invariance, PTL

\* What a step does to the committed database.
LEMMA DatabaseStep ==
  ASSUME IInv, [Next]_vars
  PROVE  \/ db' = db
         \/ Grown(db, db')
         \/ \E p \in Processes, cutoff \in Cutoffs : Purge(p, cutoff)
<1>1. CASE UNCHANGED vars
  BY <1>1 DEF vars
<1>2. CASE Next
  <2>1. PICK p \in Processes :
          \/ \E job \in Jobs : Begin(p, job)
          \/ Lookup(p) \/ Insert(p) \/ LinkEvidence(p) \/ Commit(p) \/ Abort(p)
          \/ \E cutoff \in Cutoffs : Purge(p, cutoff)
    BY <1>2 DEF Next
  <2>2. CASE Commit(p)
    BY <2>2, CommitIsWhole, NoneAssumption DEF IInv, Transaction
  <2>3. CASE \/ \E job \in Jobs : Begin(p, job)
             \/ Lookup(p) \/ Insert(p) \/ LinkEvidence(p) \/ Abort(p)
    BY <2>3 DEF Begin, Lookup, Insert, LinkEvidence, Abort
  <2>4. QED
    BY <2>1, <2>2, <2>3
<1>3. QED
  BY <1>1, <1>2

\* No call of any process, retention included, makes an opportunity that could
\* be reconstructed one that cannot (purge_quotes_before, persist_opportunity).
THEOREM EvidenceIsProtected == Spec => EvidenceProtected
<1>1. IInv /\ IInv' /\ [Next]_vars =>
        \A o \in Opportunities : Reconstructs(db, o) => Reconstructs(db, o)'
  <2> SUFFICES ASSUME IInv, IInv', [Next]_vars,
                      NEW o \in Opportunities, Reconstructs(db, o)
               PROVE  Reconstructs(db', o)
    BY DEF Reconstructs, LinksOf, EvidenceLinks
  <2>1. /\ db.rows[o] # None
        /\ LinksOf(db, o) = EvidenceLinks(o, db.rows[o])
        /\ \A link \in LinksOf(db, o) : db.rows[link.quote] # None
        /\ db.plans[o] # None => db.rows[db.plans[o]] # None
    BY DEF Reconstructs
  <2>2. WholeIn(db', o)
    BY DEF IInv, WholeOpportunities
  <2>3. \A link \in LinksOf(db, o) : link.quote \in Quotes /\ link \in db.links
    <3>1. db.links \subseteq Link
      BY DEF IInv, TypeOK, Database
    <3>2. QED
      BY <3>1 DEF LinksOf, Link
  <2>4. /\ db'.rows[o] = db.rows[o]
        /\ \A link \in LinksOf(db, o) : db'.rows[link.quote] # None
    <3>1. CASE db' = db
      BY <3>1, <2>1
    <3>2. CASE Grown(db, db')
      BY <3>2, <2>1, <2>3 DEF Grown, Ids
    <3>3. CASE \E p \in Processes, cutoff \in Cutoffs : Purge(p, cutoff)
      BY <3>3, <2>1, <2>3, PurgeIsSafe DEF Ids
    <3>4. QED
      BY <3>1, <3>2, <3>3, DatabaseStep
  <2>5. LinksOf(db', o) = LinksOf(db, o)
    BY <2>1, <2>2, <2>4 DEF WholeIn
  <2>6. db'.plans[o] # None => db'.rows[db'.plans[o]] # None
    BY <2>1, <2>2, <2>4 DEF WholeIn
  <2>7. QED
    BY <2>1, <2>4, <2>5, <2>6 DEF Reconstructs
<1>2. QED
  BY <1>1, Invariance, PTL DEF Spec, EvidenceProtected

\* One creation event per row that comes up, none besides, and no row ever
\* changes its content (_upsert).
THEOREM AuditTrailIsComplete == Spec => AuditTrail
<1>1. IInv /\ [Next]_vars =>
        \A i \in Ids :
          LET old == db.rows[i]
              new == db.rows[i]' IN
          /\ db.created[i]' = db.created[i] + (IF old = None /\ new # None THEN 1 ELSE 0)
          /\ old # None => new \in {old, None}
  <2> SUFFICES ASSUME IInv, [Next]_vars, NEW i \in Ids
               PROVE  /\ db'.created[i] = db.created[i]
                           + (IF db.rows[i] = None /\ db'.rows[i] # None THEN 1 ELSE 0)
                      /\ db.rows[i] # None => db'.rows[i] \in {db.rows[i], None}
    OBVIOUS
  <2>1. db.created[i] \in Nat
    BY DEF IInv, TypeOK, Database
  <2>2. CASE db' = db
    BY <2>1, <2>2
  <2>3. CASE Grown(db, db')
    BY <2>3 DEF Grown
  <2>4. CASE \E p \in Processes, cutoff \in Cutoffs : Purge(p, cutoff)
    BY <2>1, <2>4, PurgeIsSafe
  <2>5. QED
    BY <2>2, <2>3, <2>4, DatabaseStep
<1>2. QED
  BY <1>1, Invariance, PTL DEF Spec, AuditTrail

-----------------------------------------------------------------------------
(* Auditability of the calls that no retention overlapped.                 *)

\* A stored plan is the plan of the opportunity that has it.
PlansBelong(d) ==
  \A o \in Opportunities :
    d.plans[o] # None => d.rows[d.plans[o]] # None /\ OpportunityOf[d.rows[d.plans[o]]] = o

\* Nothing of d is lost in e.
Later(d, e) ==
  /\ \A i \in Ids : d.rows[i] # None => e.rows[i] = d.rows[i]
  /\ \A o \in Opportunities : d.plans[o] # None => e.plans[o] = d.plans[o]

\* The quotes a call has gone through are stored as it has them.
QuotesSeen(d, c) ==
  \A i \in DOMAIN c.job.quotes : i < c.at => d.rows[c.job.quotes[i].id] = c.job.quotes[i].payload

PlanKept(d, job) == d.plans[job.opportunity.id] = job.plan.id /\ d.rows[job.plan.id] = job.plan.payload

\* So is its plan, once it has linked.
PlanSeen(d, c) == c.job.plan # None /\ c.at > Upserts(c.job) + 1 => PlanKept(d, c.job)

Seen ==
  \A p \in Processes :
    call[p] # None => /\ p \notin overlapped => QuotesSeen(View(p), call[p])
                      /\ PlanSeen(View(p), call[p])

PlansInv == PlansBelong(db) /\ (writer # None => PlansBelong(work) /\ Later(db, work))

AuditInv ==
  /\ PlansInv /\ Seen /\ AuditableUnlessOverlapped
  /\ \A ack \in acknowledged : ack.job.opportunity # None

\* What a call has seen is still there in a later database.
LEMMA SeenLater ==
  ASSUME NEW d, NEW e, Later(d, e), NEW c, c.job \in Jobs
  PROVE  /\ QuotesSeen(d, c) => QuotesSeen(e, c)
         /\ PlanSeen(d, c) => PlanSeen(e, c)
<1>1. ASSUME QuotesSeen(d, c) PROVE QuotesSeen(e, c)
  <2> SUFFICES ASSUME NEW i \in DOMAIN c.job.quotes, i < c.at
               PROVE  e.rows[c.job.quotes[i].id] = c.job.quotes[i].payload
    BY DEF QuotesSeen
  <2>1. c.job.quotes[i] \in [id : Quotes, payload : Payloads]
    BY JobIsSound
  <2>2. c.job.quotes[i].id \in Ids /\ c.job.quotes[i].payload # None
    BY <2>1, NoneAssumption DEF Ids
  <2>3. d.rows[c.job.quotes[i].id] = c.job.quotes[i].payload
    BY <1>1 DEF QuotesSeen
  <2>4. QED
    BY <2>2, <2>3 DEF Later
<1>2. ASSUME PlanKept(d, c.job), c.job.plan # None PROVE PlanKept(e, c.job)
  <2>1. /\ c.job.plan \in [id : Plans, payload : Payloads]
        /\ c.job.opportunity \in [id : Opportunities, payload : Payloads]
    BY <1>2, JobIsSound
  <2>2. /\ c.job.plan.id \in Ids /\ c.job.plan.id # None /\ c.job.plan.payload # None
        /\ c.job.opportunity.id \in Opportunities
    BY <2>1, NoneAssumption DEF Ids
  <2>3. QED
    BY <1>2, <2>2 DEF Later, PlanKept
<1>3. QED
  BY <1>1, <1>2 DEF PlanSeen

\* _upsert on a missing row.
LEMMA RowLater ==
  ASSUME NEW d \in Database, NEW item \in Item, d.rows[item.id] = None, PlansBelong(d)
  PROVE  LET e == WithRow(d, item) IN
         /\ Later(d, e) /\ PlansBelong(e)
         /\ \A b : Later(b, d) => Later(b, e)
<1> DEFINE e == WithRow(d, item)
<1>1. e.plans = d.plans
  BY DEF WithRow
<1>2. \A i \in Ids : i # item.id => e.rows[i] = d.rows[i]
  BY RowAdded
<1>3. \A o \in Opportunities : d.plans[o] # None => d.plans[o] \in Ids
  BY DEF Database, Ids
<1> HIDE DEF e
<1>4. Later(d, e)
  BY <1>1, <1>2 DEF Later
<1>5. PlansBelong(e)
  BY <1>1, <1>2, <1>3 DEF PlansBelong
<1>6. ASSUME NEW b, Later(b, d) PROVE Later(b, e)
  BY <1>4, <1>6 DEF Later
<1>7. QED
  BY <1>4, <1>5, <1>6 DEF e

\* Linking, and a plan that fits. INSERT OR IGNORE skips a plan only if the
\* opportunity has that very plan.
LEMMA PlanLater ==
  ASSUME NEW d \in Database, NEW job \in Jobs, job.plan # None, PlanFits(d, job), PlansBelong(d)
  PROVE  LET e == PlanStored(d, job) IN
         /\ PlansBelong(e) /\ PlanKept(e, job)
         /\ \A b : Later(b, d) => Later(b, e)
<1> DEFINE x == job.opportunity.id
           c == IF d.rows[job.plan.id] = None THEN WithRow(d, job.plan) ELSE d
           e == WithPlan(c, job)
<1>1. /\ x \in Opportunities /\ job.plan.id \in Plans /\ job.plan.id # None
      /\ job.plan \in Item /\ job.plan.payload # None
      /\ OpportunityOf[job.plan.payload] = x
  <2>1. /\ job.plan \in [id : Plans, payload : Payloads]
        /\ job.opportunity \in [id : Opportunities, payload : Payloads]
    BY JobIsSound
  <2>2. OpportunityOf[job.plan.payload] = x
    BY JobsAssumption DEF Job
  <2>3. QED
    BY <2>1, <2>2, NoneAssumption DEF Item, Ids
<1>2. /\ PlansBelong(c) /\ c.plans = d.plans /\ c.rows[job.plan.id] = job.plan.payload
      /\ \A b : Later(b, d) => Later(b, c)
  <2>1. CASE d.rows[job.plan.id] = None
    <3>1. c = WithRow(d, job.plan)
      BY <2>1
    <3>2. c.plans = d.plans
      BY <3>1 DEF WithRow
    <3>3. c.rows[job.plan.id] = job.plan.payload
      BY <2>1, <3>1, <1>1, RowAdded
    <3>4. PlansBelong(c) /\ \A b : Later(b, d) => Later(b, c)
      BY <2>1, <3>1, <1>1, RowLater
    <3>5. QED
      BY <3>2, <3>3, <3>4
  <2>2. CASE d.rows[job.plan.id] # None
    BY <2>2 DEF PlanFits
  <2>3. QED
    BY <2>1, <2>2
<1>3. c.plans \in [Opportunities -> Plans \cup {None}] /\ c.plans[x] \in {None, job.plan.id}
  BY <1>2 DEF Database, PlanFits
<1> HIDE DEF c
<1>4. e.rows = c.rows
      /\ e.plans = IF c.plans[x] # None \/ \E o \in Opportunities : c.plans[o] = job.plan.id
                   THEN c.plans ELSE [c.plans EXCEPT ![x] = job.plan.id]
  BY DEF WithPlan
<1>5. \A o \in Opportunities : c.plans[o] = job.plan.id => o = x
  BY <1>1, <1>2 DEF PlansBelong
<1>6. \/ e.plans = c.plans /\ c.plans[x] = job.plan.id
      \/ c.plans[x] = None /\ e.plans = [c.plans EXCEPT ![x] = job.plan.id]
  BY <1>1, <1>3, <1>4, <1>5
<1> HIDE DEF e
<1>7. PlanKept(e, job)
  BY <1>1, <1>2, <1>3, <1>4, <1>6 DEF PlanKept
<1>8. PlansBelong(e)
  <2> SUFFICES ASSUME NEW o \in Opportunities, e.plans[o] # None
               PROVE  e.rows[e.plans[o]] # None /\ OpportunityOf[e.rows[e.plans[o]]] = o
    BY DEF PlansBelong
  <2>1. CASE o = x
    <3>1. e.plans[o] = job.plan.id
      BY <2>1, <1>1, <1>3, <1>6
    <3>2. QED
      BY <2>1, <3>1, <1>1, <1>2, <1>4
  <2>2. CASE o # x
    <3>1. e.plans[o] = c.plans[o]
      BY <2>2, <1>3, <1>6
    <3>2. QED
      BY <3>1, <1>2, <1>4 DEF PlansBelong
  <2>3. QED
    BY <2>1, <2>2
<1>9. ASSUME NEW b, Later(b, d) PROVE Later(b, e)
  <2>1. Later(b, c)
    BY <1>2, <1>9
  <2>2. \A o \in Opportunities : c.plans[o] # None => e.plans[o] = c.plans[o]
    BY <1>3, <1>6
  <2>3. QED
    BY <2>1, <2>2, <1>4 DEF Later
<1>10. PlanStored(d, job) = e
  BY DEF PlanStored, c, e
<1>11. QED
  BY <1>7, <1>8, <1>9, <1>10

\* A step that changes one call keeps what the others have seen, if their views
\* only grow.
LEMMA SeenStep ==
  ASSUME TypeOK, Seen, NEW p \in Processes, NEW X, call' = [call EXCEPT ![p] = X],
         \A q \in Processes : q # p /\ q \notin overlapped' => q \notin overlapped,
         X # None => /\ p \notin overlapped' => QuotesSeen(View(p)', X)
                     /\ PlanSeen(View(p)', X),
         \A q \in Processes : q # p => Later(View(q), View(q)')
  PROVE  Seen'
<1> SUFFICES ASSUME NEW q \in Processes, call'[q] # None
             PROVE  /\ q \notin overlapped' => QuotesSeen(View(q)', call'[q])
                    /\ PlanSeen(View(q)', call'[q])
  BY DEF Seen, QuotesSeen, PlanSeen, PlanKept, Upserts
<1>1. CASE q = p
  <2>1. call'[q] = X
    BY <1>1 DEF TypeOK
  <2>2. QED
    BY <1>1, <2>1
<1>2. CASE q # p
  <2>1. call'[q] = call[q] /\ call[q] # None
    BY <1>2 DEF TypeOK
  <2>2. call[q].job \in Jobs
    BY <2>1, CallIsSound
  <2>3. Later(View(q), View(q)')
    BY <1>2
  <2>4. /\ q \notin overlapped' => QuotesSeen(View(q), call[q])
        /\ PlanSeen(View(q), call[q])
    BY <1>2, <2>1 DEF Seen
  <2>5. QED
    BY <2>1, <2>2, <2>3, <2>4, SeenLater
<1>3. QED
  BY <1>1, <1>2

\* Nothing is lost between a database and itself.
LEMMA LaterReflexive == ASSUME NEW d PROVE Later(d, d)
BY DEF Later

\* What a process sees is later than what is committed.
LEMMA ViewIsLater ==
  ASSUME PlansInv, NEW p \in Processes
  PROVE  PlansBelong(View(p)) /\ Later(db, View(p))
<1>1. CASE writer = p
  <2>1. View(p) = work /\ writer # None
    BY <1>1, NoneAssumption DEF View
  <2>2. QED
    BY <2>1 DEF PlansInv
<1>2. CASE writer # p
  <2>1. View(p) = db
    BY <1>2 DEF View
  <2>2. QED
    BY <2>1, LaterReflexive DEF PlansInv
<1>3. QED
  BY <1>1, <1>2

\* The first statement of a call.
LEMMA BeginAudit ==
  ASSUME IInv, AuditInv, NEW p \in Processes, NEW job \in Jobs, Begin(p, job)
  PROVE  AuditInv'
<1> DEFINE X == [job |-> job, at |-> 1, missing |-> FALSE]
<1>1. /\ call' = [call EXCEPT ![p] = X] /\ overlapped' = overlapped \ {p}
      /\ UNCHANGED <<db, writer, work, acknowledged>>
  BY DEF Begin
<1>2. \A q \in Processes : View(q)' = View(q)
  BY <1>1 DEF View
<1>3. QuotesSeen(View(p)', X)
  <2>1. \A i \in DOMAIN job.quotes : ~(i < 1)
    <3>1. DOMAIN job.quotes = 1..Len(job.quotes)
      BY JobIsSound
    <3>2. QED
      BY <3>1
  <2>2. QED
    BY <2>1 DEF QuotesSeen
<1>4. PlanSeen(View(p)', X)
  <2>1. Upserts(job) \in Nat
    BY JobIsSound
  <2>2. QED
    BY <2>1 DEF PlanSeen
<1>5. Seen'
  BY <1>1, <1>2, <1>3, <1>4, SeenStep, LaterReflexive DEF IInv, AuditInv
<1>6. PlansInv' /\ AuditableUnlessOverlapped'
  BY <1>1 DEF AuditInv, PlansInv, AuditableUnlessOverlapped
<1>7. QED
  BY <1>1, <1>5, <1>6 DEF AuditInv

\* A call that has just found or inserted a row has seen one quote more.
LEMMA ItemSeen ==
  ASSUME NEW c, c.job \in Jobs, c.at \in 1..Upserts(c.job), NEW d, QuotesSeen(d, c),
         d.rows[ItemAt(c.job, c.at).id] = ItemAt(c.job, c.at).payload
  PROVE  QuotesSeen(d, Advanced(c)) /\ PlanSeen(d, Advanced(c))
<1>1. c.at \in Nat /\ Upserts(c.job) \in Nat /\ c.at <= Upserts(c.job)
  <2>1. Upserts(c.job) \in Nat
    BY JobIsSound
  <2>2. QED
    BY <2>1
<1>2. Advanced(c).job = c.job /\ Advanced(c).at = c.at + 1
  BY DEF Advanced
<1>3. ASSUME NEW i \in DOMAIN c.job.quotes, i < c.at + 1
      PROVE  d.rows[c.job.quotes[i].id] = c.job.quotes[i].payload
  <2>1. i \in Nat /\ i <= Len(c.job.quotes)
    <3>1. DOMAIN c.job.quotes = 1..Len(c.job.quotes) /\ Len(c.job.quotes) \in Nat
      BY JobIsSound
    <3>2. QED
      BY <3>1
  <2>2. CASE i = c.at
    <3>1. ItemAt(c.job, c.at) = c.job.quotes[i]
      BY <2>1, <2>2 DEF ItemAt
    <3>2. QED
      BY <3>1
  <2>3. CASE i < c.at
    BY <2>3 DEF QuotesSeen
  <2>4. QED
    BY <1>1, <1>3, <2>1, <2>2, <2>3
<1>4. ~(c.at + 1 > Upserts(c.job) + 1)
  BY <1>1
<1>5. QED
  BY <1>2, <1>3, <1>4 DEF QuotesSeen, PlanSeen

\* The SELECT of _upsert.
LEMMA LookupAudit ==
  ASSUME IInv, AuditInv, NEW p \in Processes, Lookup(p)
  PROVE  AuditInv'
<1> DEFINE c == call[p]
           item == ItemAt(c.job, c.at)
           X == IF View(p).rows[item.id] = None
                THEN [job |-> c.job, at |-> c.at, missing |-> TRUE] ELSE Advanced(c)
<1>1. /\ c # None /\ c.at <= Upserts(c.job)
      /\ View(p).rows[item.id] \in {None, item.payload}
      /\ call' = [call EXCEPT ![p] = X]
      /\ UNCHANGED <<db, writer, work, overlapped, acknowledged>>
  BY DEF Lookup
<1>2. \A q \in Processes : View(q)' = View(q)
  BY <1>1 DEF View
<1>3. c.job \in Jobs /\ c.at \in 1..Upserts(c.job) /\ PlanSeen(View(p), c)
      /\ (p \notin overlapped => QuotesSeen(View(p), c))
  <2>1. c.job \in Jobs /\ c.at \in 1..(Steps(c.job) + 1) /\ Upserts(c.job) \in Nat
    BY <1>1, CallIsSound DEF IInv
  <2>2. c.at \in 1..Upserts(c.job)
    BY <1>1, <2>1
  <2>3. QED
    BY <1>1, <2>1, <2>2 DEF AuditInv, Seen
<1>4. (p \notin overlapped => QuotesSeen(View(p), X)) /\ PlanSeen(View(p), X)
  <2>1. CASE View(p).rows[item.id] = None
    <3>1. X.job = c.job /\ X.at = c.at
      BY <2>1
    <3> HIDE DEF X
    <3>2. QED
      BY <3>1, <1>3 DEF QuotesSeen, PlanSeen
  <2>2. CASE View(p).rows[item.id] # None
    <3>1. X = Advanced(c) /\ View(p).rows[item.id] = item.payload
      BY <2>2, <1>1
    <3>2. p \notin overlapped => QuotesSeen(View(p), Advanced(c))
      BY <3>1, <1>3, ItemSeen
    <3>3. PlanSeen(View(p), Advanced(c))
      <4>1. Upserts(c.job) \in Nat
        BY <1>3, JobIsSound
      <4>2. QED
        BY <4>1, <1>3 DEF PlanSeen, Advanced
    <3>4. QED
      BY <3>1, <3>2, <3>3
  <2>3. QED
    BY <2>1, <2>2
<1> HIDE DEF X
<1>5. Seen'
  BY <1>1, <1>2, <1>4, SeenStep, LaterReflexive DEF IInv, AuditInv
<1>6. PlansInv' /\ AuditableUnlessOverlapped'
  BY <1>1 DEF AuditInv, PlansInv, AuditableUnlessOverlapped
<1>7. QED
  BY <1>1, <1>5, <1>6 DEF AuditInv

\* The INSERTs of _upsert.
LEMMA InsertAudit ==
  ASSUME IInv, AuditInv, NEW p \in Processes, Insert(p)
  PROVE  AuditInv'
<1> DEFINE c == call[p]
           item == ItemAt(c.job, c.at)
           d == View(p)
           e == WithRow(d, item)
<1>1. /\ c # None /\ c.missing /\ CanWrite(p)
      /\ d.rows[item.id] = None
      /\ work' = e /\ writer' = p
      /\ call' = [call EXCEPT ![p] = Advanced(c)]
      /\ UNCHANGED <<db, overlapped, acknowledged>>
  BY DEF Insert
<1>2. /\ c.job \in Jobs /\ c.at \in 1..Upserts(c.job)
      /\ p \notin overlapped => QuotesSeen(d, c)
  <2>1. c.job \in Jobs /\ c.at \in 1..(Steps(c.job) + 1) /\ Upserts(c.job) \in Nat
    BY <1>1, CallIsSound DEF IInv
  <2>2. c.at <= Upserts(c.job)
    BY <1>1 DEF IInv, Progress
  <2>3. c.at \in 1..Upserts(c.job)
    BY <2>1, <2>2
  <2>4. QED
    BY <1>1, <2>1, <2>3 DEF AuditInv, Seen
<1>3. d \in Database /\ PlansBelong(d) /\ Later(db, d) /\ item \in Item
  BY <1>1, <1>2, ViewIsSound, ViewIsLater, ItemIsRow DEF AuditInv
<1>4. View(p)' = e /\ p # None
  BY <1>1, NoneAssumption DEF View
<1>5. \A q \in Processes : q # p => View(q)' = View(q)
  BY <1>1, NoneAssumption DEF View, CanWrite
<1> HIDE DEF d
<1>6. e.rows[item.id] = item.payload /\ Later(d, e) /\ PlansBelong(e) /\ Later(db, e)
  BY <1>1, <1>3, RowAdded, RowLater
<1> HIDE DEF e, item
<1>7. p \notin overlapped => QuotesSeen(e, Advanced(c))
  BY <1>2, <1>6, SeenLater, ItemSeen DEF item
<1>8. PlanSeen(e, Advanced(c))
  <2>1. Upserts(c.job) \in Nat
    BY <1>2, JobIsSound
  <2>2. QED
    BY <2>1, <1>2 DEF PlanSeen, Advanced
<1>9. Seen'
  BY <1>1, <1>4, <1>5, <1>7, <1>8, SeenStep, LaterReflexive DEF IInv, AuditInv
<1>10. PlansInv' /\ AuditableUnlessOverlapped'
  BY <1>1, <1>6 DEF AuditInv, PlansInv, AuditableUnlessOverlapped
<1>11. QED
  BY <1>1, <1>9, <1>10 DEF AuditInv

\* The links and the plan of persist_opportunity.
LEMMA LinkEvidenceAudit ==
  ASSUME IInv, AuditInv, NEW p \in Processes, LinkEvidence(p)
  PROVE  AuditInv'
<1> DEFINE c == call[p]
           d == View(p)
           l == WithLinks(d, c.job)
           e == IF c.job.plan = None THEN l ELSE PlanStored(l, c.job)
<1>1. /\ c # None /\ CanWrite(p) /\ c.job.opportunity # None /\ c.at = Upserts(c.job) + 1
      /\ c.job.plan # None => PlanFits(l, c.job)
      /\ work' = e /\ writer' = p
      /\ call' = [call EXCEPT ![p] = Advanced(c)]
      /\ UNCHANGED <<db, overlapped, acknowledged>>
  BY DEF LinkEvidence, Linking
<1>2. /\ c.job \in Jobs /\ c.at \in Nat /\ Upserts(c.job) = Len(c.job.quotes) + 1
      /\ p \notin overlapped => QuotesSeen(d, c)
  <2>1. c.job \in Jobs /\ c.at \in Nat
    BY <1>1, CallIsSound DEF IInv
  <2>2. QED
    BY <1>1, <2>1, StepsOfOpportunity DEF AuditInv, Seen
<1>3. d \in Database /\ PlansBelong(d) /\ Later(db, d)
  BY <1>1, ViewIsSound, ViewIsLater DEF AuditInv
<1>4. View(p)' = e /\ p # None
  BY <1>1, NoneAssumption DEF View
<1>5. \A q \in Processes : q # p => View(q)' = View(q)
  BY <1>1, NoneAssumption DEF View, CanWrite
<1>6. l \in Database
  <2>1. /\ Linking(c)
        /\ \A o \in Opportunities : WholeIn(d, o) \/ (o = c.job.opportunity.id /\ Pending(d, o))
    BY <1>1, ViewIsSound DEF Linking
  <2>2. d.rows[c.job.opportunity.id] = c.job.opportunity.payload
    <3>1. c.at > Upserts(c.job)
      <4>1. Upserts(c.job) \in Nat
        BY <1>2, JobIsSound
      <4>2. QED
        BY <4>1, <1>1
    <3>2. QED
      BY <1>1, <3>1 DEF IInv, Progress
  <2>3. QED
    BY <1>1, <1>2, <1>3, <2>1, <2>2, LinksAdded
<1> HIDE DEF d
<1>7. l.rows = d.rows /\ l.plans = d.plans
  BY DEF WithLinks
<1>8. PlansBelong(l) /\ Later(d, l) /\ Later(db, l)
  BY <1>3, <1>7 DEF PlansBelong, Later
<1> HIDE DEF l
<1>9. PlansBelong(e) /\ Later(d, e) /\ Later(db, e) /\ (c.job.plan # None => PlanKept(e, c.job))
  <2>1. CASE c.job.plan = None
    BY <2>1, <1>8
  <2>2. CASE c.job.plan # None
    <3>1. e = PlanStored(l, c.job)
      BY <2>2
    <3>2. QED
      BY <2>2, <3>1, <1>1, <1>2, <1>6, <1>8, PlanLater
  <2>3. QED
    BY <2>1, <2>2
<1> HIDE DEF e
<1>10. p \notin overlapped => QuotesSeen(e, Advanced(c))
  <2>1. \A i \in DOMAIN c.job.quotes : i < c.at
    <3>1. DOMAIN c.job.quotes = 1..Len(c.job.quotes) /\ Len(c.job.quotes) \in Nat
      BY <1>2, JobIsSound
    <3>2. QED
      BY <3>1, <1>1, <1>2
  <2>2. p \notin overlapped => QuotesSeen(e, c)
    BY <1>2, <1>9, SeenLater
  <2>3. Advanced(c).job = c.job
    BY DEF Advanced
  <2>4. QED
    BY <2>1, <2>2, <2>3 DEF QuotesSeen
<1>11. PlanSeen(e, Advanced(c))
  <2>1. Advanced(c).job = c.job
    BY DEF Advanced
  <2>2. QED
    BY <2>1, <1>9 DEF PlanSeen
<1>12. Seen'
  BY <1>1, <1>4, <1>5, <1>10, <1>11, SeenStep, LaterReflexive DEF IInv, AuditInv
<1>13. PlansInv' /\ AuditableUnlessOverlapped'
  BY <1>1, <1>9 DEF AuditInv, PlansInv, AuditableUnlessOverlapped
<1>14. QED
  BY <1>1, <1>12, <1>13 DEF AuditInv

\* An opportunity that is whole, with its contents stored, is kept.
LEMMA KeptIfStored ==
  ASSUME NEW d, NEW job \in Jobs, job.opportunity # None,
         WholeIn(d, job.opportunity.id),
         d.rows[job.opportunity.id] = job.opportunity.payload,
         \A i \in DOMAIN job.quotes : d.rows[job.quotes[i].id] = job.quotes[i].payload,
         job.plan # None => PlanKept(d, job)
  PROVE  Kept(d, job)
<1> DEFINE x == job.opportunity.id
<1>1. job.opportunity.payload # None
  <2>1. job.opportunity \in [id : Opportunities, payload : Payloads]
    BY JobIsSound
  <2>2. QED
    BY <2>1, NoneAssumption
<1>2. LinksOf(d, x) = EvidenceLinks(x, job.opportunity.payload)
      /\ (d.plans[x] # None => d.rows[d.plans[x]] # None)
  BY <1>1 DEF WholeIn
<1>3. \A link \in EvidenceLinks(x, job.opportunity.payload) : d.rows[link.quote] # None
  <2>1. QuotesOf[job.opportunity.payload] = [i \in DOMAIN job.quotes |-> job.quotes[i].id]
    BY JobIsSound
  <2>2. \A link \in EvidenceLinks(x, job.opportunity.payload) :
          \E i \in DOMAIN job.quotes : link.quote = job.quotes[i].id
    BY <2>1 DEF EvidenceLinks
  <2>3. \A i \in DOMAIN job.quotes : d.rows[job.quotes[i].id] # None
    <3> SUFFICES ASSUME NEW i \in DOMAIN job.quotes PROVE d.rows[job.quotes[i].id] # None
      OBVIOUS
    <3>1. job.quotes[i] \in [id : Quotes, payload : Payloads]
      BY JobIsSound
    <3>2. QED
      BY <3>1, NoneAssumption
  <2>4. QED
    BY <2>2, <2>3
<1>4. Reconstructs(d, x)
  BY <1>1, <1>2, <1>3 DEF Reconstructs
<1>5. QED
  BY <1>4 DEF Kept, PlanKept

\* What is kept stays kept in a later database that is whole.
LEMMA KeptLater ==
  ASSUME NEW d, NEW e, Later(d, e), NEW job \in Jobs, job.opportunity # None,
         Kept(d, job), WholeIn(e, job.opportunity.id)
  PROVE  Kept(e, job)
<1> DEFINE x == job.opportunity.id
<1>1. x \in Ids /\ x \in Opportunities /\ job.opportunity.payload # None
  <2>1. job.opportunity \in [id : Opportunities, payload : Payloads]
    BY JobIsSound
  <2>2. QED
    BY <2>1, NoneAssumption DEF Ids
<1>2. e.rows[x] = job.opportunity.payload
  BY <1>1 DEF Kept, Later
<1>3. \A i \in DOMAIN job.quotes : e.rows[job.quotes[i].id] = job.quotes[i].payload
  <2> SUFFICES ASSUME NEW i \in DOMAIN job.quotes
               PROVE  e.rows[job.quotes[i].id] = job.quotes[i].payload
    OBVIOUS
  <2>1. job.quotes[i] \in [id : Quotes, payload : Payloads]
    BY JobIsSound
  <2>2. job.quotes[i].id \in Ids /\ job.quotes[i].payload # None
    BY <2>1, NoneAssumption DEF Ids
  <2>3. d.rows[job.quotes[i].id] = job.quotes[i].payload
    BY DEF Kept
  <2>4. QED
    BY <2>2, <2>3 DEF Later
<1>4. job.plan # None => PlanKept(e, job)
  <2> SUFFICES ASSUME job.plan # None PROVE PlanKept(e, job)
    OBVIOUS
  <2>1. job.plan \in [id : Plans, payload : Payloads]
    BY JobIsSound
  <2>2. job.plan.id \in Ids /\ job.plan.id # None /\ job.plan.payload # None
    BY <2>1, NoneAssumption DEF Ids
  <2>3. QED
    BY <2>2, <1>1 DEF Kept, Later, PlanKept
<1>5. QED
  BY <1>2, <1>3, <1>4, KeptIfStored

\* A call that commits has what it was given, if it has seen its quotes.
LEMMA CommitKeeps ==
  ASSUME NEW c, NEW d, c.job \in Jobs, c.job.opportunity # None,
         c.at = Steps(c.job) + 1, QuotesSeen(d, c), PlanSeen(d, c),
         d.rows[c.job.opportunity.id] = c.job.opportunity.payload,
         WholeIn(d, c.job.opportunity.id)
  PROVE  Kept(d, c.job)
<1>1. /\ Upserts(c.job) = Len(c.job.quotes) + 1 /\ Steps(c.job) = Upserts(c.job) + 1
      /\ Len(c.job.quotes) \in Nat /\ DOMAIN c.job.quotes = 1..Len(c.job.quotes)
  BY StepsOfOpportunity, JobIsSound
<1>2. (\A i \in DOMAIN c.job.quotes : i < c.at) /\ c.at > Upserts(c.job) + 1
  BY <1>1
<1>3. \A i \in DOMAIN c.job.quotes : d.rows[c.job.quotes[i].id] = c.job.quotes[i].payload
  BY <1>2 DEF QuotesSeen
<1>4. c.job.plan # None => PlanKept(d, c.job)
  BY <1>2 DEF PlanSeen
<1>5. QED
  BY <1>3, <1>4, KeptIfStored

\* The commit, or a rollback: what a step that ends a call does to the others.
LEMMA EndSeen ==
  ASSUME IInv, AuditInv, NEW p \in Processes,
         writer' = IF writer = p THEN None ELSE writer,
         call' = [call EXCEPT ![p] = None],
         work' = work, overlapped' = overlapped,
         db' = db \/ (writer = p /\ db' = work)
  PROVE  PlansInv' /\ Seen' /\ Later(db, db')
<1>0. p # None
  BY NoneAssumption
<1>1. Later(db, db')
  BY <1>0, LaterReflexive DEF AuditInv, PlansInv
<1>2. ASSUME NEW q \in Processes, q # p PROVE Later(View(q), View(q)')
  <2>1. CASE db' = db
    <3>1. View(q)' = View(q)
      BY <1>2, <2>1, NoneAssumption DEF View
    <3>2. QED
      BY <3>1, LaterReflexive
  <2>2. CASE writer = p /\ db' = work
    <3>1. View(q) = db /\ View(q)' = db'
      BY <1>2, <2>2, NoneAssumption DEF View
    <3>2. QED
      BY <3>1, <1>1
  <2>3. QED
    BY <2>1, <2>2
<1>3. Seen'
  BY <1>2, SeenStep DEF IInv, AuditInv
<1>4. PlansInv'
  BY <1>0 DEF AuditInv, PlansInv
<1>5. QED
  BY <1>1, <1>3, <1>4

\* The commit.
LEMMA CommitAudit ==
  ASSUME IInv, IInv', AuditInv, NEW p \in Processes, Commit(p)
  PROVE  AuditInv'
<1> DEFINE c == call[p]
<1>1. /\ c # None /\ c.at = Steps(c.job) + 1 /\ db' = View(p)
      /\ writer' = IF writer = p THEN None ELSE writer
      /\ call' = [call EXCEPT ![p] = None]
      /\ acknowledged' = IF c.job.opportunity = None THEN acknowledged
                         ELSE acknowledged \cup {[job |-> c.job, purged |-> p \in overlapped]}
      /\ work' = work /\ overlapped' = overlapped
  BY DEF Commit, Done
<1>2. PlansInv' /\ Seen' /\ Later(db, db')
  BY <1>1, CommitIsWhole, EndSeen
<1>3. c.job \in Jobs /\ Upserts(c.job) \in Nat
  BY <1>1, CallIsSound DEF IInv
<1>4. \A o \in Opportunities : WholeIn(db', o)
  BY DEF IInv, WholeOpportunities
<1>5. ASSUME c.job.opportunity # None, p \notin overlapped PROVE Kept(db', c.job)
  <2>1. c.job.opportunity.id \in Opportunities
    <3>1. c.job.opportunity \in [id : Opportunities, payload : Payloads]
      BY <1>3, <1>5, JobIsSound
    <3>2. QED
      BY <3>1
  <2>2. c.at > Upserts(c.job)
    BY <1>1, <1>3, <1>5, StepsOfOpportunity
  <2>3. db'.rows[c.job.opportunity.id] = c.job.opportunity.payload
    BY <1>1, <1>5, <2>2 DEF IInv, Progress
  <2>4. QuotesSeen(db', c) /\ PlanSeen(db', c)
    BY <1>1, <1>5 DEF AuditInv, Seen
  <2>5. QED
    BY <1>1, <1>3, <1>4, <1>5, <2>1, <2>3, <2>4, CommitKeeps
<1>6. ASSUME NEW ack \in acknowledged
      PROVE  ack.job.opportunity # None /\ (~ack.purged => Kept(db', ack.job))
  <2>1. ack.job \in Jobs /\ ack.job.opportunity # None
    BY DEF IInv, TypeOK, AuditInv
  <2>2. ack.job.opportunity.id \in Opportunities
    <3>1. ack.job.opportunity \in [id : Opportunities, payload : Payloads]
      BY <2>1, JobIsSound
    <3>2. QED
      BY <3>1
  <2>3. ~ack.purged => Kept(db, ack.job)
    BY DEF AuditInv, AuditableUnlessOverlapped
  <2>4. QED
    BY <1>2, <1>4, <2>1, <2>2, <2>3, KeptLater
<1>7. ASSUME NEW ack \in acknowledged'
      PROVE  ack.job.opportunity # None /\ (~ack.purged => Kept(db', ack.job))
  <2>1. CASE ack \in acknowledged
    BY <2>1, <1>6
  <2>2. CASE ack \notin acknowledged
    <3>1. c.job.opportunity # None /\ ack = [job |-> c.job, purged |-> p \in overlapped]
      BY <1>1, <1>7, <2>2
    <3>2. ack.job = c.job /\ ack.purged = (p \in overlapped)
      BY <3>1
    <3>3. QED
      BY <3>1, <3>2, <1>5
  <2>3. QED
    BY <2>1, <2>2
<1>8. AuditableUnlessOverlapped' /\ \A ack \in acknowledged' : ack.job.opportunity # None
  BY <1>7 DEF AuditableUnlessOverlapped
<1>9. QED
  BY <1>2, <1>8 DEF AuditInv

\* A failure or a crash.
LEMMA AbortAudit ==
  ASSUME IInv, AuditInv, NEW p \in Processes, Abort(p)
  PROVE  AuditInv'
<1>1. /\ writer' = IF writer = p THEN None ELSE writer
      /\ call' = [call EXCEPT ![p] = None]
      /\ db' = db /\ work' = work
      /\ overlapped' = overlapped /\ acknowledged' = acknowledged
  BY DEF Abort
<1>2. PlansInv' /\ Seen'
  BY <1>1, EndSeen
<1>3. QED
  BY <1>1, <1>2 DEF AuditInv, AuditableUnlessOverlapped

\* Retention leaves the rows that a link mentions.
LEMMA PurgeAudit ==
  ASSUME IInv, IInv', AuditInv, NEW p \in Processes, NEW cutoff \in Cutoffs, Purge(p, cutoff)
  PROVE  AuditInv'
<1>1. /\ writer = None /\ UNCHANGED <<writer, work, call, acknowledged>>
      /\ overlapped' = {q \in Processes : call[q] # None} \cup overlapped
  BY DEF Purge
<1>2. /\ db'.links = db.links /\ db'.plans = db.plans
      /\ \A i \in Ids : (\E link \in db.links : link.quote = i) => db'.rows[i] = db.rows[i]
      /\ \A i \in Opportunities \cup Plans : db'.rows[i] = db.rows[i]
  BY PurgeIsSafe
<1>3. \A o \in Opportunities : db.plans[o] \in Plans \cup {None}
  BY DEF IInv, TypeOK, Database
<1>4. PlansInv'
  BY <1>1, <1>2, <1>3 DEF AuditInv, PlansInv, PlansBelong
<1>5. Seen'
  <2> SUFFICES ASSUME NEW q \in Processes, call[q] # None
               PROVE  q \in overlapped' /\ PlanSeen(View(q)', call[q])
    BY <1>1 DEF Seen, QuotesSeen, PlanSeen, PlanKept, Upserts
  <2>1. View(q) = db /\ View(q)' = db'
    BY <1>1, NoneAssumption DEF View
  <2>2. call[q].job \in Jobs
    BY CallIsSound DEF IInv
  <2>3. call[q].job.plan # None => call[q].job.plan.id \in Plans
    <3>1. call[q].job.plan # None => call[q].job.plan \in [id : Plans, payload : Payloads]
      BY <2>2, JobIsSound
    <3>2. QED
      BY <3>1
  <2>4. PlanSeen(db, call[q])
    BY <2>1 DEF AuditInv, Seen
  <2>5. PlanSeen(db', call[q])
    BY <2>3, <2>4, <1>2 DEF PlanSeen, PlanKept
  <2>6. QED
    BY <1>1, <2>1, <2>5
<1>6. ASSUME NEW ack \in acknowledged, ~ack.purged PROVE Kept(db', ack.job)
  <2> DEFINE job == ack.job
             x == job.opportunity.id
  <2>1. job \in Jobs /\ job.opportunity # None /\ Kept(db, job)
    BY <1>6 DEF IInv, TypeOK, AuditInv, AuditableUnlessOverlapped
  <2>2. x \in Opportunities
    <3>1. job.opportunity \in [id : Opportunities, payload : Payloads]
      BY <2>1, JobIsSound
    <3>2. QED
      BY <3>1
  <2>3. WholeIn(db', x)
    BY <2>2 DEF IInv, WholeOpportunities
  <2>4. db'.rows[x] = job.opportunity.payload
    BY <2>1, <2>2, <1>2 DEF Kept
  <2>5. ASSUME NEW i \in DOMAIN job.quotes
        PROVE  db'.rows[job.quotes[i].id] = job.quotes[i].payload
    <3>1. job.quotes[i].id \in Ids
      <4>1. job.quotes[i] \in [id : Quotes, payload : Payloads]
        BY <2>1, JobIsSound
      <4>2. QED
        BY <4>1 DEF Ids
    <3>2. [opportunity |-> x, ordinal |-> i, quote |-> job.quotes[i].id] \in db.links
      <4>1. QuotesOf[job.opportunity.payload] = [j \in DOMAIN job.quotes |-> job.quotes[j].id]
        BY <2>1, JobIsSound
      <4>2. LinksOf(db, x) = EvidenceLinks(x, job.opportunity.payload)
        BY <2>1 DEF Kept, Reconstructs
      <4>3. [opportunity |-> x, ordinal |-> i, quote |-> job.quotes[i].id]
              \in EvidenceLinks(x, job.opportunity.payload)
        BY <4>1 DEF EvidenceLinks
      <4>4. QED
        BY <4>2, <4>3 DEF LinksOf
    <3>3. \E link \in db.links : link.quote = job.quotes[i].id
      BY <3>2
    <3>4. db'.rows[job.quotes[i].id] = db.rows[job.quotes[i].id]
      BY <3>1, <3>3, <1>2
    <3>5. QED
      BY <3>4, <2>1 DEF Kept
  <2>6. job.plan # None => PlanKept(db', job)
    <3>1. job.plan # None => job.plan \in [id : Plans, payload : Payloads]
      BY <2>1, JobIsSound
    <3>2. job.plan # None => job.plan.id \in Plans
      BY <3>1
    <3>3. QED
      BY <3>2, <2>1, <1>2 DEF Kept, PlanKept
  <2>7. QED
    BY <2>1, <2>3, <2>4, <2>5, <2>6, KeptIfStored
<1>7. QED
  BY <1>1, <1>4, <1>5, <1>6 DEF AuditInv, AuditableUnlessOverlapped

\* "Previously persisted opportunities can be reconstructed from canonical
\* evidence", for any number of processes: once persist_opportunity has
\* returned, without a purge_quotes_before during the call, reconstruction
\* gives the contents handed over for ever.
THEOREM EvidenceIsAuditable == Spec => []AuditableUnlessOverlapped
<1>1. Init => AuditInv
  <2> SUFFICES ASSUME Init PROVE AuditInv
    OBVIOUS
  <2>1. PlansInv
    BY DEF Init, PlansInv, PlansBelong
  <2>2. Seen /\ AuditableUnlessOverlapped /\ \A ack \in acknowledged : ack.job.opportunity # None
    BY DEF Init, Seen, AuditableUnlessOverlapped
  <2>3. QED
    BY <2>1, <2>2 DEF AuditInv
<1>2. IInv /\ IInv' /\ AuditInv /\ [Next]_vars => AuditInv'
  <2> SUFFICES ASSUME IInv, IInv', AuditInv, [Next]_vars PROVE AuditInv'
    OBVIOUS
  <2>1. CASE Next
    <3>1. PICK p \in Processes :
            \/ \E job \in Jobs : Begin(p, job)
            \/ Lookup(p) \/ Insert(p) \/ LinkEvidence(p) \/ Commit(p) \/ Abort(p)
            \/ \E cutoff \in Cutoffs : Purge(p, cutoff)
      BY <2>1 DEF Next
    <3>2. QED
      BY <3>1, BeginAudit, LookupAudit, InsertAudit, LinkEvidenceAudit, CommitAudit, AbortAudit,
         PurgeAudit
  <2>2. CASE UNCHANGED vars
    <3>1. \A q \in Processes : View(q)' = View(q)
      BY <2>2 DEF View, vars
    <3>2. QED
      BY <2>2, <3>1 DEF AuditInv, PlansInv, Seen, AuditableUnlessOverlapped, vars
  <2>3. QED
    BY <2>1, <2>2
<1>3. AuditInv => AuditableUnlessOverlapped
  BY DEF AuditInv
<1>4. QED
  BY <1>1, <1>2, <1>3, Invariance, PTL DEF Spec

-----------------------------------------------------------------------------
(* The statements of a migration.                                          *)

\* A version's script creates each of its objects and ends in its record.
LEMMA ScriptShape ==
  ASSUME NEW v \in Migration!Versions
  PROVE  /\ Migration!Objects(v) \in Seq(Migration!AllObjects)
         /\ Migration!Script(v) \in Seq(Migration!Statement)
         /\ Len(Migration!Script(v)) = Len(Migration!Objects(v)) + 1
         /\ \A i \in 1..Len(Migration!Objects(v)) :
              Migration!Script(v)[i] = [version |-> v, object |-> Migration!Objects(v)[i]]
         /\ Migration!Script(v)[Len(Migration!Objects(v)) + 1] = [version |-> v, object |-> None]
  <1> DEFINE objects == Migration!Objects(v)
             last == [version |-> v, object |-> None]
             creations == Migration!Creations(v)
  <1>1. v \in {1, 2}
    BY DEF Migration!Versions
  <1>2. objects \in Seq(Migration!ObjectsOf(v)) /\ Len(objects) \in Nat /\ DOMAIN objects = 1..Len(objects)
    <2>1. DOMAIN objects = 1..Len(objects) /\ Len(objects) \in Nat
      <3>1. CASE v = 1
        BY <3>1 DEF Migration!Objects
      <3>2. CASE v # 1
        BY <3>2 DEF Migration!Objects
      <3> QED BY <3>1, <3>2
    <2>2. \A i \in DOMAIN objects : objects[i] \in Migration!ObjectsOf(v)
      BY DEF Migration!ObjectsOf
    <2>3. \E n \in Nat : objects \in [1..n -> Migration!ObjectsOf(v)]
      <3>1. CASE v = 1
        BY <2>1, <2>2, <3>1 DEF Migration!Objects
      <3>2. CASE v # 1
        BY <2>1, <2>2, <3>2 DEF Migration!Objects
      <3> QED BY <3>1, <3>2
    <2> HIDE DEF objects
    <2>4. objects \in Seq(Migration!ObjectsOf(v))
      BY <2>3
    <2> QED BY <2>1, <2>4
  <1>3. Migration!ObjectsOf(v) \subseteq Migration!AllObjects
    BY <1>1 DEF Migration!AllObjects
  <1> HIDE DEF objects
  <1>4. creations = [i \in 1..Len(objects) |-> [version |-> v, object |-> objects[i]]]
    BY <1>2 DEF Migration!Creations, objects
  <1>5. \A i \in 1..Len(objects) : [version |-> v, object |-> objects[i]] \in Migration!Statement
    BY <1>1, <1>2, <1>3 DEF Migration!Statement
  <1>6. last \in Migration!Statement
    BY DEF Migration!Statement
  <1> HIDE DEF creations, last
  <1>7. creations \in Seq(Migration!Statement) /\ Len(creations) = Len(objects)
    BY <1>2, <1>4, <1>5
  <1>8. Migration!Script(v) = creations \o <<last>>
    BY DEF Migration!Script, creations, last
  <1>9. objects \in Seq(Migration!AllObjects)
    BY <1>2, <1>3
  <1>10. \A i \in 1..Len(objects) : creations[i] = [version |-> v, object |-> objects[i]]
    BY <1>4
  <1>11. /\ creations \o <<last>> \in Seq(Migration!Statement)
         /\ Len(creations \o <<last>>) = Len(objects) + 1
         /\ \A i \in 1..Len(objects) : (creations \o <<last>>)[i] = creations[i]
         /\ (creations \o <<last>>)[Len(objects) + 1] = last
    BY <1>2, <1>6, <1>7
  <1> QED BY <1>8, <1>9, <1>10, <1>11 DEF objects, last

\* The part of the script that belongs to one version.
Part(applied, v) == IF v \in applied THEN <<>> ELSE Migration!Script(v)

\* It is all of the version or nothing, and nothing follows the record.
LEMMA PartShape ==
  ASSUME NEW applied, NEW v \in Migration!Versions
  PROVE  LET part == Part(applied, v)
         IN  /\ part \in Seq(Migration!Statement)
             /\ \A i \in 1..Len(part) : part[i].version = v
             /\ \A i, j \in 1..Len(part) : i < j => part[i].object # None
             /\ v \notin applied =>
                  /\ \A o \in Migration!ObjectsOf(v) :
                       \E i \in 1..Len(part) : part[i] = [version |-> v, object |-> o]
                  /\ \E i \in 1..Len(part) : part[i] = [version |-> v, object |-> None]
  <1>1. CASE v \in applied
    BY <1>1 DEF Part
  <1>2. CASE v \notin applied
    <2> DEFINE part == Migration!Script(v)
               objects == Migration!Objects(v)
               n == Len(objects)
    <2>1. /\ part \in Seq(Migration!Statement) /\ Len(part) = n + 1 /\ n \in Nat
          /\ \A i \in 1..n : part[i] = [version |-> v, object |-> objects[i]]
          /\ part[n + 1] = [version |-> v, object |-> None]
          /\ objects \in Seq(Migration!AllObjects)
      BY ScriptShape
    <2>2. \A i \in 1..n : objects[i] # None
      BY <2>1, MigrationNoneAssumption
    <2>3. \A o \in Migration!ObjectsOf(v) : \E i \in 1..n : objects[i] = o
      BY <2>1 DEF Migration!ObjectsOf
    <2> HIDE DEF part, objects, n
    <2>4. \A i \in 1..Len(part) : i \in 1..n \/ i = n + 1
      BY <2>1
    <2>5. ASSUME NEW i \in 1..Len(part) PROVE part[i].version = v
      <3>1. CASE i \in 1..n
        <4>1. part[i] = [version |-> v, object |-> objects[i]]
          BY <2>1, <3>1
        <4> QED BY <4>1
      <3>2. CASE i = n + 1
        <4>1. part[i] = [version |-> v, object |-> None]
          BY <2>1, <3>2
        <4> QED BY <4>1
      <3> QED BY <2>4, <3>1, <3>2
    <2>6. ASSUME NEW i \in 1..Len(part), NEW j \in 1..Len(part), i < j PROVE part[i].object # None
      <3>1. i \in 1..n
        BY <2>1, <2>6
      <3>2. part[i] = [version |-> v, object |-> objects[i]]
        BY <2>1, <3>1
      <3>3. part[i].object = objects[i]
        BY <3>2
      <3> QED BY <2>2, <3>1, <3>3
    <2>7. \A o \in Migration!ObjectsOf(v) :
            \E i \in 1..Len(part) : part[i] = [version |-> v, object |-> o]
      BY <2>1, <2>3
    <2>8. \E i \in 1..Len(part) : part[i] = [version |-> v, object |-> None]
      BY <2>1
    <2> QED BY <1>2, <2>1, <2>5, <2>6, <2>7, <2>8 DEF Part, part
  <1> QED BY <1>1, <1>2

\* What migrate sets out to do: every statement of every version not applied,
\* a version's record after all its creations and before the next version.
LEMMA DueShape ==
  ASSUME NEW applied
  PROVE  LET due == Migration!Due(applied)
         IN  /\ due \in Seq(Migration!Statement)
             /\ \A i, j \in 1..Len(due) :
                  i < j /\ due[i].object = None => due[i].version < due[j].version
             /\ \A v \in Migration!Versions \ applied :
                  /\ \A o \in Migration!ObjectsOf(v) :
                       \E i \in 1..Len(due) : due[i] = [version |-> v, object |-> o]
                  /\ \E i \in 1..Len(due) : due[i] = [version |-> v, object |-> None]
  <1> DEFINE s == Part(applied, 1)
             t == Part(applied, 2)
  <1>1. 1 \in Migration!Versions /\ 2 \in Migration!Versions
    BY DEF Migration!Versions
  <1>2. Migration!Due(applied) = s \o t
    BY DEF Migration!Due, Part
  <1>3. /\ s \in Seq(Migration!Statement)
        /\ \A i \in 1..Len(s) : s[i].version = 1
        /\ \A i, j \in 1..Len(s) : i < j => s[i].object # None
        /\ 1 \notin applied =>
             /\ \A o \in Migration!ObjectsOf(1) :
                  \E i \in 1..Len(s) : s[i] = [version |-> 1, object |-> o]
             /\ \E i \in 1..Len(s) : s[i] = [version |-> 1, object |-> None]
    BY <1>1, PartShape
  <1>4. /\ t \in Seq(Migration!Statement)
        /\ \A i \in 1..Len(t) : t[i].version = 2
        /\ \A i, j \in 1..Len(t) : i < j => t[i].object # None
        /\ 2 \notin applied =>
             /\ \A o \in Migration!ObjectsOf(2) :
                  \E i \in 1..Len(t) : t[i] = [version |-> 2, object |-> o]
             /\ \E i \in 1..Len(t) : t[i] = [version |-> 2, object |-> None]
    BY <1>1, PartShape
  <1> HIDE DEF s, t
  <1> DEFINE due == s \o t
             m == Len(s)
             n == Len(t)
  <1>5. /\ due \in Seq(Migration!Statement) /\ m \in Nat /\ n \in Nat /\ Len(due) = m + n
        /\ \A i \in 1..m : i \in 1..Len(due) /\ due[i] = s[i]
        /\ \A i \in 1..n : i + m \in 1..Len(due) /\ due[i + m] = t[i]
        /\ \A i \in 1..Len(due) : i \notin 1..m => i - m \in 1..n /\ due[i] = t[i - m]
    BY <1>3, <1>4
  <1> HIDE DEF due, m, n
  <1>6. ASSUME NEW i \in 1..Len(due), NEW j \in 1..Len(due), i < j, due[i].object = None
        PROVE  due[i].version < due[j].version
    <2>1. CASE j \in 1..m
      <3>1. i \in 1..m
        BY <1>5, <1>6, <2>1
      <3> QED BY <1>3, <1>5, <1>6, <2>1, <3>1 DEF m
    <2>2. CASE i \notin 1..m
      <3>1. i - m \in 1..n /\ j - m \in 1..n /\ i - m < j - m /\ due[i] = t[i - m]
        BY <1>5, <1>6, <2>2
      <3> QED BY <1>4, <1>6, <3>1 DEF n
    <2>3. CASE i \in 1..m /\ j \notin 1..m
      <3>1. j - m \in 1..n /\ due[j] = t[j - m] /\ due[i] = s[i]
        BY <1>5, <2>3
      <3>2. due[i].version = 1 /\ due[j].version = 2
        BY <1>3, <1>4, <2>3, <3>1 DEF m, n
      <3> QED BY <3>2
    <2> QED BY <2>1, <2>2, <2>3
  <1>7. ASSUME NEW v \in Migration!Versions \ applied, NEW x,
               x = None \/ x \in Migration!ObjectsOf(v)
        PROVE  \E i \in 1..Len(due) : due[i] = [version |-> v, object |-> x]
    <2>1. CASE v = 1
      <3>1. PICK i \in 1..m : s[i] = [version |-> 1, object |-> x]
        BY <1>3, <1>7, <2>1 DEF m
      <3> QED BY <1>5, <2>1, <3>1
    <2>2. CASE v = 2
      <3>1. PICK i \in 1..n : t[i] = [version |-> 2, object |-> x]
        BY <1>4, <1>7, <2>2 DEF n
      <3>2. i + m \in 1..Len(due) /\ due[i + m] = t[i]
        BY <1>5, <3>1
      <3> QED BY <2>2, <3>1, <3>2
    <2> QED BY <2>1, <2>2 DEF Migration!Versions
  <1>8. \A v \in Migration!Versions \ applied :
          /\ \A o \in Migration!ObjectsOf(v) :
               \E i \in 1..Len(due) : due[i] = [version |-> v, object |-> o]
          /\ \E i \in 1..Len(due) : due[i] = [version |-> v, object |-> None]
    BY <1>7
  <1>9. due = Migration!Due(applied)
    BY <1>2 DEF due
  <1> QED BY <1>5, <1>6, <1>8, <1>9

-----------------------------------------------------------------------------
(* The migration.                                                          *)

\* A new database and one of version 1 are complete.
LEMMA MigrationStarts == Migration!Init => Migration!MigrationInv
  <1> SUFFICES ASSUME Migration!Init PROVE Migration!MigrationInv
    OBVIOUS
  <1>1. PICK old \in {{}, {1}} :
          schema = [objects |-> UNION {Migration!ObjectsOf(v) : v \in old}, recorded |-> old]
    BY DEF Migration!Init
  <1>2. /\ schema.recorded = old /\ schema \in Migration!Database
        /\ \A v \in old : v = 1 /\ Migration!ObjectsOf(v) \subseteq schema.objects
    BY <1>1 DEF Migration!Database, Migration!Versions, Migration!AllObjects
  <1>3. Migration!RecordedIsComplete
    BY <1>2 DEF Migration!RecordedIsComplete, Migration!Complete
  <1> QED BY <1>2, <1>3
          DEF Migration!Init, Migration!MigrationInv, Migration!TypeInv, Migration!TransactionInv,
              Migration!ScriptInv, Migration!ReturnedIsCurrent

\* What the others do leaves the script of a call in order.
LEMMA ScriptKept ==
  ASSUME NEW p \in Processes, Migration!ScriptInv(p),
         schemaTodo'[p] = schemaTodo[p],
         Migration!View(p).objects \subseteq Migration!View(p)'.objects,
         Migration!View(p).recorded \subseteq Migration!View(p)'.recorded
  PROVE  Migration!ScriptInv(p)'
  BY DEF Migration!ScriptInv, Migration!Left

\* A statement done leaves the rest of the script in order.
LEMMA ScriptAdvanced ==
  ASSUME NEW p \in Processes, Migration!TypeInv, Migration!ScriptInv(p),
         schemaTodo[p] \notin {None, <<>>},
         schemaTodo'[p] = Tail(schemaTodo[p]),
         Migration!View(p).objects \subseteq Migration!View(p)'.objects,
         Migration!View(p).recorded \subseteq Migration!View(p)'.recorded,
         Head(schemaTodo[p]).object # None => Head(schemaTodo[p]).object \in Migration!View(p)'.objects,
         Head(schemaTodo[p]).object = None => Head(schemaTodo[p]).version \in Migration!View(p)'.recorded
  PROVE  Migration!ScriptInv(p)'
  <1> DEFINE s == schemaTodo[p]
             t == Tail(s)
  <1>1. s \in Seq(Migration!Statement) /\ s # <<>> /\ s # None
    BY DEF Migration!TypeInv
  <1>2. /\ t \in Seq(Migration!Statement)
        /\ DOMAIN t = 1..Len(t) /\ DOMAIN s = 1..Len(s) /\ Len(s) = Len(t) + 1 /\ Len(t) \in Nat
        /\ Head(s) = s[1]
        /\ \A i \in 1..Len(t) : i + 1 \in 1..Len(s) /\ t[i] = s[i + 1]
        /\ \A i \in 1..Len(s) : i = 1 \/ (i - 1 \in 1..Len(t) /\ s[i] = t[i - 1])
    BY <1>1
  <1>3. /\ \A i, j \in DOMAIN s : i < j /\ s[i].object = None => s[i].version < s[j].version
        /\ \A v \in Migration!Versions :
             /\ \A o \in Migration!ObjectsOf(v) :
                  (\E i \in DOMAIN s : s[i] = [version |-> v, object |-> o]) \/ o \in Migration!View(p).objects
             /\ (\E i \in DOMAIN s : s[i] = [version |-> v, object |-> None]) \/ v \in Migration!View(p).recorded
    BY <1>1 DEF Migration!ScriptInv, Migration!Left
  <1> HIDE DEF s, t
  <1>4. ASSUME NEW i \in DOMAIN t, NEW j \in DOMAIN t, i < j, t[i].object = None
        PROVE  t[i].version < t[j].version
    <2>1. i + 1 \in DOMAIN s /\ j + 1 \in DOMAIN s /\ i + 1 < j + 1 /\ t[i] = s[i + 1] /\ t[j] = s[j + 1]
      BY <1>2, <1>4
    <2> QED BY <1>3, <1>4, <2>1
  <1>5. ASSUME NEW x, \E i \in DOMAIN s : s[i] = x
        PROVE  x = Head(s) \/ \E i \in DOMAIN t : t[i] = x
    BY <1>2, <1>5
  <1>6. ASSUME NEW v \in Migration!Versions, NEW o \in Migration!ObjectsOf(v)
        PROVE  (\E i \in DOMAIN t : t[i] = [version |-> v, object |-> o]) \/ o \in Migration!View(p)'.objects
    <2>1. o # None
      BY MigrationNoneAssumption DEF Migration!AllObjects, Migration!Versions
    <2>2. CASE Head(s) = [version |-> v, object |-> o]
      <3>1. Head(s).object = o
        BY <2>2
      <3> QED BY <2>1, <3>1 DEF s
    <2>3. CASE Head(s) # [version |-> v, object |-> o]
      BY <1>3, <1>5, <2>3
    <2> QED BY <2>2, <2>3
  <1>7. ASSUME NEW v \in Migration!Versions
        PROVE  (\E i \in DOMAIN t : t[i] = [version |-> v, object |-> None]) \/ v \in Migration!View(p)'.recorded
    <2>1. CASE Head(s) = [version |-> v, object |-> None]
      <3>1. Head(s).object = None /\ Head(s).version = v
        BY <2>1
      <3> QED BY <3>1 DEF s
    <2>2. CASE Head(s) # [version |-> v, object |-> None]
      BY <1>3, <1>5, <2>2
    <2> QED BY <2>1, <2>2
  <1>8. schemaTodo'[p] = t
    BY DEF s, t
  <1> QED BY <1>4, <1>6, <1>7, <1>8 DEF Migration!ScriptInv, Migration!Left

\* What every process sees is a complete database that holds what is committed.
LEMMA SchemaViews ==
  ASSUME Migration!MigrationInv, NEW p \in Processes
  PROVE  /\ Migration!View(p) \in Migration!Database
         /\ Migration!Complete(Migration!View(p))
         /\ schema.objects \subseteq Migration!View(p).objects
         /\ schema.recorded \subseteq Migration!View(p).recorded
  BY NoneAssumption
  DEF Migration!MigrationInv, Migration!TypeInv, Migration!TransactionInv, Migration!View,
      Migration!RecordedIsComplete

\* migrate reads the recorded versions: what it leaves out is there.
LEMMA StartStep ==
  ASSUME Migration!MigrationInv, NEW p \in Processes, Migration!Start(p)
  PROVE  Migration!MigrationInv'
  <1> DEFINE due == Migration!Due(schema.recorded)
  <1>1. /\ schemaTodo' = [schemaTodo EXCEPT ![p] = due]
        /\ schema' = schema /\ schemaWriter' = schemaWriter /\ schemaWork' = schemaWork
        /\ schemaReturned' = schemaReturned
    BY DEF Migration!Start
  <1>2. \A q \in Processes : Migration!View(q)' = Migration!View(q)
    BY <1>1 DEF Migration!View
  <1>3. /\ due \in Seq(Migration!Statement)
        /\ \A i, j \in 1..Len(due) :
             i < j /\ due[i].object = None => due[i].version < due[j].version
        /\ \A v \in Migration!Versions \ schema.recorded :
             /\ \A o \in Migration!ObjectsOf(v) :
                  \E i \in 1..Len(due) : due[i] = [version |-> v, object |-> o]
             /\ \E i \in 1..Len(due) : due[i] = [version |-> v, object |-> None]
    BY DueShape
  <1> HIDE DEF due
  <1>4. due # None /\ DOMAIN due = 1..Len(due)
    BY <1>3, MigrationNoneAssumption
  <1>5. Migration!TypeInv'
    BY <1>1, <1>3 DEF Migration!MigrationInv, Migration!TypeInv
  <1>6. schemaTodo'[p] = due /\ \A q \in Processes \ {p} : schemaTodo'[q] = schemaTodo[q]
    BY <1>1 DEF Migration!MigrationInv, Migration!TypeInv
  <1>7. Migration!ScriptInv(p)'
    <2>1. ASSUME NEW v \in schema.recorded
          PROVE  v \in Migration!View(p).recorded /\ Migration!ObjectsOf(v) \subseteq Migration!View(p).objects
      <3>1. v \in Migration!View(p).recorded /\ v \in Nat /\ v >= 1
        BY SchemaViews DEF Migration!Database, Migration!Versions
      <3> QED BY <3>1, SchemaViews DEF Migration!Complete
    <2>2. ASSUME NEW v \in Migration!Versions
          PROVE  /\ \A o \in Migration!ObjectsOf(v) :
                      \/ \E i \in DOMAIN due : due[i] = [version |-> v, object |-> o]
                      \/ o \in Migration!View(p)'.objects
                 /\ \/ \E i \in DOMAIN due : due[i] = [version |-> v, object |-> None]
                    \/ v \in Migration!View(p)'.recorded
      <3>1. CASE v \in schema.recorded
        BY <1>2, <2>1, <3>1
      <3>2. CASE v \notin schema.recorded
        BY <1>3, <1>4, <3>2
      <3> QED BY <3>1, <3>2
    <2>3. Migration!Left(p)' = {due[i] : i \in DOMAIN due}
      BY <1>6 DEF Migration!Left
    <2>4. \A x : (\E i \in DOMAIN due : due[i] = x) => x \in Migration!Left(p)'
      BY <2>3
    <2> QED BY <1>3, <1>4, <1>6, <2>2, <2>4 DEF Migration!ScriptInv
  <1>8. \A q \in Processes : Migration!ScriptInv(q)'
    BY <1>2, <1>6, <1>7, ScriptKept DEF Migration!MigrationInv
  <1>9. Migration!RecordedIsComplete' /\ Migration!TransactionInv' /\ Migration!ReturnedIsCurrent'
    BY <1>1 DEF Migration!MigrationInv, Migration!RecordedIsComplete, Migration!TransactionInv,
                Migration!ReturnedIsCurrent, Migration!Complete
  <1> QED BY <1>5, <1>8, <1>9 DEF Migration!MigrationInv

\* A CREATE adds an object to what its process sees, durably or in its
\* transaction.
LEMMA CreateStep ==
  ASSUME Migration!MigrationInv, NEW p \in Processes, Migration!Create(p)
  PROVE  Migration!MigrationInv'
  <1> DEFINE head == Head(schemaTodo[p])
             old == Migration!View(p)
             new == [old EXCEPT !.objects = @ \cup {head.object}]
  <1>1. /\ schemaTodo[p] \notin {None, <<>>} /\ head.object # None
        /\ schemaWriter \in {None, p}
        /\ schemaWork' = new
        /\ schema' = IF schemaWriter = p THEN schema ELSE new
        /\ schemaTodo' = [schemaTodo EXCEPT ![p] = Tail(@)]
        /\ schemaWriter' = schemaWriter /\ schemaReturned' = schemaReturned
    BY DEF Migration!Create, Migration!CanWrite
  <1>2. /\ old \in Migration!Database /\ Migration!Complete(old)
        /\ schema.objects \subseteq old.objects /\ schema.recorded \subseteq old.recorded
    BY SchemaViews
  <1>3. schemaTodo[p] \in Seq(Migration!Statement) /\ schemaTodo[p] # <<>>
    BY <1>1 DEF Migration!MigrationInv, Migration!TypeInv
  <1>4. head \in Migration!Statement /\ Tail(schemaTodo[p]) \in Seq(Migration!Statement)
    BY <1>3
  <1>5. head.object \in Migration!AllObjects
    BY <1>1, <1>4 DEF Migration!Statement
  <1> HIDE DEF head, old
  <1>6. /\ new.objects = old.objects \cup {head.object} /\ new.recorded = old.recorded
        /\ new \in Migration!Database
    BY <1>2, <1>5 DEF Migration!Database
  <1> HIDE DEF new
  <1>7. Migration!Complete(new)
    BY <1>2, <1>6 DEF Migration!Complete
  <1>8. Migration!View(p)' = new
    BY <1>1, NoneAssumption DEF Migration!View
  <1>9. /\ schema' \in Migration!Database /\ Migration!Complete(schema')
        /\ schema.objects \subseteq schema'.objects /\ schema.recorded \subseteq schema'.recorded
    BY <1>1, <1>2, <1>6, <1>7
    DEF Migration!MigrationInv, Migration!TypeInv, Migration!RecordedIsComplete
  <1>10. Migration!TypeInv'
    BY <1>1, <1>4, <1>6, <1>9 DEF Migration!MigrationInv, Migration!TypeInv
  <1>11. Migration!RecordedIsComplete' /\ Migration!TransactionInv'
    <2>1. schemaWriter' # None => schema' = schema
      BY <1>1, NoneAssumption
    <2> QED BY <1>1, <1>2, <1>6, <1>7, <1>9, <2>1
            DEF Migration!RecordedIsComplete, Migration!TransactionInv, Migration!Complete
  <1>12. Migration!ReturnedIsCurrent'
    BY <1>1, <1>9 DEF Migration!MigrationInv, Migration!ReturnedIsCurrent, Migration!Database
  <1>13. schemaTodo'[p] = Tail(schemaTodo[p]) /\ \A q \in Processes \ {p} : schemaTodo'[q] = schemaTodo[q]
    BY <1>1 DEF Migration!MigrationInv, Migration!TypeInv
  <1>14. Migration!ScriptInv(p)'
    <2>1. /\ old.objects \subseteq Migration!View(p)'.objects
          /\ old.recorded \subseteq Migration!View(p)'.recorded
          /\ head.object \in Migration!View(p)'.objects
      BY <1>6, <1>8
    <2> QED BY <1>1, <1>13, <2>1, ScriptAdvanced DEF Migration!MigrationInv, old, head
  <1>15. ASSUME NEW q \in Processes, q # p PROVE Migration!ScriptInv(q)'
    <2>1. Migration!View(q) = schema /\ Migration!View(q)' = schema'
      BY <1>1, <1>15, NoneAssumption DEF Migration!View
    <2> QED BY <1>9, <1>13, <1>15, <2>1, ScriptKept DEF Migration!MigrationInv
  <1> QED BY <1>10, <1>11, <1>12, <1>14, <1>15 DEF Migration!MigrationInv

\* The INSERT records a version whose objects, and whose predecessors, are
\* there: the script has nothing of them left.
LEMMA RecordStep ==
  ASSUME Migration!MigrationInv, NEW p \in Processes, Migration!Record(p)
  PROVE  Migration!MigrationInv'
  <1> DEFINE s == schemaTodo[p]
             head == Head(s)
             old == Migration!View(p)
             new == [old EXCEPT !.recorded = @ \cup {head.version}]
  <1>1. /\ s \notin {None, <<>>} /\ head.object = None
        /\ schemaWriter \in {None, p}
        /\ schemaWork' = new /\ schemaWriter' = p
        /\ schemaTodo' = [schemaTodo EXCEPT ![p] = Tail(@)]
        /\ schema' = schema /\ schemaReturned' = schemaReturned
    BY DEF Migration!Record, Migration!CanWrite
  <1>2. /\ old \in Migration!Database /\ Migration!Complete(old)
        /\ schema.objects \subseteq old.objects /\ schema.recorded \subseteq old.recorded
    BY SchemaViews
  <1>3. s \in Seq(Migration!Statement) /\ s # <<>>
    BY <1>1 DEF Migration!MigrationInv, Migration!TypeInv
  <1>4. /\ head \in Migration!Statement /\ Tail(s) \in Seq(Migration!Statement)
        /\ DOMAIN s = 1..Len(s) /\ Len(s) \in Nat \ {0} /\ head = s[1]
        /\ \A i \in DOMAIN s : s[i] \in Migration!Statement
    BY <1>3
  <1>5. /\ \A i, j \in DOMAIN s : i < j /\ s[i].object = None => s[i].version < s[j].version
        /\ \A v \in Migration!Versions :
             /\ \A o \in Migration!ObjectsOf(v) :
                  (\E i \in DOMAIN s : s[i] = [version |-> v, object |-> o]) \/ o \in old.objects
             /\ (\E i \in DOMAIN s : s[i] = [version |-> v, object |-> None]) \/ v \in old.recorded
    BY <1>1 DEF Migration!MigrationInv, Migration!ScriptInv, Migration!Left
  <1> HIDE DEF s, head, old
  <1>6. /\ new.recorded = old.recorded \cup {head.version} /\ new.objects = old.objects
        /\ new \in Migration!Database
    BY <1>2, <1>4 DEF Migration!Database, Migration!Statement
  <1> HIDE DEF new
  <1>7. ASSUME NEW i \in DOMAIN s, s[i].version <= head.version
        PROVE  s[i] = head
    <2>1. CASE i = 1
      BY <1>4, <2>1
    <2>2. CASE i # 1
      <3>1. 1 \in DOMAIN s /\ 1 < i
        BY <1>4, <2>2
      <3>2. head.version < s[i].version
        BY <1>1, <1>4, <1>5, <3>1
      <3>3. head.version \in Int /\ s[i].version \in Int
        BY <1>4 DEF Migration!Statement, Migration!Versions
      <3> QED BY <1>7, <3>2, <3>3
    <2> QED BY <2>1, <2>2
  <1>8. ASSUME NEW u \in Migration!Versions, u <= head.version
        PROVE  u \in new.recorded /\ Migration!ObjectsOf(u) \subseteq new.objects
    <2>1. ASSUME NEW x, NEW i \in DOMAIN s, s[i] = [version |-> u, object |-> x]
          PROVE  u = head.version /\ x = None
      <3>1. s[i].version = u /\ s[i].object = x
        BY <2>1
      <3>2. s[i] = head
        BY <1>7, <1>8, <3>1
      <3> QED BY <1>1, <3>1, <3>2
    <2>2. \A o \in Migration!ObjectsOf(u) : o # None
      BY MigrationNoneAssumption DEF Migration!AllObjects, Migration!Versions
    <2>3. Migration!ObjectsOf(u) \subseteq old.objects
      BY <1>5, <2>1, <2>2
    <2>4. u = head.version \/ u \in old.recorded
      BY <1>5, <2>1
    <2> QED BY <1>6, <2>3, <2>4
  <1>9. Migration!Complete(new)
    <2> SUFFICES ASSUME NEW v \in new.recorded, NEW u \in 1..v
                 PROVE  u \in new.recorded /\ Migration!ObjectsOf(u) \subseteq new.objects
      BY DEF Migration!Complete
    <2>1. CASE v \in old.recorded
      BY <1>2, <1>6, <2>1 DEF Migration!Complete
    <2>2. CASE v = head.version
      <3>1. v \in 1..2
        BY <1>4, <2>2 DEF Migration!Statement, Migration!Versions
      <3>2. u \in Migration!Versions /\ u <= head.version
        BY <2>2, <3>1 DEF Migration!Versions
      <3> QED BY <1>8, <3>2
    <2> QED BY <1>6, <2>1, <2>2
  <1>10. Migration!TypeInv'
    BY <1>1, <1>4, <1>6 DEF Migration!MigrationInv, Migration!TypeInv, s
  <1>11. Migration!RecordedIsComplete' /\ Migration!TransactionInv' /\ Migration!ReturnedIsCurrent'
    BY <1>1, <1>2, <1>6, <1>9
    DEF Migration!MigrationInv, Migration!RecordedIsComplete, Migration!TransactionInv,
        Migration!Complete, Migration!ReturnedIsCurrent
  <1>12. schemaTodo'[p] = Tail(s) /\ \A q \in Processes \ {p} : schemaTodo'[q] = schemaTodo[q]
    BY <1>1 DEF Migration!MigrationInv, Migration!TypeInv, s
  <1>13. Migration!ScriptInv(p)'
    <2>1. /\ old.objects \subseteq Migration!View(p)'.objects
          /\ old.recorded \subseteq Migration!View(p)'.recorded
          /\ head.version \in Migration!View(p)'.recorded
      BY <1>1, <1>6 DEF Migration!View
    <2> QED BY <1>1, <1>12, <2>1, ScriptAdvanced DEF Migration!MigrationInv, old, head, s
  <1>14. ASSUME NEW q \in Processes, q # p PROVE Migration!ScriptInv(q)'
    <2>1. Migration!View(q) = schema /\ Migration!View(q)' = schema'
      BY <1>1, <1>14, NoneAssumption DEF Migration!View
    <2> QED BY <1>1, <1>12, <1>14, <2>1, ScriptKept DEF Migration!MigrationInv
  <1> QED BY <1>10, <1>11, <1>13, <1>14 DEF Migration!MigrationInv

\* A call with nothing left to do has every version in what it commits.
LEMMA ReturnStep ==
  ASSUME Migration!MigrationInv, NEW p \in Processes, Migration!Commit(p)
  PROVE  Migration!MigrationInv'
  <1>1. /\ schemaTodo[p] = <<>>
        /\ schema' = Migration!View(p) /\ schemaWork' = schemaWork
        /\ schemaWriter' = IF schemaWriter = p THEN None ELSE schemaWriter
        /\ schemaTodo' = [schemaTodo EXCEPT ![p] = None]
        /\ schemaReturned' = TRUE
    BY DEF Migration!Commit
  <1>2. /\ Migration!View(p) \in Migration!Database /\ Migration!Complete(Migration!View(p))
        /\ schema.objects \subseteq schema'.objects /\ schema.recorded \subseteq schema'.recorded
    BY <1>1, SchemaViews
  <1>3. schema'.recorded = Migration!Versions
    <2>1. schemaTodo[p] # None /\ Migration!Left(p) = {}
      <3>1. <<>> \in Seq(Migration!Statement) /\ DOMAIN <<>> = {}
        OBVIOUS
      <3> QED BY <1>1, <3>1, MigrationNoneAssumption DEF Migration!Left
    <2>2. \A v \in Migration!Versions : v \in Migration!View(p).recorded
      BY <2>1 DEF Migration!MigrationInv, Migration!ScriptInv
    <2> QED BY <1>1, <1>2, <2>2 DEF Migration!Database
  <1>4. Migration!TypeInv'
    BY <1>1, <1>2 DEF Migration!MigrationInv, Migration!TypeInv
  <1>5. Migration!RecordedIsComplete' /\ Migration!TransactionInv' /\ Migration!ReturnedIsCurrent'
    <2>1. schemaWriter' # None => schema' = schema
      BY <1>1 DEF Migration!View
    <2> QED BY <1>1, <1>2, <1>3, <2>1
            DEF Migration!MigrationInv, Migration!RecordedIsComplete, Migration!TransactionInv,
                Migration!Complete, Migration!ReturnedIsCurrent
  <1>6. schemaTodo'[p] = None /\ \A q \in Processes \ {p} : schemaTodo'[q] = schemaTodo[q]
    BY <1>1 DEF Migration!MigrationInv, Migration!TypeInv
  <1>7. Migration!ScriptInv(p)'
    BY <1>6 DEF Migration!ScriptInv
  <1>8. ASSUME NEW q \in Processes, q # p PROVE Migration!ScriptInv(q)'
    <2>1. /\ Migration!View(q).objects \subseteq Migration!View(q)'.objects
          /\ Migration!View(q).recorded \subseteq Migration!View(q)'.recorded
      BY <1>1, <1>2, <1>8, NoneAssumption DEF Migration!View
    <2> QED BY <1>6, <1>8, <2>1, ScriptKept DEF Migration!MigrationInv
  <1> QED BY <1>4, <1>5, <1>7, <1>8 DEF Migration!MigrationInv

\* A call that fails or dies undoes its own transaction only.
LEMMA FailStep ==
  ASSUME Migration!MigrationInv, NEW p \in Processes, Migration!Abort(p)
  PROVE  Migration!MigrationInv'
  <1>1. /\ schema' = schema
        /\ schemaWork' = IF schemaWriter = p THEN schema ELSE schemaWork
        /\ schemaWriter' = IF schemaWriter = p THEN None ELSE schemaWriter
        /\ schemaTodo' = [schemaTodo EXCEPT ![p] = None]
        /\ schemaReturned' = schemaReturned
    BY DEF Migration!Abort
  <1>2. Migration!TypeInv'
    BY <1>1 DEF Migration!MigrationInv, Migration!TypeInv
  <1>3. Migration!RecordedIsComplete' /\ Migration!TransactionInv' /\ Migration!ReturnedIsCurrent'
    BY <1>1 DEF Migration!MigrationInv, Migration!RecordedIsComplete, Migration!TransactionInv,
                Migration!Complete, Migration!ReturnedIsCurrent
  <1>4. schemaTodo'[p] = None /\ \A q \in Processes \ {p} : schemaTodo'[q] = schemaTodo[q]
    BY <1>1 DEF Migration!MigrationInv, Migration!TypeInv
  <1>5. Migration!ScriptInv(p)'
    BY <1>4 DEF Migration!ScriptInv
  <1>6. ASSUME NEW q \in Processes, q # p PROVE Migration!ScriptInv(q)'
    <2>1. Migration!View(q)' = Migration!View(q)
      BY <1>1, <1>6, NoneAssumption DEF Migration!View
    <2> QED BY <1>4, <1>6, <2>1, ScriptKept DEF Migration!MigrationInv
  <1> QED BY <1>2, <1>3, <1>5, <1>6 DEF Migration!MigrationInv

-----------------------------------------------------------------------------
(* The theorems.                                                           *)

\* The migration's invariant holds whatever processes migrate at a time and
\* wherever one of them dies.
LEMMA MigrationInvariance == Migration!Spec => []Migration!MigrationInv
  <1>1. Migration!MigrationInv /\ [Migration!Next]_(Migration!vars) => Migration!MigrationInv'
    <2> SUFFICES ASSUME Migration!MigrationInv, [Migration!Next]_(Migration!vars)
                 PROVE  Migration!MigrationInv'
      OBVIOUS
    <2>1. CASE Migration!Next
      <3>1. PICK p \in Processes : \/ Migration!Start(p) \/ Migration!Create(p)
                                   \/ Migration!Record(p) \/ Migration!Commit(p)
                                   \/ Migration!Abort(p)
        BY <2>1 DEF Migration!Next
      <3> QED BY <3>1, StartStep, CreateStep, RecordStep, ReturnStep, FailStep
    <2>2. CASE UNCHANGED Migration!vars
      BY <2>2 DEF Migration!vars, Migration!MigrationInv, Migration!TypeInv, Migration!TransactionInv,
                  Migration!RecordedIsComplete, Migration!Complete, Migration!ReturnedIsCurrent,
                  Migration!ScriptInv, Migration!Left, Migration!View
    <2> QED BY <2>1, <2>2
  <1> QED BY <1>1, MigrationStarts, PTL DEF Migration!Spec

\* The composition only interleaves: the calls behave as those of AuditStore,
\* the migrations as those of SchemaMigration.
THEOREM CompositionIsSound == PersistenceSpec => Spec /\ Migration!Spec
  <1>1. PersistenceInit => Init /\ Migration!Init
    BY DEF PersistenceInit
  <1>2. [PersistenceNext]_<<vars, schemaVars>> => [Next]_vars /\ [Migration!Next]_(Migration!vars)
    BY DEF PersistenceNext, Migrate, Use, schemaVars, Migration!vars
  <1> QED BY <1>1, <1>2, PTL DEF PersistenceSpec, Spec, Migration!Spec

\* A version recorded in schema_migrations is in the database in full, and
\* every version before it is recorded, whatever overlaps and dies.
THEOREM RecordedVersionsAreComplete == PersistenceSpec => []RecordedIsComplete
  <1>1. Migration!MigrationInv => RecordedIsComplete
    BY DEF Migration!MigrationInv, RecordedIsComplete
  <1> QED BY <1>1, CompositionIsSound, MigrationInvariance, PTL

\* After any call of migrate returned the schema is current for good.
THEOREM MigrateReturnsCurrent == PersistenceSpec => []ReturnedIsCurrent
  <1>1. Migration!MigrationInv => ReturnedIsCurrent
    BY DEF Migration!MigrationInv, ReturnedIsCurrent
  <1> QED BY <1>1, CompositionIsSound, MigrationInvariance, PTL

\* What is proved of the calls by themselves holds of a database that other
\* processes migrate before, between and after them: persist_opportunity is
\* atomic, its evidence stays reconstructable and the audit trail complete.
THEOREM MigratedStoreIsAuditable ==
  PersistenceSpec => /\ [](TypeOK /\ WholeOpportunities /\ AuditableUnlessOverlapped)
                     /\ EvidenceProtected
                     /\ AuditTrail
  BY CompositionIsSound, TypeCorrect, OpportunitiesAreWhole, EvidenceIsAuditable,
     EvidenceIsProtected, AuditTrailIsComplete, PTL
=============================================================================
