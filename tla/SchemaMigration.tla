-------------------------- MODULE SchemaMigration ---------------------------
(***************************************************************************)
(* SqliteAuditStore.migrate (persistence/store.py), one step a statement.  *)
(* The sqlite3 module of Python opens a transaction before an INSERT and   *)
(* not before a CREATE: a CREATE outside a transaction is durable at once. *)
(***************************************************************************)
EXTENDS Integers, Sequences

CONSTANTS
  Processes,   \* processes that start on the same database
  None

\* _MIGRATIONS: the versions, and the tables and indexes each one creates.
Versions == 1..2
Objects(version) ==
  IF version = 1
  THEN <<"canonical_snapshots", "idx_snapshots_event_time", "idx_snapshots_provider_time",
         "opportunity_quotes", "idx_opportunity_quotes_quote", "opportunity_stake_plans",
         "audit_events", "idx_audit_entity_time">>
  ELSE <<"idx_snapshots_type_time">>

ObjectsOf(version) == {Objects(version)[i] : i \in DOMAIN Objects(version)}

VARIABLES
  db,        \* the committed objects, and the versions in schema_migrations
  writer,    \* the process with an open transaction, or None
  work,      \* the database as that process sees it; without one, as it is
  todo,      \* of each process: the statements left, or None
  returned   \* history: some call of migrate has returned

vars == <<db, writer, work, todo, returned>>

View(p) == IF writer = p THEN work ELSE db
CanWrite(p) == writer \in {None, p}

\* A new database, or one of the release that had version 1 only.
Init ==
  /\ db \in {[objects |-> UNION {ObjectsOf(v) : v \in old}, recorded |-> old] : old \in {{}, {1}}}
  /\ writer = None
  /\ work = db
  /\ todo = [p \in Processes |-> None]
  /\ returned = FALSE

\* Fault: what follows the last semicolon but one is not executed.
CreationsButLast(version) ==
  [i \in 1..(Len(Objects(version)) - 1) |-> [version |-> version, object |-> Objects(version)[i]]]

\* The statements of one version.
Creations(version) ==
  [i \in DOMAIN Objects(version) |-> [version |-> version, object |-> Objects(version)[i]]]

\* The statements, and the INSERT INTO schema_migrations (object None).
Script(version) == Creations(version) \o <<[version |-> version, object |-> None]>>

\* Fault: a recorded version ends the loop.
DueUpToFirst(applied) == IF 1 \in applied THEN <<>> ELSE Script(1) \o Script(2)

\* What is left to do after SELECT version FROM schema_migrations.
Due(applied) ==
  (IF 1 \in applied THEN <<>> ELSE Script(1)) \o (IF 2 \in applied THEN <<>> ELSE Script(2))

\* schema_migrations is created if it is missing, and read.
Start(p) ==
  /\ todo[p] = None
  /\ todo' = [todo EXCEPT ![p] = Due(db.recorded)]
  /\ UNCHANGED <<db, writer, work, returned>>

\* A CREATE: an error if the object exists, durable at once outside a transaction.
Create(p) ==
  /\ todo[p] \notin {None, <<>>}
  /\ Head(todo[p]).object # None
  /\ CanWrite(p)
  /\ Head(todo[p]).object \notin View(p).objects
  /\ LET new == [View(p) EXCEPT !.objects = @ \cup {Head(todo[p]).object}] IN
       work' = new /\ db' = IF writer = p THEN db ELSE new
  /\ todo' = [todo EXCEPT ![p] = Tail(@)]
  /\ UNCHANGED <<writer, returned>>

\* The INSERT opens the transaction in which the later versions run as well.
Record(p) ==
  /\ todo[p] \notin {None, <<>>}
  /\ Head(todo[p]).object = None
  /\ CanWrite(p)
  /\ Head(todo[p]).version \notin View(p).recorded
  /\ work' = [View(p) EXCEPT !.recorded = @ \cup {Head(todo[p]).version}]
  /\ writer' = p
  /\ todo' = [todo EXCEPT ![p] = Tail(@)]
  /\ UNCHANGED <<db, returned>>

\* migrate returns.
Commit(p) ==
  /\ todo[p] = <<>>
  /\ db' = View(p)
  /\ writer' = IF writer = p THEN None ELSE writer
  /\ todo' = [todo EXCEPT ![p] = None]
  /\ returned' = TRUE
  /\ UNCHANGED work

\* A statement fails or the process dies; only an open transaction is undone.
Abort(p) ==
  /\ todo[p] # None
  /\ writer' = IF writer = p THEN None ELSE writer
  /\ work' = IF writer = p THEN db ELSE work
  /\ todo' = [todo EXCEPT ![p] = None]
  /\ UNCHANGED <<db, returned>>

Next == \E p \in Processes : Start(p) \/ Create(p) \/ Record(p) \/ Commit(p) \/ Abort(p)

Spec == Init /\ [][Next]_vars

-----------------------------------------------------------------------------
\* Every recorded version is in the database in full, and so are those before.
Complete(d) ==
  \A v \in d.recorded : \A u \in 1..v : u \in d.recorded /\ ObjectsOf(u) \subseteq d.objects

\* A recorded version is there in full, and with it the versions before it,
\* whatever processes migrate at a time and wherever one of them dies.
RecordedIsComplete == Complete(db)

\* Once a call of migrate has returned, every version is in place.
ReturnedIsCurrent == returned => db.recorded = Versions

\* "Apply all schema migrations exactly once": while nobody migrates, a call of
\* migrate can complete; no object of a version that is still due exists.
CanMigrate ==
  (\A p \in Processes : todo[p] = None) =>
    \A v \in Versions \ db.recorded : ObjectsOf(v) \cap db.objects = {}

-----------------------------------------------------------------------------
(* The inductive invariant.                                                *)

AllObjects == ObjectsOf(1) \cup ObjectsOf(2)
Statement == [version : Versions, object : AllObjects \cup {None}]
Database == [objects : SUBSET AllObjects, recorded : SUBSET Versions]

TypeInv ==
  /\ db \in Database
  /\ work \in Database
  /\ writer \in Processes \cup {None}
  /\ todo \in [Processes -> Seq(Statement) \cup {None}]
  /\ returned \in BOOLEAN

\* An open transaction has only added to the database.
TransactionInv ==
  writer # None => /\ db.objects \subseteq work.objects
                   /\ db.recorded \subseteq work.recorded
                   /\ Complete(work)

Left(p) == {todo[p][i] : i \in DOMAIN todo[p]}

\* What a call no longer has to do is done in the database it sees, whoever did
\* it, and once it records a version only later versions are left.
ScriptInv(p) ==
  todo[p] # None =>
    /\ \A i, j \in DOMAIN todo[p] :
         i < j /\ todo[p][i].object = None => todo[p][i].version < todo[p][j].version
    /\ \A v \in Versions :
         /\ \A o \in ObjectsOf(v) :
              [version |-> v, object |-> o] \in Left(p) \/ o \in View(p).objects
         /\ [version |-> v, object |-> None] \in Left(p) \/ v \in View(p).recorded

MigrationInv ==
  /\ TypeInv
  /\ RecordedIsComplete
  /\ TransactionInv
  /\ \A p \in Processes : ScriptInv(p)
  /\ ReturnedIsCurrent
=============================================================================
