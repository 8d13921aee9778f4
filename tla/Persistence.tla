---------------------------- MODULE Persistence -----------------------------
(***************************************************************************)
(* A database from its creation on: processes migrate it                   *)
(* (SchemaMigration), then use it (AuditStore), and processes that start   *)
(* later migrate it again.                                                 *)
(*                                                                         *)
(* A call on a database without the tables fails at its first statement    *)
(* and changes nothing, so it is left out. Migrations and calls are not    *)
(* interleaved: once the schema is current a migration only reads.         *)
(***************************************************************************)
EXTENDS AuditStore

VARIABLES schema, schemaWriter, schemaWork, schemaTodo, schemaReturned

schemaVars == <<schema, schemaWriter, schemaWork, schemaTodo, schemaReturned>>

Migration == INSTANCE SchemaMigration WITH
  db <- schema, writer <- schemaWriter, work <- schemaWork, todo <- schemaTodo,
  returned <- schemaReturned

ASSUME MigrationNoneAssumption ==
  None \notin Migration!AllObjects \cup Seq(Migration!Statement)

NoCallUnderWay == \A p \in Processes : call[p] = None
NoMigrationUnderWay == \A p \in Processes : schemaTodo[p] = None

\* The tables and indexes the statements of a call name.
Usable == Migration!ObjectsOf(1) \subseteq schema.objects

PersistenceInit == Init /\ Migration!Init

Migrate ==
  /\ NoCallUnderWay
  /\ Migration!Next
  /\ UNCHANGED vars

Use ==
  /\ NoMigrationUnderWay
  /\ Usable
  /\ Next
  /\ UNCHANGED schemaVars

PersistenceNext == Migrate \/ Use

PersistenceSpec == PersistenceInit /\ [][PersistenceNext]_<<vars, schemaVars>>

-----------------------------------------------------------------------------
\* Stated of the composition: see SchemaMigration.
RecordedIsComplete == Migration!RecordedIsComplete

\* Stated of the composition: see SchemaMigration.
ReturnedIsCurrent == Migration!ReturnedIsCurrent
=============================================================================
