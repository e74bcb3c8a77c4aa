------------------------------ MODULE Migrator ------------------------------
(***************************************************************************)
(* The migrations: migrateUp by processes that may start together and die  *)
(* at any statement, migrateDown by one that has the database to itself    *)
(* (only the tests call it), and the readiness the API answers from.       *)
(*                                                                         *)
(* Migration 1 creates the ledger, schema_migrations.  CREATE of an object *)
(* that another open transaction creates waits for it, and fails if the    *)
(* object is there.                                                        *)
(***************************************************************************)
EXTENDS Naturals, FiniteSets

CONSTANTS
  Processes,  \* processes that call the migrator
  Last        \* number of the last migration

ASSUME MigrationsAssumption == Last \in Nat \ {0}

Migrations == 1..Last

VARIABLES
  schema,  \* migrations whose objects exist, committed
  ledger,  \* ids in schema_migrations, committed
  pc,      \* of each process: the statement it is to run, idle or failed
  at,      \* the migration it is at
  raced,   \* processes that were not alone all the time
  ready    \* what /health/ready answered last

vars == <<schema, ledger, pc, at, raced, ready>>

Running(p) == pc[p] \notin {"idle", "failed"}

Others(p) == {q \in Processes \ {p} : Running(q)}

Init ==
  /\ schema = {} /\ ledger = {}
  /\ pc = [p \in Processes |-> "idle"] /\ at = [p \in Processes |-> 0]
  /\ raced = {} /\ ready = FALSE

\* The ledger may not exist yet; then nothing is applied.
appliedMigrationIds == ledger

SomeIsApplied == appliedMigrationIds # {}

isSchemaReady == Migrations \subseteq appliedMigrationIds

Health == ready' = isSchemaReady /\ UNCHANGED <<schema, ledger, pc, at, raced>>

Go(p, stage, migration) ==
  /\ pc' = [pc EXCEPT ![p] = stage]
  /\ at' = [at EXCEPT ![p] = migration]
----------------------------------------------------------------------------
(* migrateUp.                                                              *)

StartUp(p) ==
  /\ pc[p] \in {"idle", "failed"}
  /\ \A q \in Processes : pc[q] \notin {"drop", "dropped"}
  /\ Go(p, "look", 1)
  /\ raced' = IF Others(p) = {} THEN raced \ {p}
              ELSE raced \cup Others(p) \cup {p}
  /\ UNCHANGED <<schema, ledger, ready>>

GoOn(p) == IF at[p] = Last THEN Go(p, "idle", 0) ELSE Go(p, "look", at[p] + 1)

Look(p) ==
  /\ pc[p] = "look"
  /\ IF at[p] \in appliedMigrationIds THEN GoOn(p) ELSE Go(p, "create", at[p])
  /\ UNCHANGED <<schema, ledger, raced, ready>>

InUse(p) ==
  \E q \in Processes \ {p} : at[q] = at[p] /\ pc[q] \in {"created", "recorded"}

CreateAndCommit(p) ==
  /\ pc[p] = "create" /\ ~InUse(p) /\ at[p] \notin schema
  /\ Go(p, "created", at[p])
  /\ schema' = schema \cup {at[p]}
  /\ UNCHANGED <<ledger, raced, ready>>

Create(p) ==
  /\ pc[p] = "create" /\ ~InUse(p) /\ at[p] \notin schema
  /\ Go(p, "created", at[p])
  /\ UNCHANGED <<schema, ledger, raced, ready>>

\* CREATE TABLE, without IF NOT EXISTS in any migration: the second of two that
\* create schema_migrations fails here and never reaches its ON CONFLICT.
AlreadyThere(p) ==
  /\ pc[p] = "create" /\ ~InUse(p) /\ at[p] \in schema
  /\ Go(p, "failed", 0)
  /\ UNCHANGED <<schema, ledger, raced, ready>>

InsertId(p) ==
  /\ pc[p] = "created"
  /\ Go(p, "recorded", at[p])
  /\ UNCHANGED <<schema, ledger, raced, ready>>

Commit(p) ==
  /\ pc[p] = "recorded"
  /\ schema' = schema \cup {at[p]} /\ ledger' = ledger \cup {at[p]}
  /\ GoOn(p)
  /\ UNCHANGED <<raced, ready>>

\* The process dies or its connection fails: the transaction rolls back.
Die(p) ==
  /\ Running(p)
  /\ Go(p, "idle", 0)
  /\ UNCHANGED <<schema, ledger, raced, ready>>
----------------------------------------------------------------------------
(* migrateDown, from the last applied migration to the first.              *)

Oldest(ids) == CHOOSE id \in ids : \A other \in ids : id <= other

Newest(ids) == CHOOSE id \in ids : \A other \in ids : other <= id

StartDown(p) ==
  /\ pc[p] = "idle" /\ Others(p) = {} /\ appliedMigrationIds # {}
  /\ Go(p, "drop", Newest(appliedMigrationIds))
  /\ raced' = raced \ {p}
  /\ UNCHANGED <<schema, ledger, ready>>

Drop(p) ==
  /\ pc[p] = "drop"
  /\ Go(p, "dropped", at[p])
  /\ UNCHANGED <<schema, ledger, raced, ready>>

\* Undoing migration 1 drops the ledger itself.
CommitDrop(p) ==
  /\ pc[p] = "dropped"
  /\ schema' = schema \ {at[p]}
  /\ ledger' = IF at[p] = 1 THEN {} ELSE ledger \ {at[p]}
  /\ IF at[p] = 1 THEN Go(p, "idle", 0) ELSE Go(p, "drop", at[p] - 1)
  /\ UNCHANGED <<raced, ready>>

Step(p) ==
  \/ Look(p) \/ Create(p) \/ AlreadyThere(p) \/ InsertId(p) \/ Commit(p)
  \/ Drop(p) \/ CommitDrop(p)

Next ==
  \/ Health
  \/ \E p \in Processes : StartUp(p) \/ StartDown(p) \/ Step(p) \/ Die(p)

Spec == Init /\ [][Next]_vars
----------------------------------------------------------------------------
(* The ledger names the migrations whose objects exist, and they are the   *)
(* first ones without a gap, whoever died where and however many migrate   *)
(* at once.                                                                *)
LedgerTellsSchema ==
  /\ ledger = schema
  /\ \A m \in schema : 1..m \subseteq schema

(* The API never says it is ready before the whole schema is there         *)
(* (ADR-0006:67): whenever it says so, every migration is committed.       *)
ReadyMeansMigrated == [][ready' /\ ~ready => schema = Migrations]_vars

(* A process that migrates alone does not fail: wherever an earlier one    *)
(* died, a new start finds what it can go on from.                         *)
FailsOnlyInARace == \A p \in Processes : pc[p] = "failed" => p \in raced
=============================================================================
