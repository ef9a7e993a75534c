----------------------------- MODULE Migrations -----------------------------
(***************************************************************************)
(* The migration runner (internal/database/migrate.go) as cmd/server/main  *)
(* calls it: every instance of the server migrates the one database before *)
(* it serves, and exits on any error; the container is started again.      *)
(* Instances may overlap and may come from different releases.             *)
(***************************************************************************)
EXTENDS Integers, FiniteSets

CONSTANTS
    Instances,   \* server processes that share the database
    Releases,    \* the sets of migrations (numbers of *.up.sql) releases ship
    MaxFaults    \* bound on crashes and failed statements

\* A release ships the migrations 1 .. n for some n.
ASSUME ReleaseAssumption ==
    \A R \in Releases : IsFiniteSet(R) /\ R = 1 .. Cardinality(R)

ASSUME FaultAssumption == MaxFaults \in Nat

VARIABLES
    made,      \* the table schema_migrations exists
    schema,    \* migrations whose SQL is in force
    records,   \* rows of schema_migrations
    pc,        \* what an instance does next
    files,     \* the migrations in its directory
    todo,      \* those it still has to apply
    faults     \* failures so far

vars == <<made, schema, records, pc, files, todo, faults>>

TypeOK ==
    /\ made \in BOOLEAN
    /\ schema \subseteq Nat \ {0}
    /\ records \subseteq Nat \ {0}
    /\ pc \in [Instances -> {"down", "hastable", "create", "load", "apply", "serving"}]
    /\ files \in [Instances -> Releases]
    /\ todo \in [Instances -> SUBSET (Nat \ {0})]
    /\ faults \in 0 .. MaxFaults

Init ==
    /\ made = FALSE
    /\ schema = {}
    /\ records = {}
    /\ pc = [i \in Instances |-> "down"]
    /\ files \in [Instances -> Releases]
    /\ todo = [i \in Instances |-> {}]
    /\ faults = 0

Goto(i, label) == pc' = [pc EXCEPT ![i] = label]

\* The container starts, with the release deployed last.
Start(i, R) ==
    /\ pc[i] = "down"
    /\ files' = [files EXCEPT ![i] = R]
    /\ Goto(i, "hastable")
    /\ UNCHANGED <<made, schema, records, todo, faults>>

-----------------------------------------------------------------------------
(* AutoMigrate of schema_migrations: look for the table, then create it.   *)

HasTable(i) ==
    /\ pc[i] = "hastable"
    /\ Goto(i, IF made THEN "load" ELSE "create")
    /\ UNCHANGED <<made, schema, records, files, todo, faults>>

\* CREATE TABLE fails when another instance was faster: main exits.
CreateTable(i) ==
    /\ pc[i] = "create"
    /\ made' = TRUE
    /\ Goto(i, IF made THEN "down" ELSE "load")
    /\ UNCHANGED <<schema, records, files, todo, faults>>

-----------------------------------------------------------------------------
(* The loop over the pending files.                                        *)

Load(i) ==
    /\ pc[i] = "load"
    /\ todo' = [todo EXCEPT ![i] = files[i] \ records]
    /\ Goto(i, "apply")
    /\ UNCHANGED <<made, schema, records, files, faults>>

\* Mutant of IsNext: the files are taken in any order.
IsPending(i, v) == v \in todo[i]

\* v is the first file, in name order, that i has not applied.
IsNext(i, v) == v \in todo[i] /\ \A w \in todo[i] : v <= w

\* Mutant of Apply: the SQL and the record are not in one transaction.
ApplyThenRecord(i, v) ==
    /\ pc[i] = "apply" /\ IsNext(i, v)
    /\ v \notin schema
    /\ schema'  = schema \cup {v}
    /\ \/ records' = records \cup {v} /\ todo' = [todo EXCEPT ![i] = @ \ {v}]
          /\ UNCHANGED <<pc, faults>>
       \/ faults < MaxFaults /\ faults' = faults + 1 /\ Goto(i, "down")
          /\ UNCHANGED <<records, todo>>
    /\ UNCHANGED <<made, files>>

\* One transaction runs the SQL and records the version.
Apply(i, v) ==
    /\ pc[i] = "apply" /\ IsNext(i, v)
    /\ v \notin schema
    /\ schema'  = schema \cup {v}
    /\ records' = records \cup {v}
    /\ todo'    = [todo EXCEPT ![i] = @ \ {v}]
    /\ UNCHANGED <<made, pc, files, faults>>

\* Another instance has applied v since i read the table: the SQL (CREATE
\* TABLE without IF NOT EXISTS) fails, the transaction is rolled back and
\* main exits.
Conflict(i, v) ==
    /\ pc[i] = "apply" /\ IsNext(i, v)
    /\ v \in schema
    /\ Goto(i, "down")
    /\ UNCHANGED <<made, schema, records, files, todo, faults>>

Serve(i) ==
    /\ pc[i] = "apply" /\ todo[i] = {}
    /\ Goto(i, "serving")
    /\ UNCHANGED <<made, schema, records, files, todo, faults>>

\* Mutant of Fail: the error of a migration is logged and the loop goes on.
FailSkips(i) ==
    /\ pc[i] = "apply" /\ faults < MaxFaults
    /\ faults' = faults + 1
    /\ todo' = [todo EXCEPT ![i] = {v \in @ : ~IsNext(i, v)}]
    /\ UNCHANGED <<made, schema, records, pc, files>>

\* A statement fails for another reason, or the instance dies or is stopped.
Fail(i) ==
    /\ pc[i] # "down" /\ faults < MaxFaults
    /\ faults' = faults + 1
    /\ Goto(i, "down")
    /\ UNCHANGED <<made, schema, records, files, todo>>

Proceed(i) ==
    \/ \E R \in Releases : Start(i, R)
    \/ HasTable(i)
    \/ CreateTable(i)
    \/ Load(i)
    \/ \E v \in todo[i] : Apply(i, v)
    \/ \E v \in todo[i] : Conflict(i, v)
    \/ Serve(i)

Next == \E i \in Instances : Proceed(i) \/ Fail(i)

\* Containers are restarted (restart: unless-stopped) and processes scheduled.
Fairness == \A i \in Instances : WF_vars(Proceed(i))

Spec == Init /\ [][Next]_vars /\ Fairness

-----------------------------------------------------------------------------
(* Properties.                                                             *)

\* Whatever instances do to each other, the schema is at all times that of
\* some release: no migration is in force before one with a smaller number.
PrefixApplied ==
    \A v \in schema : 1 .. v - 1 \subseteq schema

\* An instance serves only when every migration it ships is in force, also
\* the ones other instances were to apply.
ServingComplete ==
    \A i \in Instances : pc[i] = "serving" => files[i] \subseteq schema

\* Instances that start together make each other exit, but re-runs are safe:
\* once nothing fails any more all of them come up.
AllServe == <>[](\A i \in Instances : pc[i] = "serving")

\* The last of some migrations.
Newest(S) == CHOOSE n \in S \cup {0} : \A v \in S : v <= n

Needs == [i \in Instances |-> IF pc[i] = "serving" THEN Newest(files[i]) ELSE 0]

Abstract == INSTANCE SchemaVersion WITH version <- Newest(schema), needs <- Needs

\* Overlapping instances without a lock implement one version number: each
\* migration runs once and after the one before it, and whoever serves finds
\* at least its own version, also after failures and restarts.
ImplementsVersion == Abstract!Spec

-----------------------------------------------------------------------------
(* The inductive invariant.                                                *)

\* The record of a migration is there exactly when its SQL is in force.
Recorded == records = schema

\* What an instance ships and does not have on its list, is in force.
ListComplete ==
    \A i \in Instances : pc[i] \in {"apply", "serving"} =>
        todo[i] \subseteq files[i] /\ files[i] \ todo[i] \subseteq schema

ServingDone == \A i \in Instances : pc[i] = "serving" => todo[i] = {}

Inv == TypeOK /\ Recorded /\ PrefixApplied /\ ListComplete /\ ServingDone
=============================================================================
