--------------------------- MODULE SchemaVersion ---------------------------
(***************************************************************************)
(* What the migration runner promises, however many servers of whatever    *)
(* releases start, fail and start again: the database has a version that   *)
(* goes up by one at a time, and a server at work relies on no version     *)
(* that the database has not reached.                                      *)
(***************************************************************************)
EXTENDS Naturals

CONSTANT Instances

VARIABLES
    version,   \* the migrations in force are 1 .. version
    needs      \* the version a server relies on, 0 for one that is not serving

Init == version = 0 /\ needs = [i \in Instances |-> 0]

Migrate == version' = version + 1 /\ UNCHANGED needs

Rely(i, n) == needs' = [needs EXCEPT ![i] = n] /\ UNCHANGED version

Next == Migrate \/ \E i \in Instances, n \in 0..version : Rely(i, n)

Spec == Init /\ [][Next]_<<version, needs>>
=============================================================================
