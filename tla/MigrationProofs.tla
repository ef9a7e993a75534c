-------------------------- MODULE MigrationProofs --------------------------
(***************************************************************************)
(* The safety of the migration runner, for any number of instances,        *)
(* releases and failures.                                                  *)
(***************************************************************************)
EXTENDS Migrations, FiniteSetTheorems, TLAPS

\* A release ships the migrations up to its last.
LEMMA ReleaseIsPrefix ==
    ASSUME NEW R \in Releases
    PROVE  /\ \E n \in Nat : R = 1 .. n
           /\ R \subseteq Nat \ {0}
           /\ \A v \in R : 1 .. v - 1 \subseteq R
<1>1. Cardinality(R) \in Nat /\ R = 1 .. Cardinality(R)
  BY ReleaseAssumption, FS_CardinalityType
<1>2. PICK n \in Nat : R = 1 .. n
  BY <1>1
<1> QED
  BY <1>2

\* Before the first instance starts, the empty database is consistent.
LEMMA InitInv == Init => Inv
<1> SUFFICES ASSUME Init PROVE Inv
  OBVIOUS
<1>a. faults \in 0 .. MaxFaults
  BY FaultAssumption DEF Init
<1>d. made \in BOOLEAN
  BY Zenon DEF Init
<1>b. schema \subseteq Nat \ {0} /\ records \subseteq Nat \ {0}
  BY DEF Init
<1>c. todo \in [Instances -> SUBSET (Nat \ {0})]
  BY DEF Init
<1>1. TypeOK
  BY <1>a, <1>b, <1>c, <1>d DEF Init, TypeOK
<1>2. Recorded /\ PrefixApplied
  BY DEF Init, Recorded, PrefixApplied
<1>3. ListComplete /\ ServingDone
  BY DEF Init, ListComplete, ServingDone
<1> QED
  BY <1>1, <1>2, <1>3 DEF Inv

\* Applying the first migration on the list of an instance keeps the schema
\* a prefix: the smaller ones are shipped with it and not on the list, so
\* they are in force.
LEMMA ApplyKeepsPrefix ==
    ASSUME Inv, NEW i \in Instances, NEW v \in todo[i], Apply(i, v)
    PROVE  PrefixApplied'
<1>1. files[i] \in Releases /\ v \in files[i]
  BY DEF Inv, TypeOK, ListComplete, Apply
<1>2. 1 .. v - 1 \subseteq files[i]
  BY <1>1, ReleaseIsPrefix
<1>3. v \in Nat \ {0} /\ todo[i] \subseteq Nat \ {0}
  BY DEF Inv, TypeOK
<1>4. 1 .. v - 1 \subseteq files[i] \ todo[i]
  BY <1>2, <1>3 DEF Apply, IsNext
<1>5. 1 .. v - 1 \subseteq schema
  BY <1>4 DEF Inv, ListComplete, Apply
<1>6. schema' = schema \cup {v}
  BY DEF Apply
<1> QED
  BY <1>5, <1>6 DEF Inv, PrefixApplied

\* Every step of every instance preserves the invariant.
LEMMA NextInv == Inv /\ [Next]_vars => Inv'
<1> SUFFICES ASSUME Inv, [Next]_vars PROVE Inv'
  OBVIOUS
<1>t. TypeOK /\ Recorded /\ PrefixApplied /\ ListComplete /\ ServingDone
  BY DEF Inv
<1>1. ASSUME NEW i \in Instances, NEW R \in Releases, Start(i, R) PROVE Inv'
  BY <1>t, <1>1 DEF Start, Goto, Inv, TypeOK, Recorded, PrefixApplied, ListComplete, ServingDone
<1>2. ASSUME NEW i \in Instances, HasTable(i) PROVE Inv'
  BY <1>t, <1>2 DEF HasTable, Goto, Inv, TypeOK, Recorded, PrefixApplied, ListComplete, ServingDone
<1>3. ASSUME NEW i \in Instances, CreateTable(i) PROVE Inv'
  BY <1>t, <1>3 DEF CreateTable, Goto, Inv, TypeOK, Recorded, PrefixApplied, ListComplete, ServingDone
<1>4. ASSUME NEW i \in Instances, Load(i) PROVE Inv'
  <2>1. files[i] \subseteq Nat \ {0}
    BY <1>t, ReleaseIsPrefix DEF TypeOK
  <2>2. TypeOK'
    BY <1>t, <1>4, <2>1 DEF Load, Goto, TypeOK
  <2>3. (Recorded /\ PrefixApplied)'
    BY <1>t, <1>4 DEF Load, Recorded, PrefixApplied
  <2>4. ListComplete'
    BY <1>t, <1>4 DEF Load, Goto, Recorded, ListComplete, TypeOK
  <2>5. ServingDone'
    BY <1>t, <1>4 DEF Load, Goto, ServingDone, TypeOK
  <2> QED
    BY <2>2, <2>3, <2>4, <2>5 DEF Inv
<1>5. ASSUME NEW i \in Instances, NEW v \in todo[i], Apply(i, v) PROVE Inv'
  <2>1. PrefixApplied'
    BY <1>5, ApplyKeepsPrefix
  <2>2. TypeOK'
    BY <1>t, <1>5 DEF Apply, TypeOK
  <2>3. Recorded'
    BY <1>t, <1>5 DEF Apply, Recorded
  <2>4. ListComplete'
    BY <1>t, <1>5 DEF Apply, ListComplete, TypeOK
  <2>5. ServingDone'
    BY <1>t, <1>5 DEF Apply, ServingDone, TypeOK
  <2> QED
    BY <2>1, <2>2, <2>3, <2>4, <2>5 DEF Inv
<1>6. ASSUME NEW i \in Instances, NEW v \in todo[i], Conflict(i, v) PROVE Inv'
  BY <1>t, <1>6 DEF Conflict, Goto, Inv, TypeOK, Recorded, PrefixApplied, ListComplete, ServingDone
<1>7. ASSUME NEW i \in Instances, Serve(i) PROVE Inv'
  BY <1>t, <1>7 DEF Serve, Goto, Inv, TypeOK, Recorded, PrefixApplied, ListComplete, ServingDone
<1>8. ASSUME NEW i \in Instances, Fail(i) PROVE Inv'
  BY <1>t, <1>8, FaultAssumption
     DEF Fail, Goto, Inv, TypeOK, Recorded, PrefixApplied, ListComplete, ServingDone
<1>9. CASE UNCHANGED vars
  BY <1>t, <1>9 DEF vars, Inv, TypeOK, Recorded, PrefixApplied, ListComplete, ServingDone
<1> QED
  BY <1>1, <1>2, <1>3, <1>4, <1>5, <1>6, <1>7, <1>8, <1>9 DEF Next, Proceed

\* Migrate's transactions and the exit on any error are enough for instances
\* of different releases to share the database without a lock: the schema is
\* always that of a release, ...
THEOREM PrefixAlwaysApplied == Spec => []PrefixApplied
<1>1. Inv => PrefixApplied
  BY DEF Inv
<1> QED
  BY InitInv, NextInv, <1>1, PTL DEF Spec

\* ... and main does not get past Migrate before all that its release ships
\* is in force, whichever instance applied it.
THEOREM ServingAlwaysComplete == Spec => []ServingComplete
<1>1. Inv => ServingComplete
  BY DEF Inv, ListComplete, ServingDone, ServingComplete
<1> QED
  BY InitInv, NextInv, <1>1, PTL DEF Spec

-----------------------------------------------------------------------------
(* The refinement.                                                         *)

LEMMA NewestOfPrefix ==
    ASSUME NEW n \in Nat
    PROVE  Newest(1 .. n) = n
<1>1. n \in (1 .. n) \cup {0} /\ \A v \in 1 .. n : v <= n
  OBVIOUS
<1>2. ASSUME NEW m \in (1 .. n) \cup {0}, \A v \in 1 .. n : v <= m
      PROVE  m = n
  <2>1. CASE n = 0
    BY <1>2, <2>1
  <2>2. CASE n # 0
    BY <1>2, <2>2
  <2> QED
    BY <2>1, <2>2
<1> QED
  BY <1>1, <1>2 DEF Newest

\* The migrations in force have no gaps and an end.
SchemaEnds == \E n \in Nat : schema = 1 .. n

\* The migration applied is the one after the last.
LEMMA ApplyNext ==
    ASSUME Inv, NEW i \in Instances, NEW v \in todo[i], Apply(i, v),
           NEW n \in Nat, schema = 1 .. n
    PROVE  v = n + 1 /\ schema' = 1 .. n + 1
<1>1. v \in Nat \ {0} /\ v \notin schema /\ schema' = schema \cup {v}
  BY DEF Inv, TypeOK, Apply
<1>2. 1 .. v - 1 \subseteq schema'
  BY <1>1, ApplyKeepsPrefix DEF PrefixApplied
<1>3. v > n
  BY <1>1
<1>4. v <= n + 1
  <2>1. SUFFICES ASSUME v > n + 1 PROVE FALSE
    BY <1>1
  <2>2. n + 1 \in 1 .. v - 1 /\ n + 1 \notin 1 .. n /\ n + 1 # v
    BY <1>1, <2>1
  <2> QED
    BY <1>1, <1>2, <2>2
<1>5. v = n + 1
  BY <1>1, <1>3, <1>4
<1>6. (1 .. n) \cup {n + 1} = 1 .. n + 1
  OBVIOUS
<1> QED
  BY <1>1, <1>5, <1>6

\* The steps that apply no migration and begin or end no service change
\* neither the version nor what anybody relies on.
LEMMA QuietStep ==
    ASSUME schema' = schema, Inv,
           \A j \in Instances :
              \/ pc'[j] # "serving" /\ pc[j] # "serving"
              \/ pc'[j] = pc[j] /\ files'[j] = files[j]
    PROVE  Newest(schema)' = Newest(schema) /\ Needs' = Needs
<1>1. Newest(schema)' = Newest(schema)
  BY DEF Newest
<1>2. \A j \in Instances : Newest(files[j])' = Newest(files'[j])
  BY DEF Newest
<1>3. Needs' = Needs
  BY <1>2 DEF Needs
<1> QED
  BY <1>1, <1>3

\* A server begins to rely on a version, or on none.
LEMMA ServiceStep ==
    ASSUME schema' = schema, files' = files, Inv, NEW i \in Instances, NEW l,
           pc' = [pc EXCEPT ![i] = l]
    PROVE  /\ Newest(schema)' = Newest(schema)
           /\ Needs' = [Needs EXCEPT ![i] = IF l = "serving" THEN Newest(files[i]) ELSE 0]
<1>1. Newest(schema)' = Newest(schema) /\ \A j \in Instances : Newest(files[j])' = Newest(files[j])
  BY DEF Newest
<1>2. pc'[i] = l /\ \A j \in Instances : j # i => pc'[j] = pc[j]
  BY DEF Inv, TypeOK
<1>3. Needs' = [j \in Instances |-> IF pc'[j] = "serving" THEN Newest(files[j]) ELSE 0]
  BY <1>1 DEF Needs
<1>4. Needs' = [Needs EXCEPT ![i] = IF l = "serving" THEN Newest(files[i]) ELSE 0]
  BY <1>2, <1>3 DEF Needs
<1> QED
  BY <1>1, <1>4

LEMMA VersionStep ==
    ASSUME Inv, SchemaEnds, [Next]_vars
    PROVE  SchemaEnds' /\ [Abstract!Next]_<<Newest(schema), Needs>>
<1> PICK n \in Nat : schema = 1 .. n
  BY DEF SchemaEnds
<1>1. Newest(schema) = n
  BY NewestOfPrefix
<1>2. ASSUME schema' = schema, Newest(schema)' = Newest(schema), Needs' = Needs
      PROVE  SchemaEnds' /\ [Abstract!Next]_<<Newest(schema), Needs>>
  BY <1>2 DEF SchemaEnds
<1>3. ASSUME schema' = schema, NEW i \in Instances, NEW m \in 0 .. n,
             Newest(schema)' = Newest(schema), Needs' = [Needs EXCEPT ![i] = m]
      PROVE  SchemaEnds' /\ [Abstract!Next]_<<Newest(schema), Needs>>
  <2>1. Abstract!Rely(i, m)
    BY <1>3 DEF Abstract!Rely
  <2>2. Abstract!Next
    BY <1>1, <2>1 DEF Abstract!Next
  <2> QED
    BY <1>3, <2>2 DEF SchemaEnds
<1>4. ASSUME NEW i \in Instances, NEW R \in Releases, Start(i, R)
      PROVE  SchemaEnds' /\ [Abstract!Next]_<<Newest(schema), Needs>>
  BY <1>2, <1>4, QuietStep DEF Start, Goto, Inv, TypeOK
<1>5. ASSUME NEW i \in Instances, HasTable(i) \/ CreateTable(i) \/ Load(i)
      PROVE  SchemaEnds' /\ [Abstract!Next]_<<Newest(schema), Needs>>
  BY <1>2, <1>5, QuietStep DEF HasTable, CreateTable, Load, Goto, Inv, TypeOK
<1>6. ASSUME NEW i \in Instances, NEW v \in todo[i], Conflict(i, v)
      PROVE  SchemaEnds' /\ [Abstract!Next]_<<Newest(schema), Needs>>
  BY <1>2, <1>6, QuietStep DEF Conflict, Goto, Inv, TypeOK
<1>7. ASSUME NEW i \in Instances, NEW v \in todo[i], Apply(i, v)
      PROVE  SchemaEnds' /\ [Abstract!Next]_<<Newest(schema), Needs>>
  <2>1. schema' = 1 .. n + 1
    BY <1>7, ApplyNext
  <2>2. Newest(schema)' = n + 1
    <3>1. Newest(1 .. n + 1) = n + 1 /\ n + 1 \in Nat
      BY NewestOfPrefix
    <3> QED
      BY <2>1, <3>1 DEF Newest
  <2>3. Needs' = Needs
    <3>1. pc' = pc /\ files' = files
      BY <1>7 DEF Apply
    <3> QED
      BY <3>1 DEF Needs, Newest
  <2>4. Abstract!Migrate
    BY <1>1, <2>2, <2>3 DEF Abstract!Migrate
  <2> QED
    BY <2>1, <2>4 DEF SchemaEnds, Abstract!Next
<1>8. ASSUME NEW i \in Instances, Serve(i)
      PROVE  SchemaEnds' /\ [Abstract!Next]_<<Newest(schema), Needs>>
  <2>1. schema' = schema /\ files' = files /\ pc' = [pc EXCEPT ![i] = "serving"]
    BY <1>8 DEF Serve, Goto
  <2>2. files[i] \subseteq schema /\ files[i] \in Releases
    BY <1>8 DEF Serve, Inv, ListComplete, TypeOK
  <2>3. PICK k \in Nat : files[i] = 1 .. k
    BY <2>2, ReleaseIsPrefix
  <2>4. Newest(files[i]) = k
    BY <2>3, NewestOfPrefix
  <2>5. k \in 0 .. n
    BY <2>2, <2>3
  <2> QED
    BY <1>3, <2>1, <2>4, <2>5, ServiceStep
<1>9. ASSUME NEW i \in Instances, Fail(i)
      PROVE  SchemaEnds' /\ [Abstract!Next]_<<Newest(schema), Needs>>
  <2>1. schema' = schema /\ files' = files /\ pc' = [pc EXCEPT ![i] = "down"]
    BY <1>9 DEF Fail, Goto
  <2>2. 0 \in 0 .. n
    OBVIOUS
  <2>3. /\ Newest(schema)' = Newest(schema)
        /\ Needs' = [Needs EXCEPT ![i] = IF "down" = "serving" THEN Newest(files[i]) ELSE 0]
    BY <2>1, ServiceStep
  <2>4. Needs' = [Needs EXCEPT ![i] = 0]
    BY <2>3
  <2> QED
    BY <1>3, <2>1, <2>2, <2>3, <2>4
<1>10. CASE UNCHANGED vars
  BY <1>2, <1>10, QuietStep DEF vars
<1> QED
  BY <1>4, <1>5, <1>6, <1>7, <1>8, <1>9, <1>10 DEF Next, Proceed

\* Instances that run Migrate side by side, fail and start again implement a
\* single version number that only goes up, one migration at a time, and that
\* is never below what a serving instance ships.
THEOREM VersionImplemented == Spec => ImplementsVersion
<1>1. Init => SchemaEnds /\ Abstract!Init
  <2> SUFFICES ASSUME Init PROVE SchemaEnds /\ Abstract!Init
    OBVIOUS
  <2>1. schema = 1 .. 0 /\ 0 \in Nat
    BY DEF Init
  <2>2. Newest(schema) = 0
    BY <2>1, NewestOfPrefix
  <2>3. Needs = [i \in Instances |-> 0]
    BY DEF Init, Needs
  <2> QED
    BY <2>1, <2>2, <2>3 DEF SchemaEnds, Abstract!Init
<1>2. Inv /\ SchemaEnds /\ [Next]_vars => SchemaEnds' /\ [Abstract!Next]_<<Newest(schema), Needs>>
  BY VersionStep
<1> QED
  BY <1>1, <1>2, InitInv, NextInv, PTL DEF Spec, ImplementsVersion, Abstract!Spec
=============================================================================
