---------------------------- MODULE AdminProofs ----------------------------
(* Type correctness of AdminAuth, and who can end a lockout, for any       *)
(* number of administrators and concurrent requests.                       *)
EXTENDS AdminAuth, TLAPS

\* What a request works with is there when it gets to use it.
ControlOK ==
    \A p \in Requests :
        /\ pc[p] # "idle" => who[p] # None
        /\ pc[p] \in {"loginsave", "save"} => copy[p] # None
        /\ pc[p] \in {"get", "save"} => ask[p] # None

AdminInv == TypeOK /\ ControlOK

LEMMA PatchedTyped ==
    ASSUME NEW row \in Row, NEW k \in Asks
    PROVE  Patched(row, k) \in Row
BY DEF Patched, Row, Asks, Roles, Statuses

LEMMA FinishTyped ==
    ASSUME AdminInv, NEW p \in Requests, Finish(p),
           admins' \in [Admins -> Row], sessions' \subseteq [sub : Admins, exp : Nat], now' \in Nat
    PROVE  AdminInv'
BY DEF AdminInv, TypeOK, ControlOK, Finish

LEMMA NextAdmin == AdminInv /\ [Next]_vars => AdminInv'
<1> SUFFICES ASSUME AdminInv, [Next]_vars PROVE AdminInv'
    OBVIOUS
<1> USE DEF AdminInv, TypeOK, ControlOK
<1>1. ASSUME NEW p \in Requests, NEW a \in Admins, FindByGoogleSub(p, a) PROVE AdminInv'
    BY <1>1, AdminAssumption DEF FindByGoogleSub
<1>2. ASSUME NEW p \in Requests, SaveProfile(p) PROVE AdminInv'
    BY <1>2 DEF SaveProfile
<1>3. ASSUME NEW p \in Requests, Issue(p) PROVE AdminInv'
    <2>1. [sub |-> who[p], exp |-> now + SessionLife] \in [sub : Admins, exp : Nat]
        BY <1>3, AdminAssumption DEF Issue
    <2>2. sessions' \subseteq [sub : Admins, exp : Nat]
        BY <1>3, <2>1 DEF Issue
    <2>3. QED
        BY <1>3, <2>2, FinishTyped DEF Issue
<1>4. ASSUME NEW p \in Requests, NEW s \in sessions, NEW a \in Admins, NEW k \in Asks,
             Authorize(p, s, a, k)
      PROVE  AdminInv'
    BY <1>4, AdminAssumption DEF Authorize
<1>5. ASSUME NEW p \in Requests, Get(p) PROVE AdminInv'
    BY <1>5, AdminAssumption DEF Get
<1>6. ASSUME NEW p \in Requests, Update(p) PROVE AdminInv'
    <2>1. Patched(copy[p], ask[p]) \in Row
        BY <1>6, PatchedTyped DEF Update
    <2>2. QED
        BY <1>6, <2>1, FinishTyped DEF Update
<1>7. ASSUME NEW p \in Requests, Abort(p) PROVE AdminInv'
    BY <1>7, FinishTyped DEF Abort
<1>8. CASE Tick
    BY <1>8 DEF Tick
<1>9. CASE UNCHANGED vars
    BY <1>9 DEF vars
<1>10. QED
    BY <1>1, <1>2, <1>3, <1>4, <1>5, <1>6, <1>7, <1>8, <1>9 DEF Next

LEMMA InitAdmin == Init => AdminInv
BY AdminAssumption DEF Init, AdminInv, TypeOK, ControlOK

\* Whatever interleaving of logins and PATCHes, every Save of an
\* administrator writes a well-formed row that was read before.
THEOREM AdminTypeCorrect == Spec => []TypeOK
<1>1. AdminInv => TypeOK
    BY DEF AdminInv
<1>2. QED
    BY <1>1, InitAdmin, NextAdmin, PTL DEF Spec

\* Without PATCHes the candidates only become fewer.
LEMMA CandidatesShrink ==
    ASSUME AdminInv, [Next]_vars, ~Patching
    PROVE  Candidates' \subseteq Candidates
<1> USE DEF AdminInv, TypeOK, ControlOK, Candidates
<1>1. ASSUME NEW p \in Requests, NEW a \in Admins, FindByGoogleSub(p, a)
      PROVE  Candidates' \subseteq Candidates
    BY <1>1 DEF FindByGoogleSub
<1>2. ASSUME NEW p \in Requests, SaveProfile(p) PROVE Candidates' \subseteq Candidates
    <2>1. ASSUME NEW a \in Admins, CanAdminister(admins'[a]) PROVE a \in Candidates
        BY <1>2, <2>1 DEF SaveProfile
    <2>2. ASSUME NEW q \in Requests, pc'[q] = "loginsave"
          PROVE  pc[q] = "loginsave" /\ who'[q] = who[q] /\ copy'[q] = copy[q]
        BY <1>2, <2>2 DEF SaveProfile
    <2>3. QED
        BY <2>1, <2>2
<1>3. ASSUME NEW p \in Requests, Issue(p) \/ Abort(p) PROVE Candidates' \subseteq Candidates
    BY <1>3 DEF Issue, Abort, Finish
<1>4. ASSUME NEW p \in Requests, NEW s \in sessions, NEW a \in Admins, NEW k \in Asks,
             Authorize(p, s, a, k)
      PROVE  Candidates' \subseteq Candidates
    BY <1>4 DEF Authorize
<1>5. ASSUME NEW p \in Requests, Get(p) \/ Update(p) PROVE FALSE
    BY <1>5 DEF Get, Update, Patching
<1>6. CASE Tick \/ UNCHANGED vars
    BY <1>6 DEF Tick, vars
<1>7. QED
    BY <1>1, <1>2, <1>3, <1>4, <1>5, <1>6 DEF Next

\* A PATCH starts only by an administrator.
LEMMA PatchNeedsAdministrator ==
    ASSUME AdminInv, [Next]_vars, ~Patching, NoAdministrator
    PROVE  ~Patching'
<1> USE DEF AdminInv, TypeOK, Patching, NoAdministrator, CanAdminister
<1>1. ASSUME NEW p \in Requests, NEW s \in sessions, NEW a \in Admins, NEW k \in Asks,
             Authorize(p, s, a, k)
      PROVE  FALSE
    BY <1>1 DEF Authorize
<1>2. ASSUME NEW p \in Requests, NEW a \in Admins, FindByGoogleSub(p, a) PROVE ~Patching'
    BY <1>2 DEF FindByGoogleSub
<1>3. ASSUME NEW p \in Requests, SaveProfile(p) \/ Issue(p) \/ Abort(p) PROVE ~Patching'
    BY <1>3 DEF SaveProfile, Issue, Abort, Finish
<1>4. ASSUME NEW p \in Requests, Get(p) \/ Update(p) PROVE FALSE
    BY <1>4 DEF Get, Update
<1>5. CASE Tick \/ UNCHANGED vars
    BY <1>5 DEF Tick, vars
<1>6. QED
    BY <1>1, <1>2, <1>3, <1>4, <1>5 DEF Next

\* While no PATCH runs, those who can administer or are about to be written
\* back as administrators by a login only become fewer, and without an
\* administrator no PATCH starts: nothing but such a login ends a lockout.
THEOREM OnlyLateLoginRestoresAlways == Spec => OnlyLateLoginRestores
<1>1. AdminInv /\ [Next]_vars =>
        (~Patching => Candidates' \subseteq Candidates /\ (NoAdministrator => ~Patching'))
    BY CandidatesShrink, PatchNeedsAdministrator
<1>2. QED
    BY <1>1, InitAdmin, NextAdmin, PTL DEF Spec, OnlyLateLoginRestores
=============================================================================
