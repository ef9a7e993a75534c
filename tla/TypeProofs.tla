---------------------------- MODULE TypeProofs ----------------------------
(***************************************************************************)
(* TypeOK for every value of the constants.  TypeOK alone is not           *)
(* inductive: Save writes the row the process read and the credential it   *)
(* provisioned, so the proof carries Control, which says that a process    *)
(* that has come to a write has read or provisioned what it writes.        *)
(***************************************************************************)
EXTENDS ControlPlane, TLAPS

\* The labels at which a process has no local variables.
Outside == {"idle", "sweepkeys"}

UsersKept == \A u \in Users : users[u] # None => users'[u] # None

\* Empty reads have the type of reads.
LEMMA EmptyReads ==
    /\ NoKeys \in [Keys -> KeyRow \cup {None}]
    /\ NoUsers \in [Users -> UserRow \cup {None}]
    /\ NoDevices \in [Devices -> DevRow \cup {None}]
    /\ NoServers \in [Servers -> SrvRow \cup {None}]
BY DEF NoKeys, NoUsers, NoDevices, NoServers

LEMMA ReturnLeaves ==
    ASSUME NEW p \in Procs, Return(p)
    PROVE  \E l \in Outside : Leave(p, l)
BY DEF Return, Outside

\* Leaving a function keeps the local variables typed.
LEMMA LeaveTyped ==
    ASSUME ProcsOK, NEW p \in Procs, NEW l \in Outside, Leave(p, l)
    PROVE  ProcsOK'
<1>1. l \in Labels /\ "none" \in AllOps
    BY DEF Outside, Labels, AllOps
<1>2. QED
    BY <1>1, EmptyReads DEF ProcsOK, Leave

\* A process that is where it was, in a database whose users are all kept,
\* is in a state that agrees with its place.
LEMMA ControlFrame ==
    ASSUME NEW q \in Procs, ControlAt(q), ProcsOK, UsersKept,
           op'[q] = op[q], pc'[q] = pc[q], snap'[q] = snap[q], todo'[q] = todo[q],
           cur'[q] = cur[q], new'[q] = new[q], usr'[q] = usr[q], urows'[q] = urows[q]
    PROVE  ControlAt(q)'
BY DEF ControlAt, Provisioned, UsersKept, ProcsOK

LEMMA LeaveControl ==
    ASSUME ProcsOK, Control, UsersKept, NEW p \in Procs, NEW l \in Outside, Leave(p, l)
    PROVE  Control'
<1>1. SUFFICES ASSUME NEW q \in Procs PROVE ControlAt(q)'
    BY DEF Control
<1>2. CASE q = p
    <2>1. /\ op'[q] = "none" /\ pc'[q] \in Outside /\ snap'[q] = NoKeys /\ todo'[q] = {}
          /\ cur'[q] = None /\ new'[q] = None /\ usr'[q] = None /\ urows'[q] = NoUsers
        BY <1>2 DEF Leave, ProcsOK
    <2>2. QED
        BY <2>1 DEF ControlAt, Provisioned, Outside, NoUsers, CascadeOps
<1>3. CASE q # p
    <2>1. ControlAt(q)
        BY DEF Control
    <2>2. QED
        BY <1>3, <2>1, ControlFrame DEF Leave, ProcsOK
<1>4. QED
    BY <1>2, <1>3

\* Only p moves.
Others(p) ==
    \A q \in Procs \ {p} :
        /\ op'[q] = op[q] /\ pc'[q] = pc[q] /\ snap'[q] = snap[q] /\ todo'[q] = todo[q]
        /\ cur'[q] = cur[q] /\ new'[q] = new[q] /\ usr'[q] = usr[q]
        /\ urows'[q] = urows[q]

LEMMA StepControl ==
    ASSUME ProcsOK, Control, UsersKept, NEW p \in Procs, Others(p), ControlAt(p)'
    PROVE  Control'
<1>1. SUFFICES ASSUME NEW q \in Procs, q # p PROVE ControlAt(q)'
    BY DEF Control
<1>2. ControlAt(q)
    BY DEF Control
<1>3. QED
    BY <1>1, <1>2, ControlFrame DEF Others

LEMMA LeavingStep ==
    ASSUME TypeOK, Control, NEW p \in Procs, Return(p) \/ Leave(p, "idle"),
           TablesOK', UsersKept
    PROVE  TypeOK' /\ Control'
<1>1. PICK l \in Outside : Leave(p, l)
    BY ReturnLeaves DEF Outside
<1>2. QED
    BY <1>1, LeaveTyped, LeaveControl DEF TypeOK

-----------------------------------------------------------------------------
(* The steps of AccessKeyService.                                          *)

LEMMA ReadsTyped ==
    ASSUME TypeOK, NEW u
    PROVE  /\ KeysOf(u) \in [Keys -> KeyRow \cup {None}]
           /\ DevicesOf(u) \in [Devices -> DevRow \cup {None}]
           /\ ServersOf(u) \in [Servers -> SrvRow \cup {None}]
BY DEF TypeOK, TablesOK, KeysOf, DevicesOf, ServersOf

LEMMA CreateKeyTyped ==
    ASSUME TypeOK, Control, NEW p \in Procs, NEW u \in Users, NEW s \in Servers,
           CreateKey(p, u, s)
    PROVE  TypeOK' /\ Control'
<1> USE DEF CreateKey, Goto, db, fleet, outline, env
<1>1. TablesOK' /\ UsersKept
    BY DEF TypeOK, TablesOK, UsersKept
<1>2. ProcsOK'
    BY EmptyReads DEF TypeOK, TablesOK, ProcsOK, AllOps, Labels
<1>3. Others(p)
    BY DEF TypeOK, ProcsOK, Others
<1>4. ControlAt(p)'
    BY NoneAssumption DEF TypeOK, TablesOK, ProcsOK, Control, ControlAt, Provisioned, CascadeOps, Idle
<1>5. QED
    BY <1>1, <1>2, <1>3, <1>4, StepControl DEF TypeOK

LEMMA GetKeyTyped ==
    ASSUME TypeOK, Control, NEW p \in Procs, NEW k \in Keys, NEW o \in KeyOps, GetKey(p, k, o)
    PROVE  TypeOK' /\ Control'
<1> USE DEF GetKey, Goto, db, fleet, outline, env
<1>1. TablesOK' /\ UsersKept
    BY DEF TypeOK, TablesOK, UsersKept
<1>2. ProcsOK'
    <2>1. [NoKeys EXCEPT ![k] = keys[k]] \in [Keys -> KeyRow \cup {None}]
        BY DEF TypeOK, TablesOK, NoKeys
    <2>2. snap' \in [Procs -> [Keys -> KeyRow \cup {None}]]
        BY <2>1 DEF TypeOK, ProcsOK
    <2>3. /\ op' \in [Procs -> AllOps] /\ pc' \in [Procs -> Labels]
          /\ srows' \in [Procs -> [Servers -> SrvRow \cup {None}]]
        <3>1. ServersOf(snap'[p]) \in [Servers -> SrvRow \cup {None}]
            BY ReadsTyped
        <3>2. QED
            BY <3>1 DEF TypeOK, ProcsOK, AllOps, Labels
    <2>4. CASE o = "delete" /\ keys[k].status # "ACTIVE"
        <3>1. cur' = [cur EXCEPT ![p] = k] /\ todo' = todo
            BY <2>4
        <3>2. QED
            BY <3>1, <2>2, <2>3 DEF TypeOK, ProcsOK
    <2>5. CASE ~(o = "delete" /\ keys[k].status # "ACTIVE")
        <3>1. todo' = [todo EXCEPT ![p] = {k}] /\ cur' = cur
            BY <2>5
        <3>2. new' = new /\ usr' = usr /\ urows' = urows /\ drows' = drows
            OBVIOUS
        <3>3. QED
            <4> HIDE DEF GetKey
            <4>1. QED
                BY <3>1, <3>2, <2>2, <2>3 DEF TypeOK, ProcsOK
    <2>6. QED
        BY <2>4, <2>5
<1>3. Others(p)
    BY DEF TypeOK, ProcsOK, Others
<1>4. ControlAt(p)'
    BY NoneAssumption DEF TypeOK, TablesOK, ProcsOK, Control, ControlAt, Provisioned, CascadeOps, Idle, NoKeys, KeyOps
<1>5. QED
    BY <1>1, <1>2, <1>3, <1>4, StepControl DEF TypeOK

LEMMA RevokeAcceptedTyped ==
    ASSUME TypeOK, Control, NEW p \in Procs, NEW k \in Keys, RevokeAccepted(p, k)
    PROVE  TypeOK' /\ Control'
<1> USE DEF RevokeAccepted, Goto, db, fleet, outline, env
<1>1. TablesOK' /\ UsersKept
    BY DEF TypeOK, TablesOK, UsersKept
<1>2. ProcsOK'
    BY EmptyReads DEF TypeOK, TablesOK, ProcsOK, AllOps, Labels, AfterRevoke
<1>3. Others(p)
    BY DEF TypeOK, ProcsOK, Others
<1>4. ControlAt(p)'
    BY NoneAssumption DEF TypeOK, TablesOK, ProcsOK, Control, ControlAt, Provisioned, CascadeOps, AfterRevoke
<1>5. QED
    BY <1>1, <1>2, <1>3, <1>4, StepControl DEF TypeOK

LEMMA RevokeNotFoundTyped ==
    ASSUME TypeOK, Control, NEW p \in Procs, NEW k \in Keys, RevokeNotFound(p, k)
    PROVE  TypeOK' /\ Control'
<1> USE DEF RevokeNotFound, db, fleet, outline, env
<1>1. TablesOK' /\ UsersKept
    BY DEF TypeOK, TablesOK, UsersKept
<1>2. QED
    BY <1>1, LeavingStep

LEMMA RevokeReplyLostTyped ==
    ASSUME TypeOK, Control, NEW p \in Procs, NEW k \in Keys, RevokeReplyLost(p, k)
    PROVE  TypeOK' /\ Control'
<1> USE DEF RevokeReplyLost, db, fleet, outline, env
<1>1. TablesOK' /\ UsersKept
    BY DEF TypeOK, TablesOK, UsersKept, Fault
<1>2. QED
    BY <1>1, LeavingStep

LEMMA PostAcceptedTyped ==
    ASSUME TypeOK, Control, NEW p \in Procs, NEW r \in Refs, PostAccepted(p, r)
    PROVE  TypeOK' /\ Control'
<1> USE DEF PostAccepted, Goto, db, fleet, outline, env
<1>1. TablesOK' /\ UsersKept
    BY DEF TypeOK, TablesOK, UsersKept
<1>2. ProcsOK'
    BY EmptyReads DEF TypeOK, TablesOK, ProcsOK, AllOps, Labels
<1>3. Others(p)
    BY DEF TypeOK, ProcsOK, Others
<1>4. ControlAt(p)'
    BY NoneAssumption DEF TypeOK, TablesOK, ProcsOK, Control, ControlAt, Provisioned, CascadeOps
<1>5. QED
    BY <1>1, <1>2, <1>3, <1>4, StepControl DEF TypeOK

LEMMA PostReplyLostTyped ==
    ASSUME TypeOK, Control, NEW p \in Procs, NEW r \in Refs, PostReplyLost(p, r)
    PROVE  TypeOK' /\ Control'
<1> USE DEF PostReplyLost, db, fleet, outline, env
<1>1. TablesOK' /\ UsersKept
    BY DEF TypeOK, TablesOK, UsersKept, Fault
<1>2. QED
    BY <1>1, LeavingStep

LEMMA LabelKeyTyped ==
    ASSUME TypeOK, Control, NEW p \in Procs, LabelKey(p)
    PROVE  TypeOK' /\ Control'
<1> USE DEF LabelKey, Goto, db, fleet, outline, env
<1>1. TablesOK' /\ UsersKept
    BY DEF TypeOK, TablesOK, UsersKept
<1>2. ProcsOK'
    BY EmptyReads DEF TypeOK, TablesOK, ProcsOK, AllOps, Labels
<1>3. Others(p)
    BY DEF TypeOK, ProcsOK, Others
<1>4. ControlAt(p)'
    BY NoneAssumption DEF TypeOK, TablesOK, ProcsOK, Control, ControlAt, Provisioned, CascadeOps
<1>5. QED
    BY <1>1, <1>2, <1>3, <1>4, StepControl DEF TypeOK

LEMMA InsertKeyTyped ==
    ASSUME TypeOK, Control, NEW p \in Procs, NEW k \in Keys, NEW s \in Servers,
           NEW e \in Expiries, InsertKey(p, k, s, e)
    PROVE  TypeOK' /\ Control'
<1> USE DEF InsertKey, db, fleet, outline, env
<1>1. TablesOK' /\ UsersKept
    BY ExpiryAssumption, NoneAssumption DEF TypeOK, TablesOK, UsersKept, ProcsOK, Control, ControlAt, Provisioned, KeyRow, KeyStatus
<1>2. QED
    BY <1>1, LeavingStep

LEMMA InsertRejectedTyped ==
    ASSUME TypeOK, Control, NEW p \in Procs, InsertRejected(p)
    PROVE  TypeOK' /\ Control'
<1> USE DEF InsertRejected, Goto, db, fleet, outline, env
<1>1. TablesOK' /\ UsersKept
    BY DEF TypeOK, TablesOK, UsersKept, Fault
<1>2. ProcsOK'
    BY EmptyReads DEF TypeOK, TablesOK, ProcsOK, AllOps, Labels
<1>3. Others(p)
    BY DEF TypeOK, ProcsOK, Others
<1>4. ControlAt(p)'
    BY NoneAssumption DEF TypeOK, TablesOK, ProcsOK, Control, ControlAt, Provisioned, CascadeOps
<1>5. QED
    BY <1>1, <1>2, <1>3, <1>4, StepControl DEF TypeOK

LEMMA CleanupTyped ==
    ASSUME TypeOK, Control, NEW p \in Procs, Cleanup(p)
    PROVE  TypeOK' /\ Control'
<1> USE DEF Cleanup, db, fleet, outline, env
<1>1. TablesOK' /\ UsersKept
    BY DEF TypeOK, TablesOK, UsersKept
<1>2. QED
    BY <1>1, LeavingStep

\* Save writes a row: it was read, and Rotate has provisioned a credential.
LEMMA SavedRowTyped ==
    ASSUME TypeOK, Control, NEW p \in Procs, pc[p] = "save"
    PROVE  SavedRow(p, snap[p][cur[p]]) \in KeyRow
<1>1. snap[p][cur[p]] \in KeyRow
    BY NoneAssumption DEF TypeOK, ProcsOK, Control, ControlAt
<1>2. op[p] = "rotate" => new[p] \in Refs
    BY DEF TypeOK, ProcsOK, Control, ControlAt, Provisioned
<1>3. QED
    BY <1>1, <1>2 DEF SavedRow, KeyRow, KeyStatus

LEMMA SaveKeyTyped ==
    ASSUME TypeOK, Control, NEW p \in Procs, SaveKey(p)
    PROVE  TypeOK' /\ Control'
<1> USE DEF SaveKey, Goto, outline, env
<1>1. TablesOK' /\ UsersKept
    <2>1. keys' \in [Keys -> KeyRow \cup {None}]
        BY SavedRowTyped DEF TypeOK, TablesOK
    <2>2. servers' \in [Servers -> SrvRow \cup {None}]
        <3>1. \A s \in Servers : srows[p][s] \in SrvRow \cup {None}
            BY DEF TypeOK, ProcsOK
        <3>2. CASE ServerThere(p)
            <4> DEFINE t == snap[p][cur[p]].server
            <4>1. servers' = [servers EXCEPT ![t] = IF servers[t] = None THEN srows[p][t]
                                                    ELSE servers[t]]
                BY <3>2 DEF TypeOK, TablesOK
            <4>2. QED
                BY <3>1, <4>1 DEF TypeOK, TablesOK
        <3>3. CASE ~ServerThere(p)
            BY <3>3 DEF TypeOK, TablesOK
        <3>4. QED
            BY <3>2, <3>3
    <2>3. QED
        BY <2>1, <2>2 DEF TypeOK, TablesOK, UsersKept
<1>2. CASE op[p] \in {"revoke", "rotate"} \/ ~ServerThere(p)
    BY <1>1, <1>2, LeavingStep
<1>3. CASE ~(op[p] \in {"revoke", "rotate"} \/ ~ServerThere(p))
    <2>1. ProcsOK'
        BY <1>3 DEF TypeOK, ProcsOK, Labels
    <2>2. Others(p)
        BY <1>3 DEF TypeOK, ProcsOK, Others
    <2>3. ControlAt(p)'
        BY <1>3, NoneAssumption DEF TypeOK, ProcsOK, Control, ControlAt, Provisioned, CascadeOps
    <2>4. QED
        BY <1>1, <2>1, <2>2, <2>3, StepControl DEF TypeOK
<1>4. QED
    BY <1>2, <1>3

LEMMA DropKeyTyped ==
    ASSUME TypeOK, Control, NEW p \in Procs, DropKey(p)
    PROVE  TypeOK' /\ Control'
<1> USE DEF DropKey, db, fleet, outline, env
<1>1. TablesOK' /\ UsersKept
    BY DEF TypeOK, TablesOK, UsersKept
<1>2. QED
    BY <1>1, LeavingStep

LEMMA FindExpiredKeysTyped ==
    ASSUME TypeOK, Control, NEW p \in Procs, FindExpiredKeys(p)
    PROVE  TypeOK' /\ Control'
<1> USE DEF FindExpiredKeys, Goto, db, fleet, outline, env
<1>1. TablesOK' /\ UsersKept
    BY DEF TypeOK, TablesOK, UsersKept
<1>2. ProcsOK'
    BY EmptyReads DEF TypeOK, TablesOK, ProcsOK, AllOps, Labels, ExpiredKeys
<1>3. Others(p)
    BY DEF TypeOK, ProcsOK, Others
<1>4. ControlAt(p)'
    BY NoneAssumption DEF TypeOK, TablesOK, ProcsOK, Control, ControlAt, Provisioned, CascadeOps, ExpiredKeys
<1>5. QED
    BY <1>1, <1>2, <1>3, <1>4, StepControl DEF TypeOK

LEMMA KeySweepDoneTyped ==
    ASSUME TypeOK, Control, NEW p \in Procs, KeySweepDone(p)
    PROVE  TypeOK' /\ Control'
<1> USE DEF KeySweepDone, db, fleet, outline, env
<1>1. TablesOK' /\ UsersKept
    BY DEF TypeOK, TablesOK, UsersKept
<1>2. QED
    BY <1>1, LeavingStep

LEMMA KeyStepsTyped ==
    ASSUME TypeOK, Control, NEW p \in Procs, KeySteps(p)
    PROVE  TypeOK' /\ Control'
BY CreateKeyTyped, GetKeyTyped, RevokeAcceptedTyped, RevokeNotFoundTyped, RevokeReplyLostTyped,
   PostAcceptedTyped, PostReplyLostTyped, LabelKeyTyped, InsertKeyTyped, InsertRejectedTyped,
   CleanupTyped, SaveKeyTyped, DropKeyTyped, FindExpiredKeysTyped, KeySweepDoneTyped
DEF KeySteps

-----------------------------------------------------------------------------
(* The steps of UserService.                                               *)

LEMMA GetUserTyped ==
    ASSUME TypeOK, Control, NEW p \in Procs, NEW u \in Users, NEW o \in UserOps,
           GetUser(p, u, o)
    PROVE  TypeOK' /\ Control'
<1> USE DEF GetUser, Goto, db, fleet, outline, env
<1>1. TablesOK' /\ UsersKept
    BY DEF TypeOK, TablesOK, UsersKept
<1>2. ProcsOK'
    <2>1. [NoUsers EXCEPT ![u] = users[u]] \in [Users -> UserRow \cup {None}]
        BY DEF TypeOK, TablesOK, NoUsers
    <2>2. op' \in [Procs -> AllOps] /\ pc' \in [Procs -> Labels] /\ usr' \in [Procs -> Users \cup {None}]
        BY DEF TypeOK, ProcsOK, AllOps, Labels
    <2>3. CASE o = "deluser"
        BY <2>2, <2>3 DEF TypeOK, ProcsOK
    <2>4. CASE o # "deluser"
        <3>1. urows' \in [Procs -> [Users -> UserRow \cup {None}]]
            BY <2>1, <2>4 DEF TypeOK, ProcsOK
        <3>2. QED
            BY <2>2, <3>1 DEF TypeOK, ProcsOK
    <2>5. QED
        BY <2>3, <2>4
<1>3. Others(p)
    BY DEF TypeOK, ProcsOK, Others
<1>4. ControlAt(p)'
    BY NoneAssumption DEF TypeOK, TablesOK, ProcsOK, Control, ControlAt, Provisioned, CascadeOps,
       Idle, UserOps, NoUsers
<1>5. QED
    BY <1>1, <1>2, <1>3, <1>4, StepControl DEF TypeOK

LEMMA PreloadKeysTyped ==
    ASSUME TypeOK, Control, NEW p \in Procs, PreloadKeys(p)
    PROVE  TypeOK' /\ Control'
<1> USE DEF PreloadKeys, Goto, db, fleet, outline, env
<1>1. TablesOK' /\ UsersKept
    BY DEF TypeOK, TablesOK, UsersKept
<1>2. ProcsOK'
    BY ReadsTyped DEF TypeOK, ProcsOK, Labels
<1>3. Others(p)
    BY DEF TypeOK, ProcsOK, Others
<1>4. ControlAt(p)'
    BY NoneAssumption DEF TypeOK, TablesOK, ProcsOK, Control, ControlAt, Provisioned, CascadeOps
<1>5. QED
    BY <1>1, <1>2, <1>3, <1>4, StepControl DEF TypeOK

LEMMA PreloadServersTyped ==
    ASSUME TypeOK, Control, NEW p \in Procs, PreloadServers(p)
    PROVE  TypeOK' /\ Control'
<1> USE DEF PreloadServers, Goto, db, fleet, outline, env
<1>1. TablesOK' /\ UsersKept
    BY DEF TypeOK, TablesOK, UsersKept
<1>2. ProcsOK'
    BY ReadsTyped DEF TypeOK, ProcsOK, Labels
<1>3. Others(p)
    BY DEF TypeOK, ProcsOK, Others
<1>4. ControlAt(p)'
    BY NoneAssumption DEF TypeOK, TablesOK, ProcsOK, Control, ControlAt, Provisioned, CascadeOps
<1>5. QED
    BY <1>1, <1>2, <1>3, <1>4, StepControl DEF TypeOK

LEMMA PreloadDevicesTyped ==
    ASSUME TypeOK, Control, NEW p \in Procs, PreloadDevices(p)
    PROVE  TypeOK' /\ Control'
<1> USE DEF PreloadDevices, Goto, db, fleet, outline, env
<1>1. TablesOK' /\ UsersKept
    BY DEF TypeOK, TablesOK, UsersKept
<1>2. ProcsOK'
    BY ReadsTyped DEF TypeOK, ProcsOK, Labels
<1>3. Others(p)
    BY DEF TypeOK, ProcsOK, Others
<1>4. ControlAt(p)'
    BY NoneAssumption DEF TypeOK, TablesOK, ProcsOK, Control, ControlAt, Provisioned, CascadeOps
<1>5. QED
    BY <1>1, <1>2, <1>3, <1>4, StepControl DEF TypeOK

LEMMA SaveUserTyped ==
    ASSUME TypeOK, Control, NEW p \in Procs, NEW e \in Expiries, SaveUser(p, e)
    PROVE  TypeOK' /\ Control'
<1> USE DEF SaveUser, Goto, fleet, outline, env
<1>1. usr[p] \in Users /\ urows[p][usr[p]] \in UserRow
    BY NoneAssumption DEF TypeOK, ProcsOK, Control, ControlAt
<1>2. SavedUser(p, urows[p][usr[p]], e) \in UserRow
    BY <1>1, ExpiryAssumption DEF SavedUser, UserRow, UserStatus
<1>3. TablesOK' /\ UsersKept
    <2>1. keys' \in [Keys -> KeyRow \cup {None}]
        BY DEF TypeOK, TablesOK, ProcsOK, Reinsert
    <2>2. devices' \in [Devices -> DevRow \cup {None}]
        BY DEF TypeOK, TablesOK, ProcsOK, Reinsert
    <2>3. servers' \in [Servers -> SrvRow \cup {None}]
        BY DEF TypeOK, TablesOK, ProcsOK, Reinsert
    <2>4. users' \in [Users -> UserRow \cup {None}] /\ UsersKept
        BY <1>1, <1>2, NoneAssumption DEF TypeOK, TablesOK, UsersKept
    <2>5. QED
        BY <2>1, <2>2, <2>3, <2>4 DEF TypeOK, TablesOK
<1>4. CASE op[p] = "update"
    BY <1>3, <1>4, LeavingStep
<1>5. CASE op[p] # "update"
    <2>1. ProcsOK'
        <3>0. [urows[p] EXCEPT ![usr[p]] = None] \in [Users -> UserRow \cup {None}]
            BY DEF TypeOK, ProcsOK
        <3>1. urows' \in [Procs -> [Users -> UserRow \cup {None}]]
            BY <1>5, <3>0 DEF TypeOK, ProcsOK
        <3>2. snap' \in [Procs -> [Keys -> KeyRow \cup {None}]]
            BY <1>5, EmptyReads DEF TypeOK, ProcsOK
        <3>3. drows' \in [Procs -> [Devices -> DevRow \cup {None}]]
            BY <1>5, EmptyReads DEF TypeOK, ProcsOK
        <3>4. srows' \in [Procs -> [Servers -> SrvRow \cup {None}]]
            BY <1>5, EmptyReads DEF TypeOK, ProcsOK
        <3>5. pc' \in [Procs -> Labels]
            <4>1. pc' = [pc EXCEPT ![p] = "list"] /\ pc \in [Procs -> Labels]
                BY <1>5 DEF TypeOK, ProcsOK
            <4>2. "list" \in Labels
                BY DEF Labels
            <4>3. QED
                BY <4>1, <4>2
        <3>6. QED
            BY <1>5, <3>1, <3>2, <3>3, <3>4, <3>5 DEF TypeOK, ProcsOK
    <2>2. Others(p)
        BY <1>5 DEF TypeOK, ProcsOK, Others
    <2>3. ControlAt(p)'
        BY <1>1, <1>3, <1>5, NoneAssumption
        DEF TypeOK, TablesOK, ProcsOK, Control, ControlAt, Provisioned, CascadeOps, UsersKept
    <2>4. QED
        BY <1>3, <2>1, <2>2, <2>3, StepControl DEF TypeOK
<1>6. QED
    BY <1>4, <1>5

LEMMA SaveUserRejectedTyped ==
    ASSUME TypeOK, Control, NEW p \in Procs, SaveUserRejected(p)
    PROVE  TypeOK' /\ Control'
<1> USE DEF SaveUserRejected, db, fleet, outline, env
<1>1. TablesOK' /\ UsersKept
    BY DEF TypeOK, TablesOK, UsersKept
<1>2. QED
    BY <1>1, LeavingStep

LEMMA ListKeysTyped ==
    ASSUME TypeOK, Control, NEW p \in Procs, ListKeys(p)
    PROVE  TypeOK' /\ Control'
<1> USE DEF ListKeys, Goto, db, fleet, outline, env
<1>1. TablesOK' /\ UsersKept
    BY DEF TypeOK, TablesOK, UsersKept
<1>2. ProcsOK'
    BY ReadsTyped DEF TypeOK, ProcsOK, AllOps, Labels
<1>3. Others(p)
    BY DEF TypeOK, ProcsOK, Others
<1>4. ControlAt(p)'
    BY NoneAssumption DEF TypeOK, TablesOK, ProcsOK, Control, ControlAt, Provisioned, CascadeOps, KeysOf
<1>5. QED
    BY <1>1, <1>2, <1>3, <1>4, StepControl DEF TypeOK

LEMMA ListDevicesTyped ==
    ASSUME TypeOK, Control, NEW p \in Procs, ListDevices(p)
    PROVE  TypeOK' /\ Control'
<1> USE DEF ListDevices, Goto, db, fleet, outline, env
<1>1. TablesOK' /\ UsersKept
    BY DEF TypeOK, TablesOK, UsersKept
<1>2. ProcsOK'
    BY EmptyReads DEF TypeOK, TablesOK, ProcsOK, AllOps, Labels
<1>3. Others(p)
    BY DEF TypeOK, ProcsOK, Others
<1>4. ControlAt(p)'
    BY NoneAssumption DEF TypeOK, TablesOK, ProcsOK, Control, ControlAt, Provisioned, CascadeOps
<1>5. QED
    BY <1>1, <1>2, <1>3, <1>4, StepControl DEF TypeOK

LEMMA SaveDeviceTyped ==
    ASSUME TypeOK, Control, NEW p \in Procs, NEW d \in Devices, SaveDevice(p, d)
    PROVE  TypeOK' /\ Control'
<1> USE DEF SaveDevice, fleet, outline, env
<1>0. [drows[p][d] EXCEPT !.status = "REVOKED"] \in DevRow
    <2>1. drows[p][d] \in DevRow
        BY DEF TypeOK, ProcsOK
    <2>2. QED
        BY <2>1 DEF DevRow, DevStatus
<1>1. TablesOK' /\ UsersKept
    BY <1>0 DEF TypeOK, TablesOK, UsersKept
<1>2. ProcsOK'
    BY EmptyReads DEF TypeOK, TablesOK, ProcsOK, AllOps, Labels
<1>3. Others(p)
    BY DEF TypeOK, ProcsOK, Others
<1>4. ControlAt(p)'
    BY NoneAssumption DEF TypeOK, TablesOK, ProcsOK, Control, ControlAt, Provisioned, CascadeOps
<1>5. QED
    BY <1>1, <1>2, <1>3, <1>4, StepControl DEF TypeOK

LEMMA CascadeDoneTyped ==
    ASSUME TypeOK, Control, NEW p \in Procs, CascadeDone(p)
    PROVE  TypeOK' /\ Control'
<1> USE DEF CascadeDone, Goto, db, fleet, outline, env
<1>1. TablesOK' /\ UsersKept
    BY DEF TypeOK, TablesOK, UsersKept
<1>2. CASE op[p] = "disable"
    BY <1>1, <1>2, LeavingStep
<1>3. CASE op[p] # "disable"
    <2>0. "udelete" \in Labels /\ "nextuser" \in Labels
        BY DEF Labels
    <2>1. ProcsOK'
        <3>1. pc' \in [Procs -> Labels]
            BY <1>3, <2>0 DEF TypeOK, ProcsOK
        <3>2. snap' \in [Procs -> [Keys -> KeyRow \cup {None}]]
            BY <1>3, EmptyReads DEF TypeOK, ProcsOK
        <3>6. srows' \in [Procs -> [Servers -> SrvRow \cup {None}]]
            BY <1>3, EmptyReads DEF TypeOK, ProcsOK
        <3>3. usr' \in [Procs -> Users \cup {None}]
            BY <1>3 DEF TypeOK, ProcsOK
        <3>4. UNCHANGED <<op, todo, cur, new, urows, drows>>
            BY <1>3
        <3>5. QED
            BY <3>1, <3>2, <3>3, <3>4, <3>6 DEF TypeOK, ProcsOK
    <2>2. Others(p)
        BY <1>3 DEF TypeOK, ProcsOK, Others
    <2>4. ControlAt(p)'
        BY <1>3, NoneAssumption DEF TypeOK, ProcsOK, Control, ControlAt, Provisioned, CascadeOps
    <2>5. QED
        BY <1>1, <2>1, <2>2, <2>4, StepControl DEF TypeOK
<1>4. QED
    BY <1>2, <1>3

LEMMA DeleteUserTyped ==
    ASSUME TypeOK, Control, NEW p \in Procs, DeleteUser(p)
    PROVE  TypeOK' /\ Control'
<1> USE DEF DeleteUser, fleet, outline, env
<1>0. /\ usr[p] \in Users
      /\ [users[usr[p]] EXCEPT !.deleted = TRUE] \in UserRow
    <2>1. usr[p] \in Users /\ op[p] # "create"
        BY DEF TypeOK, ProcsOK, Control, ControlAt
    <2>2. users[usr[p]] \in UserRow
        BY <2>1, NoneAssumption DEF TypeOK, TablesOK, Control, ControlAt
    <2>3. QED
        BY <2>1, <2>2 DEF UserRow
<1>1. TablesOK' /\ UsersKept
    BY <1>0, NoneAssumption DEF TypeOK, TablesOK, UsersKept
<1>2. QED
    BY <1>1, LeavingStep

LEMMA FindExpiredUsersTyped ==
    ASSUME TypeOK, Control, NEW p \in Procs, FindExpiredUsers(p)
    PROVE  TypeOK' /\ Control'
<1> USE DEF FindExpiredUsers, Goto, db, fleet, outline, env
<1>1. TablesOK' /\ UsersKept
    BY DEF TypeOK, TablesOK, UsersKept
<1>2. ProcsOK'
    BY EmptyReads DEF TypeOK, TablesOK, ProcsOK, AllOps, Labels, ExpiredUsers
<1>3. Others(p)
    BY DEF TypeOK, ProcsOK, Others
<1>4. ControlAt(p)'
    BY NoneAssumption DEF TypeOK, TablesOK, ProcsOK, Control, ControlAt, Provisioned, CascadeOps, ExpiredUsers
<1>5. QED
    BY <1>1, <1>2, <1>3, <1>4, StepControl DEF TypeOK

LEMMA NextUserTyped ==
    ASSUME TypeOK, Control, NEW p \in Procs, NEW u \in Users, NextUser(p, u)
    PROVE  TypeOK' /\ Control'
<1> USE DEF NextUser, Goto, db, fleet, outline, env
<1>1. TablesOK' /\ UsersKept
    BY DEF TypeOK, TablesOK, UsersKept
<1>2. ProcsOK'
    BY EmptyReads DEF TypeOK, TablesOK, ProcsOK, AllOps, Labels
<1>3. Others(p)
    BY DEF TypeOK, ProcsOK, Others
<1>4. ControlAt(p)'
    BY NoneAssumption DEF TypeOK, TablesOK, ProcsOK, Control, ControlAt, Provisioned, CascadeOps
<1>5. QED
    BY <1>1, <1>2, <1>3, <1>4, StepControl DEF TypeOK

LEMMA UserSweepDoneTyped ==
    ASSUME TypeOK, Control, NEW p \in Procs, UserSweepDone(p)
    PROVE  TypeOK' /\ Control'
<1> USE DEF UserSweepDone, db, fleet, outline, env
<1>1. TablesOK' /\ UsersKept
    BY DEF TypeOK, TablesOK, UsersKept
<1>2. QED
    BY <1>1, LeavingStep

LEMMA GetDeviceTyped ==
    ASSUME TypeOK, Control, NEW p \in Procs, NEW d \in Devices, NEW o \in DeviceOps, GetDevice(p, d, o)
    PROVE  TypeOK' /\ Control'
<1> USE DEF GetDevice, Goto, db, fleet, outline, env
<1>1. TablesOK' /\ UsersKept
    BY DEF TypeOK, TablesOK, UsersKept
<1>2. ProcsOK'
    BY EmptyReads DEF TypeOK, TablesOK, ProcsOK, AllOps, Labels, DeviceOps, NoDevices
<1>3. Others(p)
    BY DEF TypeOK, ProcsOK, Others
<1>4. ControlAt(p)'
    BY NoneAssumption DEF TypeOK, TablesOK, ProcsOK, Control, ControlAt, Provisioned, CascadeOps, DeviceOps, Idle
<1>5. QED
    BY <1>1, <1>2, <1>3, <1>4, StepControl DEF TypeOK

LEMMA PutDeviceTyped ==
    ASSUME TypeOK, Control, NEW p \in Procs, NEW d \in Devices, NEW s \in DevStatus, PutDevice(p, d, s)
    PROVE  TypeOK' /\ Control'
<1> USE DEF PutDevice, fleet, outline, env
<1>0. [drows[p][d] EXCEPT !.status = s] \in DevRow
    <2>1. drows[p][d] \in DevRow
        BY DEF TypeOK, ProcsOK
    <2>2. QED
        BY <2>1 DEF DevRow
<1>1. TablesOK' /\ UsersKept
    BY <1>0 DEF TypeOK, TablesOK, UsersKept
<1>2. QED
    BY <1>1, LeavingStep

LEMMA UserStepsTyped ==
    ASSUME TypeOK, Control, NEW p \in Procs, UserSteps(p)
    PROVE  TypeOK' /\ Control'
BY GetUserTyped, PreloadKeysTyped, PreloadServersTyped, PreloadDevicesTyped, SaveUserTyped,
   SaveUserRejectedTyped, ListKeysTyped, ListDevicesTyped, SaveDeviceTyped, CascadeDoneTyped,
   DeleteUserTyped, FindExpiredUsersTyped, NextUserTyped, UserSweepDoneTyped, GetDeviceTyped,
   PutDeviceTyped
DEF UserSteps

-----------------------------------------------------------------------------
(* The steps of ServerService.                                             *)

LEMMA GetServerTyped ==
    ASSUME TypeOK, Control, NEW p \in Procs, NEW s \in Servers, NEW o \in ServerOps,
           GetServer(p, s, o)
    PROVE  TypeOK' /\ Control'
<1> USE DEF GetServer, Goto, db, fleet, outline, env
<1>1. TablesOK' /\ UsersKept
    BY DEF TypeOK, TablesOK, UsersKept
<1>2. ProcsOK'
    BY EmptyReads DEF TypeOK, TablesOK, ProcsOK, AllOps, Labels, ServerOps, NoServers
<1>3. Others(p)
    BY DEF TypeOK, ProcsOK, Others
<1>4. ControlAt(p)'
    BY NoneAssumption DEF TypeOK, TablesOK, ProcsOK, Control, ControlAt, Provisioned, CascadeOps, ServerOps, Idle
<1>5. QED
    BY <1>1, <1>2, <1>3, <1>4, StepControl DEF TypeOK

LEMMA PutServerTyped ==
    ASSUME TypeOK, Control, NEW p \in Procs, NEW s \in Servers, NEW t \in ServerStatus,
           PutServer(p, s, t)
    PROVE  TypeOK' /\ Control'
<1> USE DEF PutServer, fleet, outline, env
<1>0. [srows[p][s] EXCEPT !.status = t] \in SrvRow
    <2>1. srows[p][s] \in SrvRow
        BY DEF TypeOK, ProcsOK
    <2>2. QED
        BY <2>1 DEF SrvRow
<1>1. TablesOK' /\ UsersKept
    BY <1>0 DEF TypeOK, TablesOK, UsersKept
<1>2. QED
    BY <1>1, LeavingStep

LEMMA ServerStepsTyped ==
    ASSUME TypeOK, Control, NEW p \in Procs, ServerSteps(p)
    PROVE  TypeOK' /\ Control'
BY GetServerTyped, PutServerTyped DEF ServerSteps

-----------------------------------------------------------------------------
(* Failures, the steps that involve no process, and the theorem.           *)

LEMMA FailTyped ==
    ASSUME TypeOK, Control, NEW p \in Procs, Fail(p) \/ Crash(p)
    PROVE  TypeOK' /\ Control'
<1>1. TablesOK' /\ UsersKept
    BY DEF Fail, Crash, Fault, db, fleet, outline, TypeOK, TablesOK, UsersKept
<1>2. QED
    BY <1>1, LeavingStep DEF Fail, Crash

LEMMA RestTyped ==
    ASSUME TypeOK, Control,
           \/ \E u \in Users, e \in Expiries : CreateUser(u, e)
           \/ \E d \in Devices : DeleteDevice(d)
           \/ \E s \in Servers : CreateServer(s) \/ DeleteServer(s)
           \/ Tick
           \/ UNCHANGED vars
    PROVE  TypeOK' /\ Control'
<1>1. TablesOK' /\ UsersKept
    <2> USE DEF TypeOK, TablesOK, UsersKept, db, fleet, outline, env
    <2>1. CASE \E u \in Users, e \in Expiries : CreateUser(u, e)
        <3>1. PICK u \in Users, e \in Expiries : CreateUser(u, e)
            BY <2>1
        <3>2. [status |-> "ACTIVE", expires |-> e, deleted |-> FALSE] \in UserRow
            BY ExpiryAssumption DEF UserRow, UserStatus
        <3>3. QED
            BY <3>1, <3>2, NoneAssumption DEF CreateUser
    <2>2. CASE \E d \in Devices : DeleteDevice(d)
        BY <2>2 DEF DeleteDevice
    <2>3. CASE \E s \in Servers : CreateServer(s) \/ DeleteServer(s)
        <3>1. [status |-> "ONLINE"] \in SrvRow
            BY DEF SrvRow, ServerStatus
        <3>2. QED
            BY <2>3, <3>1 DEF CreateServer, DeleteServer
    <2>4. CASE Tick
        BY <2>4 DEF Tick
    <2>5. CASE UNCHANGED vars
        BY <2>5 DEF vars
    <2>6. QED
        BY <2>1, <2>2, <2>3, <2>4, <2>5
<1>2. UNCHANGED proc
    BY DEF CreateUser, DeleteDevice, CreateServer, DeleteServer, Tick, vars, proc
<1>3. ProcsOK'
    BY <1>2 DEF proc, TypeOK, ProcsOK
<1>4. ASSUME NEW q \in Procs PROVE ControlAt(q)'
    <2>1. ControlAt(q)
        BY DEF Control
    <2>2. QED
        BY <1>1, <1>2, <2>1, ControlFrame DEF proc, TypeOK
<1>5. QED
    BY <1>1, <1>3, <1>4 DEF TypeOK, Control

LEMMA InitTyped == Init => TypeOK /\ Control
<1>1. Init => TablesOK
    <2>1. [status : {"ACTIVE"}, expires : Expiries, deleted : {FALSE}] \subseteq UserRow
        BY ExpiryAssumption DEF UserRow, UserStatus
    <2>2. [user : Users, status : {"ACTIVE"}] \subseteq DevRow
        BY DEF DevRow, DevStatus
    <2>3. [status : {"ONLINE"}] \subseteq SrvRow
        BY DEF SrvRow, ServerStatus
    <2>4. QED
        <3>1. Init => users \in [Users -> UserRow \cup {None}]
            BY <2>1 DEF Init
        <3>2. Init => devices \in [Devices -> DevRow \cup {None}]
            BY <2>2 DEF Init
        <3>3. Init => /\ keys = NoKeys /\ minted = {} /\ live = {}
                      /\ now = 0 /\ faults = 0
            BY DEF Init
        <3>4. Init => servers \in [Servers -> SrvRow \cup {None}] /\ opened \subseteq Servers
            BY <2>3 DEF Init
        <3>5. QED
            BY <3>1, <3>2, <3>3, <3>4, EmptyReads DEF TablesOK
<1>2. Init => ProcsOK
    BY EmptyReads DEF Init, ProcsOK, AllOps, Labels
<1>3. Init => Control
    BY DEF Init, Control, ControlAt, Provisioned, NoUsers, CascadeOps
<1>4. QED
    BY <1>1, <1>2, <1>3 DEF TypeOK

LEMMA NextTyped == TypeOK /\ Control /\ [Next]_vars => TypeOK' /\ Control'
BY KeyStepsTyped, UserStepsTyped, ServerStepsTyped, FailTyped, RestTyped DEF Next

\* Type correctness of the control plane, for every number of users, keys,
\* credentials, devices and concurrent requests and any number of failures:
\* every row a handler saves (SaveKey, SaveUser) is a row it has read, and
\* every credential it records is one Outline gave it.
THEOREM TypeCorrect == Spec => []TypeOK
<1>1. Spec => [](TypeOK /\ Control)
    BY InitTyped, NextTyped, PTL DEF Spec
<1>2. QED
    BY <1>1, PTL
=============================================================================
