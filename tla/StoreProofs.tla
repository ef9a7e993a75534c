---------------------------- MODULE StoreProofs -----------------------------
(***************************************************************************)
(* What the tables and Outline keep, for every value of the constants:     *)
(*                                                                         *)
(* Servers, devices and users that are there change only as their own      *)
(* requests say, and rows that were deleted come back only with a user or  *)
(* by a PATCH.  The Saves of single keys are the ones in question: they    *)
(* insert a row that has vanished, and its server.  By NoLostUpdate the    *)
(* row has not vanished, so by the foreign key its server is there too:    *)
(* such a Save neither inserts nor is rejected.                            *)
(*                                                                         *)
(* How many credentials the control plane can lose: those that work in     *)
(* Outline while neither a row of access_keys nor a running request knows  *)
(* them.  Every step keeps them as they are, but for the failures, which   *)
(* add one at most.  And where the opposite comes from, ACTIVE rows whose  *)
(* credential is gone.                                                     *)
(***************************************************************************)
EXTENDS KeyProofs, FiniteSetTheorems

-----------------------------------------------------------------------------
(* Servers, devices and users.                                             *)

\* What the foreign key of access_keys says.
KeysHaveServers == \A k \in Keys : keys[k] # None => servers[keys[k].server] # None

\* Steps that write neither access_keys nor vpn_servers.
LEMMA KeyReaders ==
    ASSUME NEW p \in Procs, KeySteps(p),
           ~\E k \in Keys, s \in Servers, e \in Expiries : InsertKey(p, k, s, e),
           ~SaveKey(p), ~DropKey(p)
    PROVE  keys' = keys /\ servers' = servers
BY DEF KeySteps, CreateKey, GetKey, RevokeAccepted, RevokeNotFound, RevokeReplyLost, PostAccepted,
       PostReplyLost, LabelKey, InsertRejected, Cleanup, FindExpiredKeys, KeySweepDone, db, fleet

LEMMA UserReaders ==
    ASSUME NEW p \in Procs, UserSteps(p), ~\E e \in Expiries : SaveUser(p, e)
    PROVE  keys' = keys /\ servers' = servers
BY DEF UserSteps, GetUser, PreloadKeys, PreloadServers, PreloadDevices, SaveUserRejected, ListKeys, ListDevices, SaveDevice,
       CascadeDone, DeleteUser, FindExpiredUsers, NextUser, UserSweepDone, GetDevice, PutDevice,
       db, fleet

LEMMA InsertKeyServer ==
    ASSUME Safe, KeysHaveServers, NEW p \in Procs, NEW k \in Keys, NEW s \in Servers,
           NEW e \in Expiries, InsertKey(p, k, s, e)
    PROVE  KeysHaveServers'
<1>1. servers' = servers /\ servers[s] # None
    BY DEF InsertKey, fleet
<1>2. keys'[k].server = s /\ \A j \in Keys : j # k => keys'[j] = keys[j]
    BY DEF InsertKey, Safe, TypeOK, TablesOK
<1>3. QED
    BY <1>1, <1>2 DEF KeysHaveServers

\* A Save of a key is an UPDATE: the row that p read is in the table, so its
\* server is there, and is left alone.
LEMMA SaveKeyUpdates ==
    ASSUME Safe, KeysHaveServers, NEW p \in Procs, SaveKey(p)
    PROVE  /\ ServerThere(p) /\ servers' = servers /\ opened' = opened
           /\ cur[p] \in Keys /\ keys[cur[p]] # None
           /\ keys'[cur[p]] = SavedRow(p, snap[p][cur[p]])
           /\ keys'[cur[p]].server = keys[cur[p]].server
           /\ \A j \in Keys : j # cur[p] => keys'[j] = keys[j]
<1>1. PICK k \in Keys : k = cur[p]
    BY DEF SaveKey, Safe, Control, ControlAt, TypeOK, ProcsOK
<1>2. Holds(p, k)
    BY <1>1, NoneAssumption DEF SaveKey, Safe, KeysSafe, WritersHold
<1>3. keys[k] = snap[p][k] /\ snap[p][k] \in KeyRow /\ keys[k] # None
    BY <1>2, HeldRow, NoneAssumption
<1>4. snap[p][k].server \in Servers /\ servers[snap[p][k].server] # None
    BY <1>3 DEF KeysHaveServers, KeyRow
<1>5. ServerThere(p)
    BY <1>1, <1>4 DEF ServerThere
<1>6. servers' = servers /\ opened' = opened
    BY <1>1, <1>4, <1>5 DEF SaveKey, Safe, TypeOK, TablesOK
<1>7. /\ keys'[k] = SavedRow(p, snap[p][k])
      /\ \A j \in Keys : j # k => keys'[j] = keys[j]
    BY <1>1, <1>5 DEF SaveKey, Safe, TypeOK, TablesOK
<1>8. keys'[k].server = keys[k].server
    BY <1>3, <1>7 DEF SavedRow, KeyRow
<1>9. QED
    BY <1>1, <1>3, <1>5, <1>6, <1>7, <1>8

LEMMA SaveKeyServer ==
    ASSUME Safe, KeysHaveServers, NEW p \in Procs, SaveKey(p)
    PROVE  KeysHaveServers'
BY SaveKeyUpdates DEF KeysHaveServers

LEMMA DropKeyServer ==
    ASSUME Safe, KeysHaveServers, NEW p \in Procs, DropKey(p)
    PROVE  KeysHaveServers'
<1>1. servers' = servers /\ \A j \in Keys : keys'[j] = keys[j] \/ keys'[j] = None
    BY DEF DropKey, fleet, Safe, TypeOK, TablesOK
<1>2. QED
    BY <1>1 DEF KeysHaveServers

LEMMA SaveUserServer ==
    ASSUME Safe, KeysHaveServers, NEW p \in Procs, NEW e \in Expiries, SaveUser(p, e)
    PROVE  KeysHaveServers'
<1>1. /\ \A j \in Keys : keys'[j] = IF keys[j] = None THEN snap[p][j] ELSE keys[j]
      /\ \A s \in Servers : servers'[s] = IF servers[s] = None THEN srows[p][s] ELSE servers[s]
    BY DEF SaveUser, Reinsert, Safe, TypeOK, TablesOK
<1>2. ServersThere(p)
    BY DEF SaveUser
<1>3. \A j \in Keys : /\ keys[j] # None => keys[j].server \in Servers
                      /\ snap[p][j] # None => snap[p][j].server \in Servers
    BY DEF Safe, TypeOK, TablesOK, ProcsOK, KeyRow
<1>4. QED
    BY <1>1, <1>2, <1>3 DEF KeysHaveServers, ServersThere

LEMMA WriteServer ==
    ASSUME Safe, KeysHaveServers,
           \/ \E p \in Procs : ServerSteps(p)
           \/ \E s \in Servers : CreateServer(s) \/ DeleteServer(s)
    PROVE  KeysHaveServers'
<1>1. \A j \in Keys : keys[j] # None => keys[j].server \in Servers
    BY DEF Safe, TypeOK, TablesOK, KeyRow
<1>2. ASSUME NEW p \in Procs, NEW s \in Servers, NEW t \in ServerStatus, PutServer(p, s, t)
      PROVE  KeysHaveServers'
    <2>1. srows[p][s] \in SrvRow
        BY <1>2 DEF PutServer, Safe, TypeOK, ProcsOK
    <2>2. [srows[p][s] EXCEPT !.status = t] \in SrvRow
        BY <2>1 DEF SrvRow
    <2>3. keys' = keys /\ \A x \in Servers : servers'[x] = servers[x] \/ servers'[x] # None
        BY <1>2, <2>2, NoneAssumption DEF PutServer, Safe, TypeOK, TablesOK
    <2>4. QED
        BY <1>1, <2>3 DEF KeysHaveServers
<1>3. ASSUME NEW p \in Procs, NEW s \in Servers, NEW o \in ServerOps, GetServer(p, s, o)
      PROVE  KeysHaveServers'
    BY <1>3 DEF GetServer, db, fleet, KeysHaveServers
<1>4. ASSUME NEW s \in Servers, CreateServer(s) PROVE KeysHaveServers'
    <2>1. [status |-> "ONLINE"] \in SrvRow
        BY DEF SrvRow, ServerStatus
    <2>2. keys' = keys /\ \A x \in Servers : servers'[x] = servers[x] \/ servers'[x] # None
        BY <1>4, <2>1, NoneAssumption DEF CreateServer, Safe, TypeOK, TablesOK
    <2>3. QED
        BY <1>1, <2>2 DEF KeysHaveServers
<1>5. ASSUME NEW s \in Servers, DeleteServer(s) PROVE KeysHaveServers'
    BY <1>1, <1>5 DEF DeleteServer, KeysHaveServers, Safe, TypeOK, TablesOK
<1>6. QED
    BY <1>2, <1>3, <1>4, <1>5 DEF ServerSteps

\* An access key in the table has its server in the table.  PostgreSQL sees to
\* that; here it shows that the model's writes obey the foreign key.
LEMMA KeysHaveServersAlways == Spec => []KeysHaveServers
<1>1. Init => KeysHaveServers
    BY DEF Init, KeysHaveServers, NoKeys
<1>2. ASSUME Safe, KeysHaveServers, [Next]_vars PROVE KeysHaveServers'
    <2>1. ASSUME keys' = keys /\ servers' = servers PROVE KeysHaveServers'
        BY <1>2, <2>1 DEF KeysHaveServers
    <2>2. ASSUME NEW p \in Procs, KeySteps(p) PROVE KeysHaveServers'
        BY <1>2, <2>1, <2>2, KeyReaders, InsertKeyServer, SaveKeyServer, DropKeyServer
    <2>3. ASSUME NEW p \in Procs, UserSteps(p) PROVE KeysHaveServers'
        BY <1>2, <2>1, <2>3, UserReaders, SaveUserServer
    <2>4. ASSUME NEW p \in Procs, Fail(p) \/ Crash(p) PROVE KeysHaveServers'
        BY <2>1, <2>4 DEF Fail, Crash, db, fleet
    <2>5. CASE \/ \E u \in Users, e \in Expiries : CreateUser(u, e)
               \/ \E d \in Devices : DeleteDevice(d)
               \/ Tick
               \/ UNCHANGED vars
        BY <2>1, <2>5 DEF CreateUser, DeleteDevice, Tick, db, fleet, vars
    <2>6. QED
        BY <1>2, <2>2, <2>3, <2>4, <2>5, WriteServer DEF Next
<1>3. QED
    BY <1>1, <1>2, SafeAlways, PTL DEF Spec

-----------------------------------------------------------------------------
(* Which step may change a server or the status of a device.               *)

\* A UUID that the table or a request knows was given to a server.
ServersOpened ==
    \A s \in Servers :
        servers[s] # None \/ (\E p \in Procs : srows[p][s] # None) => s \in opened

\* What a step may do to servers and to the copies of them.
ServersMove ==
    /\ opened \subseteq opened'
    /\ \A s \in Servers : servers'[s] # None =>
          servers[s] # None \/ s \in opened' \/ \E p \in Procs : srows[p][s] # None
    /\ \A p \in Procs, s \in Servers : srows'[p][s] # None =>
          servers[s] # None \/ srows[p][s] # None

\* Such a step makes up no UUID.
LEMMA MoveKeepsOpened ==
    ASSUME ServersOpened, ServersMove
    PROVE  ServersOpened'
BY DEF ServersOpened, ServersMove

\* A process that leaves forgets its copies.
LEMMA LeaveServers ==
    ASSUME TypeOK, NEW p \in Procs, Return(p) \/ Leave(p, "idle")
    PROVE  \A q \in Procs, s \in Servers : srows'[q][s] # None => srows[q][s] # None
<1>1. PICK l \in Outside : Leave(p, l)
    BY ReturnLeaves DEF Outside
<1>2. QED
    BY <1>1 DEF Leave, NoServers, TypeOK, ProcsOK

\* Copies that are read are those of servers that are there.
LEMMA CopiesRead ==
    ASSUME TypeOK, NEW p \in Procs, servers' = servers, opened' = opened,
           \/ \E rows : srows' = [srows EXCEPT ![p] = ServersOf(rows)]
           \/ \E s \in Servers : srows' = [srows EXCEPT ![p] = [NoServers EXCEPT ![s] = servers[s]]]
           \/ srows' = [srows EXCEPT ![p] = NoServers]
    PROVE  ServersMove
<1>1. \A q \in Procs, x \in Servers :
         srows'[q][x] = srows[q][x] \/ srows'[q][x] = None \/ srows'[q][x] = servers[x]
    <2>1. ASSUME NEW c, srows' = [srows EXCEPT ![p] = c],
                 \A x \in Servers : c[x] = None \/ c[x] = servers[x],
                 NEW q \in Procs, NEW x \in Servers
          PROVE  srows'[q][x] = srows[q][x] \/ srows'[q][x] = None \/ srows'[q][x] = servers[x]
        BY <2>1 DEF TypeOK, ProcsOK
    <2>2. \A rows : \A x \in Servers : ServersOf(rows)[x] = None \/ ServersOf(rows)[x] = servers[x]
        BY DEF ServersOf
    <2>3. \A s, x \in Servers : \/ [NoServers EXCEPT ![s] = servers[s]][x] = None
                               \/ [NoServers EXCEPT ![s] = servers[s]][x] = servers[x]
        BY DEF NoServers
    <2>4. \A x \in Servers : NoServers[x] = None
        BY DEF NoServers
    <2>5. CASE \E rows : srows' = [srows EXCEPT ![p] = ServersOf(rows)]
        <3>1. PICK rows : srows' = [srows EXCEPT ![p] = ServersOf(rows)]
            BY <2>5
        <3>2. QED
            BY <2>1, <2>2, <3>1
    <2>6. CASE \E s \in Servers : srows' = [srows EXCEPT ![p] = [NoServers EXCEPT ![s] = servers[s]]]
        <3>1. PICK s \in Servers : srows' = [srows EXCEPT ![p] = [NoServers EXCEPT ![s] = servers[s]]]
            BY <2>6
        <3>2. QED
            BY <2>1, <2>3, <3>1
    <2>7. CASE srows' = [srows EXCEPT ![p] = NoServers]
        BY <2>1, <2>4, <2>7
    <2>8. QED
        BY <2>5, <2>6, <2>7
<1>2. QED
    BY <1>1 DEF ServersMove

\* The steps of AccessKeyService only read servers.
LEMMA KeyStepsServers ==
    ASSUME Safe, KeysHaveServers, NEW p \in Procs, KeySteps(p)
    PROVE  servers' = servers /\ ServersMove
<1>0. TypeOK
    BY DEF Safe
<1>1. servers' = servers /\ opened' = opened
    <2>1. CASE SaveKey(p)
        BY <2>1, SaveKeyUpdates
    <2>2. CASE ~SaveKey(p)
        BY <2>2
        DEF KeySteps, CreateKey, GetKey, RevokeAccepted, RevokeNotFound, RevokeReplyLost,
            PostAccepted, PostReplyLost, LabelKey, InsertKey, InsertRejected, Cleanup, DropKey,
            FindExpiredKeys, KeySweepDone, db, fleet
    <2>3. QED
        BY <2>1, <2>2
<1>2. CASE Return(p)
    BY <1>0, <1>1, <1>2, LeaveServers DEF ServersMove
<1>3. CASE srows' = srows
    BY <1>1, <1>3 DEF ServersMove
<1>4. ASSUME NEW u \in Users, NEW s \in Servers, CreateKey(p, u, s) PROVE ServersMove
    BY <1>0, <1>1, <1>4, CopiesRead DEF CreateKey
<1>5. ASSUME NEW k \in Keys, NEW o \in KeyOps, GetKey(p, k, o) PROVE ServersMove
    BY <1>0, <1>1, <1>5, CopiesRead DEF GetKey
<1>6. QED
    BY <1>1, <1>2, <1>3, <1>4, <1>5
       DEF KeySteps, RevokeAccepted, RevokeNotFound, RevokeReplyLost, PostAccepted,
           PostReplyLost, LabelKey, InsertKey, InsertRejected, Cleanup, SaveKey, DropKey,
           FindExpiredKeys, KeySweepDone

\* Of the steps of UserService only the Save of a user writes servers, and
\* none that is there.
LEMMA UserStepsServers ==
    ASSUME TypeOK, NEW p \in Procs, UserSteps(p)
    PROVE  /\ \A s \in Servers : servers[s] # None => servers'[s] = servers[s]
           /\ \A s \in Servers : servers[s] = None /\ servers'[s] # None =>
                 pc[p] = "usave" /\ srows[p][s] # None
           /\ ServersMove
<1>1. CASE \E e \in Expiries : SaveUser(p, e)
    <2>1. PICK e \in Expiries : SaveUser(p, e)
        BY <1>1
    <2>2. \A s \in Servers : servers'[s] = IF servers[s] = None THEN srows[p][s] ELSE servers[s]
        BY <2>1 DEF SaveUser, Reinsert, TypeOK, TablesOK
    <2>3. opened' = opened /\ pc[p] = "usave"
        BY <2>1 DEF SaveUser
    <2>4. \A q \in Procs, s \in Servers : srows'[q][s] # None => srows[q][s] # None
        <3>1. CASE op[p] = "update"
            BY <2>1, <3>1, LeaveServers DEF SaveUser
        <3>2. CASE op[p] # "update"
            BY <2>1, <3>2 DEF SaveUser, NoServers, TypeOK, ProcsOK
        <3>3. QED
            BY <3>1, <3>2
    <2>5. QED
        BY <2>2, <2>3, <2>4 DEF ServersMove
<1>2. CASE ~\E e \in Expiries : SaveUser(p, e)
    <2>1. servers' = servers /\ opened' = opened
        BY <1>2 DEF UserSteps, GetUser, PreloadKeys, PreloadServers, PreloadDevices,
                    SaveUserRejected, ListKeys, ListDevices, SaveDevice, CascadeDone, DeleteUser,
                    FindExpiredUsers, NextUser, UserSweepDone, GetDevice, PutDevice, db, fleet
    <2>2. \/ srows' = srows \/ Return(p)
          \/ srows' = [srows EXCEPT ![p] = ServersOf(snap[p])]
          \/ srows' = [srows EXCEPT ![p] = ServersOf(KeysOf(usr[p]))]
          \/ srows' = [srows EXCEPT ![p] = NoServers]
        BY <1>2 DEF UserSteps, GetUser, PreloadKeys, PreloadServers, PreloadDevices,
                    SaveUserRejected, ListKeys, ListDevices, SaveDevice, CascadeDone, DeleteUser,
                    FindExpiredUsers, NextUser, UserSweepDone, GetDevice, PutDevice
    <2>3. ServersMove
        BY <2>1, <2>2, CopiesRead, LeaveServers DEF ServersMove
    <2>4. QED
        BY <2>1, <2>3
<1>3. QED
    BY <1>1, <1>2

\* PATCH and DELETE of a server, and the creation of one under a new UUID.
LEMMA ServerStepsServers ==
    ASSUME TypeOK, ServersOpened,
           \/ \E p \in Procs : ServerSteps(p)
           \/ \E s \in Servers : CreateServer(s) \/ DeleteServer(s)
    PROVE  /\ \A s \in Servers :
                 servers[s] # None /\ servers'[s] # None /\ servers'[s] # servers[s]
                   => \E p \in Procs : pc[p] = "sput" /\ srows[p][s] # None
           /\ \A s \in opened : servers[s] = None /\ servers'[s] # None /\ s \in Servers
                   => \E p \in Procs : pc[p] = "sput" /\ srows[p][s] # None
           /\ ServersMove
<1>1. ASSUME NEW p \in Procs, NEW s \in Servers, NEW t \in ServerStatus, PutServer(p, s, t)
      PROVE  /\ \A x \in Servers : servers'[x] = servers[x] \/ (x = s /\ pc[p] = "sput" /\ srows[p][x] # None)
             /\ ServersMove
    <2>1. /\ \A x \in Servers : x # s => servers'[x] = servers[x]
          /\ opened' = opened /\ pc[p] = "sput" /\ srows[p][s] # None
        BY <1>1 DEF PutServer, TypeOK, TablesOK
    <2>2. \A q \in Procs, x \in Servers : srows'[q][x] # None => srows[q][x] # None
        BY <1>1, LeaveServers DEF PutServer
    <2>3. QED
        BY <2>1, <2>2 DEF ServersMove
<1>2. ASSUME NEW p \in Procs, NEW s \in Servers, NEW o \in ServerOps, GetServer(p, s, o)
      PROVE  servers' = servers /\ ServersMove
    <2>1. servers' = servers /\ opened' = opened
        BY <1>2 DEF GetServer, db, fleet
    <2>2. \A q \in Procs, x \in Servers : srows'[q][x] = srows[q][x] \/ srows'[q][x] = None
                                           \/ srows'[q][x] = servers[x]
        BY <1>2 DEF GetServer, NoServers, TypeOK, ProcsOK
    <2>3. QED
        BY <2>1, <2>2 DEF ServersMove
<1>3. ASSUME NEW s \in Servers, CreateServer(s)
      PROVE  /\ \A x \in Servers : servers[x] # None \/ x \in opened => servers'[x] = servers[x]
             /\ ServersMove
    <2>1. servers[s] = None /\ s \notin opened
        BY <1>3 DEF CreateServer, ServersOpened
    <2>2. /\ \A x \in Servers : x # s => servers'[x] = servers[x]
          /\ opened' = opened \cup {s} /\ srows' = srows
        BY <1>3 DEF CreateServer, proc, TypeOK, TablesOK
    <2>3. QED
        BY <2>1, <2>2 DEF ServersMove
<1>4. ASSUME NEW s \in Servers, DeleteServer(s)
      PROVE  (\A x \in Servers : servers'[x] = servers[x] \/ servers'[x] = None) /\ ServersMove
    <2>1. /\ \A x \in Servers : servers'[x] = servers[x] \/ servers'[x] = None
          /\ opened' = opened /\ srows' = srows
        BY <1>4 DEF DeleteServer, proc, TypeOK, TablesOK
    <2>2. QED
        BY <2>1 DEF ServersMove
<1>5. QED
    BY <1>1, <1>2, <1>3, <1>4 DEF ServerSteps

\* Failures and the other requests leave servers alone.
LEMMA RestServers ==
    ASSUME TypeOK,
           \/ \E p \in Procs : Fail(p) \/ Crash(p)
           \/ \E u \in Users, e \in Expiries : CreateUser(u, e)
           \/ \E d \in Devices : DeleteDevice(d)
           \/ Tick
           \/ UNCHANGED vars
    PROVE  servers' = servers /\ ServersMove
<1>1. servers' = servers /\ opened' = opened
    BY DEF Fail, Crash, CreateUser, DeleteDevice, Tick, db, fleet, vars
<1>2. srows' = srows \/ \E p \in Procs : Return(p) \/ Leave(p, "idle")
    BY DEF Fail, Crash, CreateUser, DeleteDevice, Tick, proc, vars
<1>3. QED
    BY <1>1, <1>2, LeaveServers DEF ServersMove

\* A server that is there changes only by the Save of its own PATCH, however
\* many users are saved with stale copies of it.
THEOREM OnlyPatchChangesServerAlways == Spec => OnlyPatchChangesServer
<1> DEFINE Change == \A s \in Servers :
                        /\ servers[s] # None /\ servers'[s] # None /\ servers'[s] # servers[s]
                        => \E p \in Procs : pc[p] = "sput" /\ srows[p][s] # None
<1>1. Init => ServersOpened
    BY DEF Init, ServersOpened, NoServers
<1>2. Safe /\ KeysHaveServers /\ ServersOpened /\ [Next]_vars => ServersOpened' /\ Change
    <2>1. ASSUME Safe, KeysHaveServers, ServersOpened, [Next]_vars PROVE ServersMove /\ Change
        <3>1. TypeOK
            BY <2>1 DEF Safe
        <3>2. QED
            BY <2>1, <3>1, KeyStepsServers, UserStepsServers, ServerStepsServers, RestServers
            DEF Next
    <2>2. QED
        BY <2>1, MoveKeepsOpened
<1>3. QED
    BY <1>1, <1>2, SafeAlways, KeysHaveServersAlways, PTL DEF Spec, OnlyPatchChangesServer

\* UUIDs of servers are never made up.
LEMMA ServersOpenedAlways == Spec => []ServersOpened
<1>1. Init => ServersOpened
    BY DEF Init, ServersOpened, NoServers
<1>2. ASSUME Safe, KeysHaveServers, ServersOpened, [Next]_vars PROVE ServersOpened'
    <2>1. TypeOK
        BY <1>2 DEF Safe
    <2>2. ServersMove
        BY <1>2, <2>1, KeyStepsServers, UserStepsServers, ServerStepsServers, RestServers DEF Next
    <2>3. QED
        BY <1>2, <2>2, MoveKeepsOpened
<1>3. QED
    BY <1>1, <1>2, SafeAlways, KeysHaveServersAlways, PTL DEF Spec

\* A key that was deleted comes back only with its owner.
LEMMA KeyComesBack ==
    ASSUME Safe, KeysHaveServers, [Next]_vars, NEW k \in minted, keys[k] = None, keys'[k] # None
    PROVE  \E p \in Procs : pc[p] = "usave" /\ snap[p][k] # None
<1>1. k \in Keys /\ keys' # keys
    BY DEF Safe, TypeOK, TablesOK
<1>2. ASSUME NEW p \in Procs, KeySteps(p) PROVE FALSE
    <2>1. ASSUME NEW j \in Keys, NEW s \in Servers, NEW e \in Expiries, InsertKey(p, j, s, e)
          PROVE  FALSE
        BY <1>1, <2>1 DEF InsertKey, Safe, TypeOK, TablesOK
    <2>2. CASE SaveKey(p)
        BY <1>1, <2>2, SaveKeyUpdates
    <2>3. CASE DropKey(p)
        BY <1>1, <2>3 DEF DropKey, Safe, TypeOK, TablesOK
    <2>4. QED
        BY <1>1, <1>2, <2>1, <2>2, <2>3, KeyReaders
<1>3. ASSUME NEW p \in Procs, UserSteps(p) PROVE pc[p] = "usave" /\ snap[p][k] # None
    <2>1. PICK e \in Expiries : SaveUser(p, e)
        BY <1>1, <1>3, UserReaders
    <2>2. keys'[k] = snap[p][k] /\ pc[p] = "usave"
        BY <1>1, <2>1 DEF SaveUser, Reinsert, Safe, TypeOK, TablesOK
    <2>3. QED
        BY <2>2
<1>4. ASSUME NEW p \in Procs, ServerSteps(p) \/ Fail(p) \/ Crash(p) PROVE FALSE
    BY <1>1, <1>4 DEF ServerSteps, GetServer, PutServer, Fail, Crash, db
<1>5. ASSUME \/ \E u \in Users, e \in Expiries : CreateUser(u, e)
             \/ \E d \in Devices : DeleteDevice(d)
             \/ \E s \in Servers : CreateServer(s) \/ DeleteServer(s)
             \/ Tick \/ UNCHANGED vars
      PROVE  FALSE
    BY <1>1, <1>5 DEF CreateUser, DeleteDevice, CreateServer, DeleteServer, Tick, db, vars
<1>6. QED
    BY <1>2, <1>3, <1>4, <1>5 DEF Next

\* A server that was deleted comes back only with a user or by its own PATCH.
LEMMA ServerComesBack ==
    ASSUME Safe, KeysHaveServers, ServersOpened, [Next]_vars,
           NEW s \in opened, servers[s] = None, servers'[s] # None
    PROVE  \E p \in Procs : pc[p] \in {"usave", "sput"} /\ srows[p][s] # None
<1>1. TypeOK /\ s \in Servers /\ servers' # servers
    BY DEF Safe, TypeOK, TablesOK
<1>2. QED
    BY <1>1, KeyStepsServers, UserStepsServers, ServerStepsServers, RestServers DEF Next

\* Saves insert rows that are gone, and rows loaded with them.  Still a deleted
\* key comes back only when its owner is saved, a deleted server only with such
\* an owner or by its own PATCH; Revoke, Rotate, cascades and sweeps, which save
\* keys with no lock, bring back neither.
THEOREM OnlyUserSaveReinsertsAlways == Spec => OnlyUserSaveReinserts
<1>1. Safe /\ KeysHaveServers /\ ServersOpened /\ [Next]_vars =>
        /\ \A k \in minted : keys[k] = None /\ keys'[k] # None =>
             \E p \in Procs : pc[p] = "usave" /\ snap[p][k] # None
        /\ \A s \in opened : servers[s] = None /\ servers'[s] # None =>
             \E p \in Procs : pc[p] \in {"usave", "sput"} /\ srows[p][s] # None
    BY KeyComesBack, ServerComesBack
<1>2. QED
    BY <1>1, SafeAlways, KeysHaveServersAlways, ServersOpenedAlways, PTL
    DEF Spec, OnlyUserSaveReinserts

\* The steps that write vpn_devices.
LEMMA DeviceWriters ==
    ASSUME [Next]_vars, devices' # devices
    PROVE  \/ \E p \in Procs, e \in Expiries : SaveUser(p, e)
           \/ \E p \in Procs, x \in Devices : SaveDevice(p, x)
           \/ \E p \in Procs, x \in Devices, s \in DevStatus : PutDevice(p, x, s)
           \/ \E x \in Devices : DeleteDevice(x)
<1>1. ASSUME NEW p \in Procs, KeySteps(p) PROVE FALSE
    BY <1>1
       DEF KeySteps, CreateKey, GetKey, RevokeAccepted, RevokeNotFound, RevokeReplyLost, PostAccepted,
           PostReplyLost, LabelKey, InsertKey, InsertRejected, Cleanup, SaveKey, DropKey,
           FindExpiredKeys, KeySweepDone, db
<1>2. ASSUME NEW p \in Procs, UserSteps(p)
      PROVE  \/ \E e \in Expiries : SaveUser(p, e)
             \/ \E x \in Devices : SaveDevice(p, x)
             \/ \E x \in Devices, s \in DevStatus : PutDevice(p, x, s)
    BY <1>2
       DEF UserSteps, GetUser, PreloadKeys, PreloadServers, PreloadDevices, SaveUserRejected, ListKeys, ListDevices, CascadeDone,
           DeleteUser, FindExpiredUsers, NextUser, UserSweepDone, GetDevice, db
<1>3. ASSUME NEW p \in Procs, ServerSteps(p) \/ Fail(p) \/ Crash(p) PROVE FALSE
    BY <1>3 DEF ServerSteps, GetServer, PutServer, Fail, Crash, db
<1>4. ASSUME \/ \E u \in Users, e \in Expiries : CreateUser(u, e)
             \/ \E s \in Servers : CreateServer(s) \/ DeleteServer(s)
             \/ Tick \/ UNCHANGED vars
      PROVE  FALSE
    BY <1>4 DEF CreateUser, CreateServer, DeleteServer, Tick, db, vars
<1>5. QED
    BY <1>1, <1>2, <1>3, <1>4 DEF Next

\* A revoked device stays revoked unless somebody patches the device itself:
\* cascades write REVOKED only, and the Save of a user inserts devices that
\* are gone and no others.
THEOREM OnlyPatchUnrevokesAlways == Spec => OnlyPatchUnrevokes
<1> DEFINE Unrevoked(d) == /\ devices[d] # None /\ devices[d].status = "REVOKED"
                           /\ devices'[d] # None /\ devices'[d].status # "REVOKED"
<1>1. ASSUME TypeOK, [Next]_vars, NEW d \in Devices, Unrevoked(d)
      PROVE  \E p \in Procs : pc[p] = "dput" /\ drows[p][d] # None
    <2>1. \/ \E p \in Procs, e \in Expiries : SaveUser(p, e)
          \/ \E p \in Procs, x \in Devices : SaveDevice(p, x)
          \/ \E p \in Procs, x \in Devices, s \in DevStatus : PutDevice(p, x, s)
          \/ \E x \in Devices : DeleteDevice(x)
        <3>1. devices' # devices
            BY <1>1
        <3>2. QED
            BY <1>1, <3>1, DeviceWriters
    <2>2. ASSUME NEW p \in Procs, NEW e \in Expiries, SaveUser(p, e) PROVE FALSE
        BY <1>1, <2>2 DEF SaveUser, Reinsert, TypeOK, TablesOK
    <2>3. ASSUME NEW p \in Procs, NEW x \in Devices, SaveDevice(p, x) PROVE FALSE
        <3>1. drows[p][x] \in DevRow
            BY <1>1, <2>3 DEF SaveDevice, TypeOK, ProcsOK
        <3>2. [drows[p][x] EXCEPT !.status = "REVOKED"].status = "REVOKED"
            BY <3>1 DEF DevRow
        <3>3. devices'[d] = devices[d] \/ devices'[d].status = "REVOKED"
            BY <1>1, <2>3, <3>2 DEF SaveDevice, TypeOK, TablesOK
        <3>4. QED
            BY <1>1, <3>3
    <2>4. ASSUME NEW x \in Devices, DeleteDevice(x) PROVE FALSE
        BY <1>1, <2>4 DEF DeleteDevice, TypeOK, TablesOK
    <2>5. ASSUME NEW p \in Procs, NEW x \in Devices, NEW s \in DevStatus, PutDevice(p, x, s)
          PROVE  pc[p] = "dput" /\ drows[p][d] # None
        BY <1>1, <2>5 DEF PutDevice, TypeOK, TablesOK
    <2>6. QED
        BY <2>1, <2>2, <2>3, <2>4, <2>5
<1>2. TypeOK /\ [Next]_vars =>
        \A d \in Devices : Unrevoked(d) => \E p \in Procs : pc[p] = "dput" /\ drows[p][d] # None
    BY <1>1
<1>3. QED
    BY <1>2, TypeCorrect, PTL DEF Spec, OnlyPatchUnrevokes

\* The steps that write vpn_users.
LEMMA UserWriters ==
    ASSUME [Next]_vars, users' # users
    PROVE  \/ \E p \in Procs, e \in Expiries : SaveUser(p, e)
           \/ \E p \in Procs : DeleteUser(p)
           \/ \E u \in Users, e \in Expiries : CreateUser(u, e)
<1>1. ASSUME NEW p \in Procs, KeySteps(p) PROVE FALSE
    BY <1>1
       DEF KeySteps, CreateKey, GetKey, RevokeAccepted, RevokeNotFound, RevokeReplyLost, PostAccepted,
           PostReplyLost, LabelKey, InsertKey, InsertRejected, Cleanup, SaveKey, DropKey,
           FindExpiredKeys, KeySweepDone, db
<1>2. ASSUME NEW p \in Procs, UserSteps(p)
      PROVE  (\E e \in Expiries : SaveUser(p, e)) \/ DeleteUser(p)
    BY <1>2
       DEF UserSteps, GetUser, PreloadKeys, PreloadServers, PreloadDevices, SaveUserRejected, ListKeys, ListDevices, SaveDevice,
           CascadeDone, FindExpiredUsers, NextUser, UserSweepDone, GetDevice, PutDevice, db
<1>3. ASSUME NEW p \in Procs, ServerSteps(p) \/ Fail(p) \/ Crash(p) PROVE FALSE
    BY <1>3 DEF ServerSteps, GetServer, PutServer, Fail, Crash, db
<1>4. ASSUME \/ \E d \in Devices : DeleteDevice(d)
             \/ \E s \in Servers : CreateServer(s) \/ DeleteServer(s)
             \/ Tick \/ UNCHANGED vars
      PROVE  FALSE
    BY <1>4 DEF DeleteDevice, CreateServer, DeleteServer, Tick, db, vars
<1>5. QED
    BY <1>1, <1>2, <1>3, <1>4 DEF Next

\* Only Update saves the status of a user as it was read; Disable and the
\* sweep write their own over it, so that a row of theirs is never ACTIVE.
LEMMA SaveUserRevives ==
    ASSUME TypeOK, Control, NEW p \in Procs, NEW e \in Expiries, SaveUser(p, e),
           NEW u \in Users, ~Usable(u), Usable(u)'
    PROVE  op[p] = "update" /\ pc[p] = "usave" /\ usr[p] = u /\ urows[p][u].status = "ACTIVE"
<1>1. pc[p] = "usave" /\ usr[p] \in Users /\ urows[p][usr[p]] \in UserRow
    BY NoneAssumption DEF SaveUser, TypeOK, ProcsOK, Control, ControlAt
<1>2. users' = [users EXCEPT ![usr[p]] = SavedUser(p, urows[p][usr[p]], e)]
    BY DEF SaveUser
<1>3. users'[u] # users[u]
    BY DEF Usable
<1>4. usr[p] = u /\ users'[u] = SavedUser(p, urows[p][u], e)
    BY <1>1, <1>2, <1>3 DEF TypeOK, TablesOK
<1>5. SavedUser(p, urows[p][u], e).status = "ACTIVE"
    BY <1>4 DEF Usable
<1>6. op[p] = "update" /\ urows[p][u].status = "ACTIVE"
    BY <1>1, <1>4, <1>5 DEF SavedUser, UserRow
<1>7. QED
    BY <1>1, <1>4, <1>6

\* A user who was disabled, has expired or was deleted is brought back by no
\* step but the Save of an Update that read the row before.
THEOREM OnlyUpdateRevivesAlways == Spec => OnlyUpdateRevives
<1> DEFINE Revived(u) == users[u] # None /\ ~Usable(u) /\ Usable(u)'
           ByUpdate(u) == \E p \in Procs : /\ op[p] = "update" /\ pc[p] = "usave" /\ usr[p] = u
                                           /\ urows[p][u].status = "ACTIVE"
<1>1. ASSUME Safe, [Next]_vars, NEW u \in Users, Revived(u)
      PROVE  ByUpdate(u)
    <2>1. TypeOK /\ Control
        BY <1>1 DEF Safe
    <2>2. \/ \E p \in Procs, e \in Expiries : SaveUser(p, e)
          \/ \E p \in Procs : DeleteUser(p)
          \/ \E v \in Users, e \in Expiries : CreateUser(v, e)
        <3>1. users' # users
            BY <1>1 DEF Usable
        <3>2. QED
            BY <1>1, <3>1, UserWriters
    <2>3. ASSUME NEW p \in Procs, NEW e \in Expiries, SaveUser(p, e)
          PROVE  ByUpdate(u)
        BY <1>1, <2>1, <2>3, SaveUserRevives
    <2>4. ASSUME NEW p \in Procs, DeleteUser(p) PROVE FALSE
        <3>1. users' = [users EXCEPT ![usr[p]].deleted = TRUE] /\ users \in [Users -> UserRow \cup {None}]
            BY <2>1, <2>4 DEF DeleteUser, TypeOK, TablesOK
        <3>2. users[u] \in UserRow
            BY <1>1, <3>1
        <3>3. usr[p] = u => users'[u].deleted
            BY <3>1, <3>2 DEF UserRow
        <3>4. usr[p] # u => users'[u] = users[u]
            BY <3>1
        <3>5. QED
            BY <1>1, <3>3, <3>4 DEF Usable
    <2>5. ASSUME NEW v \in Users, NEW e \in Expiries, CreateUser(v, e) PROVE FALSE
        BY <1>1, <2>1, <2>5 DEF CreateUser, Usable, TypeOK, TablesOK
    <2>6. QED
        BY <2>2, <2>3, <2>4, <2>5
<1>2. Safe /\ [Next]_vars =>
        \A u \in Users : users[u] # None /\ ~Usable(u) /\ Usable(u)' =>
          \E p \in Procs : /\ op[p] = "update" /\ pc[p] = "usave" /\ usr[p] = u
                            /\ urows[p][u].status = "ACTIVE"
    BY <1>1
<1>3. QED
    BY <1>2, SafeAlways, PTL DEF Spec, OnlyUpdateRevives

-----------------------------------------------------------------------------
(* Credentials that are lost, rows that are left behind.                   *)

Known(r) ==
    \/ \E k \in Keys : keys[k] # None /\ keys[k].ref = r
    \/ \E p \in Procs : new[p] = r

\* A step loses nothing, or it is a failure and loses one credential.
LossStep ==
    \/ Lost' \subseteq Lost /\ faults' >= faults
    \/ faults' = faults + 1 /\ \E r \in Refs : Lost' \subseteq Lost \cup {r}

\* What was not lost is still known, and what is new is known.
LEMMA NothingLost ==
    ASSUME faults' >= faults, \A r \in live' : Known(r)' \/ (r \in live /\ ~Known(r))
    PROVE  LossStep
<1>1. Lost' \subseteq Lost
    BY DEF Lost, Known
<1>2. QED
    BY <1>1 DEF LossStep

\* The rows and the requests still know what they knew.
LEMMA NothingForgotten ==
    ASSUME faults' >= faults, keys' = keys, new' = new, live' \subseteq live
    PROVE  LossStep
<1>1. \A r \in live' : Known(r)' \/ (r \in live /\ ~Known(r))
    BY DEF Known
<1>2. QED
    BY <1>1, NothingLost

LEMMA FaultCounts ==
    ASSUME Safe
    PROVE  /\ faults' = faults => faults' >= faults
           /\ Fault => faults' >= faults /\ faults' = faults + 1
BY DEF Fault, Safe, TypeOK, TablesOK

\* A process that leaves with nothing provisioned forgets nothing.
LEMMA LeaveNothing ==
    ASSUME Safe, NEW p \in Procs, Return(p), ~Provisioned(p)
    PROVE  new' = new /\ new[p] = None
<1>1. new[p] = None
    BY DEF Safe, Control, ControlAt
<1>2. PICK l \in Outside : Leave(p, l)
    BY ReturnLeaves
<1>3. QED
    BY <1>1, <1>2 DEF Leave, Safe, TypeOK, ProcsOK

LEMMA KeyStepsLoss ==
    ASSUME Safe, NEW p \in Procs,
           \/ \E u \in Users, s \in Servers : CreateKey(p, u, s)
           \/ \E k \in Keys, o \in KeyOps : GetKey(p, k, o)
           \/ \E k \in Keys : RevokeAccepted(p, k) \/ RevokeNotFound(p, k) \/ RevokeReplyLost(p, k)
           \/ LabelKey(p)
           \/ InsertRejected(p)
           \/ FindExpiredKeys(p)
           \/ KeySweepDone(p)
    PROVE  LossStep
<1>1. faults' >= faults
    BY FaultCounts
    DEF CreateKey, GetKey, RevokeAccepted, RevokeNotFound, RevokeReplyLost, LabelKey,
        InsertRejected, FindExpiredKeys, KeySweepDone, env
<1>2. keys' = keys /\ live' \subseteq live
    BY DEF CreateKey, GetKey, RevokeAccepted, RevokeNotFound, RevokeReplyLost, LabelKey,
           InsertRejected, FindExpiredKeys, KeySweepDone, db, outline
<1>3. new' = new
    BY LeaveNothing
    DEF CreateKey, GetKey, RevokeAccepted, RevokeNotFound, RevokeReplyLost, LabelKey,
        InsertRejected, FindExpiredKeys, KeySweepDone, Provisioned
<1>4. QED
    BY <1>1, <1>2, <1>3, NothingForgotten

LEMMA UserStepsLoss ==
    ASSUME Safe, NEW p \in Procs, UserSteps(p), ~\E e \in Expiries : SaveUser(p, e)
    PROVE  LossStep
<1>1. faults' >= faults
    BY FaultCounts
    DEF UserSteps, GetUser, PreloadKeys, PreloadServers, PreloadDevices, SaveUserRejected, ListKeys, ListDevices, SaveDevice,
        CascadeDone, DeleteUser, FindExpiredUsers, NextUser, UserSweepDone, GetDevice, PutDevice,
        env
<1>2. keys' = keys /\ live' \subseteq live
    BY DEF UserSteps, GetUser, PreloadKeys, PreloadServers, PreloadDevices, SaveUserRejected, ListKeys, ListDevices, SaveDevice,
        CascadeDone, DeleteUser, FindExpiredUsers, NextUser, UserSweepDone, GetDevice, PutDevice,
        db, outline
<1>3. new' = new
    BY LeaveNothing
    DEF UserSteps, GetUser, PreloadKeys, PreloadServers, PreloadDevices, SaveUserRejected, ListKeys, ListDevices, SaveDevice,
        CascadeDone, DeleteUser, FindExpiredUsers, NextUser, UserSweepDone, GetDevice, PutDevice,
        Provisioned
<1>4. QED
    BY <1>1, <1>2, <1>3, NothingForgotten

LEMMA ServerStepsLoss ==
    ASSUME Safe, NEW p \in Procs, ServerSteps(p)
    PROVE  LossStep
<1>1. faults' >= faults /\ keys' = keys /\ live' \subseteq live
    BY FaultCounts DEF ServerSteps, GetServer, PutServer, env, db, outline
<1>2. new' = new
    BY LeaveNothing DEF ServerSteps, GetServer, PutServer, Provisioned
<1>3. QED
    BY <1>1, <1>2, NothingForgotten

-----------------------------------------------------------------------------
(* Credentials come, go, and pass from requests to rows.                   *)

LEMMA PostLoss ==
    ASSUME Safe, NEW p \in Procs, NEW r \in Refs, PostAccepted(p, r)
    PROVE  LossStep
<1>1. /\ new[p] = None /\ new'[p] = r /\ live' = live \cup {r} /\ keys' = keys
      /\ \A q \in Procs : q # p => new'[q] = new[q]
      /\ faults' >= faults
    BY FaultCounts
    DEF PostAccepted, Safe, Control, ControlAt, Provisioned, TypeOK, ProcsOK, db, env
<1>2. \A x \in live' : Known(x)' \/ (x \in live /\ ~Known(x))
    <2>1. \A x \in live : x \in Refs /\ x # None
        BY NoneAssumption DEF Safe, TypeOK, TablesOK
    <2>2. QED
        BY <1>1, <2>1 DEF Known
<1>3. QED
    BY <1>1, <1>2, NothingLost

\* The POST is applied and its reply is lost: nobody knows the credential.
LEMMA PostReplyLostLoss ==
    ASSUME Safe, NEW p \in Procs, NEW r \in Refs, PostReplyLost(p, r)
    PROVE  LossStep
<1>1. new' = new /\ keys' = keys /\ live' = live \cup {r} /\ faults' = faults + 1
    BY LeaveNothing, FaultCounts DEF PostReplyLost, Provisioned, db
<1>2. Lost' \subseteq Lost \cup {r}
    BY <1>1 DEF Lost
<1>3. QED
    BY <1>1, <1>2 DEF LossStep

LEMMA InsertKeyLoss ==
    ASSUME Safe, NEW p \in Procs, NEW k \in Keys, NEW s \in Servers, NEW e \in Expiries,
           InsertKey(p, k, s, e)
    PROVE  LossStep
<1>1. /\ live' = live /\ faults' >= faults
      /\ \A q \in Procs : q # p => new'[q] = new[q]
    BY LeftProcess, FaultCounts DEF InsertKey, outline, env, Others
<1>2. keys[k] = None
    BY DEF InsertKey, Safe, KeysSafe, Ownership, Names, TypeOK, TablesOK, KeyRow
<1>3. keys'[k] # None /\ keys'[k].ref = new[p] /\ \A j \in Keys : j # k => keys'[j] = keys[j]
    <2> DEFINE row == [user |-> usr[p], server |-> s, ref |-> new[p],
                       status |-> "ACTIVE", expires |-> e]
    <2>1. keys'[k] = row /\ \A j \in Keys : j # k => keys'[j] = keys[j]
        BY DEF InsertKey, Safe, TypeOK, TablesOK
    <2>2. row \in KeyRow
        BY ExpiryAssumption
        DEF InsertKey, Safe, Control, ControlAt, Provisioned, TypeOK, ProcsOK, KeyRow, KeyStatus
    <2>3. QED
        BY <2>1, <2>2, NoneAssumption
<1>4. \A r \in live' : Known(r)' \/ (r \in live /\ ~Known(r))
    BY <1>1, <1>2, <1>3 DEF Known
<1>5. QED
    BY <1>1, <1>4, NothingLost

LEMMA CleanupLoss ==
    ASSUME Safe, NEW p \in Procs, Cleanup(p)
    PROVE  LossStep
<1>1. /\ live' = live \ {new[p]} /\ keys' = keys /\ faults' >= faults
      /\ \A q \in Procs : q # p => new'[q] = new[q]
    BY LeftProcess, FaultCounts DEF Cleanup, db, env, Others
<1>2. \A r \in live' : Known(r)' \/ (r \in live /\ ~Known(r))
    BY <1>1 DEF Known
<1>3. QED
    BY <1>1, <1>2, NothingLost

\* Rotate records the credential it made; the one that its row named is gone.
LEMMA SaveKeyLoss ==
    ASSUME Safe, KeysHaveServers, NEW p \in Procs, SaveKey(p)
    PROVE  LossStep
<1>1. PICK k \in Keys : k = cur[p]
    BY DEF SaveKey, Safe, Control, ControlAt, TypeOK, ProcsOK
<1>2. Holds(p, k)
    BY <1>1, NoneAssumption DEF SaveKey, Safe, KeysSafe, WritersHold
<1>3. keys[k] = snap[p][k] /\ snap[p][k] \in KeyRow /\ keys[k].ref \notin live
    BY <1>2, HeldRow, NoneAssumption DEF LiveKey
<1>4. /\ live' = live /\ faults' >= faults /\ keys'[k] = SavedRow(p, snap[p][k])
      /\ \A j \in Keys : j # k => keys'[j] = keys[j]
    BY <1>1, SaveKeyUpdates, FaultCounts DEF SaveKey, outline, env
<1>5. keys'[k] \in KeyRow /\ keys'[k] # None
    BY <1>1, <1>4, SavedRowTyped, NoneAssumption DEF SaveKey, Safe
<1>6. \A q \in Procs : q # p => new'[q] = new[q]
    BY LeftProcess DEF SaveKey, Others
<1>7. CASE op[p] = "rotate"
    <2>1. keys'[k].ref = new[p]
        BY <1>3, <1>4, <1>7 DEF SavedRow, KeyRow
    <2>2. \A r \in live' : Known(r)' \/ (r \in live /\ ~Known(r))
        BY <1>3, <1>4, <1>5, <1>6, <2>1 DEF Known
    <2>3. QED
        BY <1>4, <2>2, NothingLost
<1>8. CASE op[p] # "rotate"
    <2>1. new[p] = None
        BY <1>8 DEF SaveKey, Safe, Control, ControlAt, Provisioned
    <2>2. \A r \in live : r # None
        BY NoneAssumption DEF Safe, TypeOK, TablesOK
    <2>3. \A r \in live' : Known(r)' \/ (r \in live /\ ~Known(r))
        BY <1>3, <1>4, <1>6, <2>1, <2>2 DEF Known
    <2>4. QED
        BY <1>4, <2>3, NothingLost
<1>9. QED
    BY <1>7, <1>8

\* A row is dropped only when its credential is gone.
LEMMA DropKeyLoss ==
    ASSUME Safe, NEW p \in Procs, DropKey(p)
    PROVE  LossStep
<1>1. PICK k \in Keys : k = cur[p] /\ snap[p][k] # None
    BY DEF DropKey, Safe, Control, ControlAt, TypeOK, ProcsOK
<1>2. ~LiveKey(k)
    <2>1. CASE snap[p][k].status = "ACTIVE"
        BY <1>1, <2>1, HeldRow DEF DropKey, Holds
    <2>2. CASE snap[p][k].status # "ACTIVE"
        BY <1>1, <2>2 DEF Safe, KeysSafe, EndedStaysDead, Dead
    <2>3. QED
        BY <2>1, <2>2
<1>3. /\ live' = live /\ faults' >= faults /\ new' = new
      /\ \A j \in Keys : j # k => keys'[j] = keys[j]
    BY <1>1, LeaveNothing, FaultCounts
    DEF DropKey, Provisioned, outline, env, Safe, TypeOK, TablesOK
<1>4. \A r \in live' : Known(r)' \/ (r \in live /\ ~Known(r))
    BY <1>2, <1>3 DEF Known, LiveKey
<1>5. QED
    BY <1>3, <1>4, NothingLost

LEMMA SaveUserLoss ==
    ASSUME Safe, NEW p \in Procs, NEW e \in Expiries, SaveUser(p, e)
    PROVE  LossStep
<1>1. /\ live' = live /\ faults' >= faults
      /\ \A j \in Keys : keys[j] # None => keys'[j] = keys[j]
    BY FaultCounts DEF SaveUser, Reinsert, outline, env, Safe, TypeOK, TablesOK
<1>2. new' = new
    BY LeaveNothing DEF SaveUser, Provisioned
<1>3. \A r \in live' : Known(r)' \/ (r \in live /\ ~Known(r))
    BY <1>1, <1>2 DEF Known
<1>4. QED
    BY <1>1, <1>3, NothingLost

\* A request that fails or dies forgets at most what it has provisioned.
LEMMA FailLoss ==
    ASSUME Safe, NEW p \in Procs, Fail(p) \/ Crash(p)
    PROVE  LossStep
<1>1. live' = live /\ keys' = keys /\ faults' = faults + 1 /\ faults' >= faults
    BY FaultCounts DEF Fail, Crash, db, outline
<1>2. PICK l \in Outside : Leave(p, l)
    BY ReturnLeaves DEF Fail, Crash, Outside
<1>3. \A q \in Procs : q # p => new'[q] = new[q]
    BY <1>2 DEF Leave, Safe, TypeOK, ProcsOK
<1>4. CASE new[p] = None
    <2>1. new' = new
        BY <1>2, <1>4 DEF Leave, Safe, TypeOK, ProcsOK
    <2>2. QED
        BY <1>1, <2>1, NothingForgotten
<1>5. CASE new[p] # None
    <2>1. new[p] \in Refs
        BY <1>5 DEF Safe, TypeOK, ProcsOK
    <2>2. Lost' \subseteq Lost \cup {new[p]}
        BY <1>1, <1>3 DEF Lost
    <2>3. QED
        BY <1>1, <2>1, <2>2 DEF LossStep
<1>6. QED
    BY <1>4, <1>5

-----------------------------------------------------------------------------

LEMMA NextLoss ==
    ASSUME Safe, KeysHaveServers, [Next]_vars
    PROVE  LossStep
<1>1. ASSUME NEW p \in Procs, KeySteps(p) PROVE LossStep
    BY <1>1, KeyStepsLoss, PostLoss, PostReplyLostLoss, InsertKeyLoss, CleanupLoss, SaveKeyLoss,
       DropKeyLoss
    DEF KeySteps
<1>2. ASSUME NEW p \in Procs, UserSteps(p) PROVE LossStep
    BY <1>2, UserStepsLoss, SaveUserLoss
<1>3. CASE \/ \E u \in Users, e \in Expiries : CreateUser(u, e)
           \/ \E d \in Devices : DeleteDevice(d)
           \/ \E s \in Servers : CreateServer(s) \/ DeleteServer(s)
           \/ Tick
           \/ UNCHANGED vars
    <2>1. keys' = keys /\ new' = new /\ live' = live /\ faults' = faults
        BY <1>3 DEF CreateUser, DeleteDevice, CreateServer, DeleteServer, Tick, vars, db, outline,
                    env, proc
    <2>2. QED
        BY <2>1, NothingForgotten, FaultCounts
<1>4. QED
    BY <1>1, <1>2, <1>3, ServerStepsLoss, FailLoss DEF Next

\* However many requests run and whichever of their calls fail, the working
\* credentials that nothing knows of are no more than the failures: no race
\* loses one.
THEOREM LossBounded == Spec => []LossBoundedByFaults
<1>1. Init => LossBoundedByFaults
    <2>1. Init => Lost = {} /\ faults = 0
        BY DEF Init, Lost
    <2>2. QED
        BY <2>1, FS_EmptySet DEF LossBoundedByFaults
<1>2. ASSUME Safe, Safe', KeysHaveServers, LossBoundedByFaults, [Next]_vars PROVE LossBoundedByFaults'
    <2>1. faults \in Nat /\ faults' \in Nat /\ live \subseteq Refs /\ live' \subseteq Refs
        BY <1>2 DEF Safe, TypeOK, TablesOK
    <2>2. IsFiniteSet(Lost) /\ IsFiniteSet(Lost')
        BY <2>1, FiniteAssumption, FS_Subset DEF Lost
    <2>3. Cardinality(Lost) \in Nat /\ Cardinality(Lost') \in Nat
        BY <2>2, FS_CardinalityType
    <2>4. CASE Lost' \subseteq Lost /\ faults' >= faults
        <3>1. Cardinality(Lost') <= Cardinality(Lost)
            BY <2>2, <2>4, FS_Subset
        <3>2. QED
            BY <1>2, <2>1, <2>3, <2>4, <3>1 DEF LossBoundedByFaults
    <2>5. CASE faults' = faults + 1 /\ \E r \in Refs : Lost' \subseteq Lost \cup {r}
        <3>1. PICK r \in Refs : Lost' \subseteq Lost \cup {r}
            BY <2>5
        <3>2. /\ IsFiniteSet(Lost \cup {r})
              /\ Cardinality(Lost \cup {r}) = Cardinality(Lost)
                   \/ Cardinality(Lost \cup {r}) = Cardinality(Lost) + 1
            BY <2>2, FS_AddElement
        <3>3. Cardinality(Lost') <= Cardinality(Lost \cup {r})
            BY <3>1, <3>2, FS_Subset
        <3>4. QED
            BY <1>2, <2>1, <2>3, <2>5, <3>2, <3>3 DEF LossBoundedByFaults
    <2>6. QED
        BY <1>2, <2>4, <2>5, NextLoss DEF LossStep
<1>3. QED
    BY <1>1, <1>2, SafeAlways, KeysHaveServersAlways, PTL DEF Spec

-----------------------------------------------------------------------------
(* Ghosts: ACTIVE rows whose credential is gone.                           *)

\* The Save of a user inserts k again.
Reinserted(k) == keys[k] = None /\ \E p \in Procs : pc[p] = "usave" /\ snap[p][k] # None

\* A step makes no ghost of k, but for the two causes.
NoGhost(k) == ~Ghost(k) /\ Ghost(k)' => faults' > faults \/ Reinserted(k)

\* The labels at which a process may hold a key.
Holding == {"post", "label", "save", "drop"}

\* What only p changes, of what Holds reads.
OnlyOf(p) ==
    \A q \in Procs \ {p} : pc'[q] = pc[q] /\ cur'[q] = cur[q] /\ snap'[q] = snap[q]

\* Where no row, no credential and no holder goes away, no ghost appears.
LEMMA NoGhostAppears ==
    ASSUME NEW k \in Keys, keys' = keys, live \subseteq live',
           \A q \in Procs : Holds(q, k) => Holds(q, k)'
    PROVE  NoGhost(k)
BY DEF NoGhost, Ghost

\* A process that holds nothing may do as it likes with its variables.
LEMMA FreeStep ==
    ASSUME NEW k \in Keys, NEW p \in Procs, OnlyOf(p), pc[p] \notin Holding,
           keys' = keys, live \subseteq live'
    PROVE  NoGhost(k)
<1>1. \A q \in Procs : Holds(q, k) => Holds(q, k)'
    BY DEF Holds, Holding, OnlyOf
<1>2. QED
    BY <1>1, NoGhostAppears

LEMMA LeaveOnlyOf ==
    ASSUME TypeOK, NEW p \in Procs, Return(p) \/ Leave(p, "idle")
    PROVE  OnlyOf(p)
<1>1. PICK l \in Outside : Leave(p, l)
    BY ReturnLeaves DEF Outside
<1>2. QED
    BY <1>1 DEF Leave, OnlyOf, TypeOK, ProcsOK

LEMMA FreeKeySteps ==
    ASSUME Safe, NEW k \in Keys, NEW p \in Procs,
           \/ \E u \in Users, s \in Servers : CreateKey(p, u, s)
           \/ \E j \in Keys, o \in KeyOps : GetKey(p, j, o)
           \/ \E j \in Keys : RevokeNotFound(p, j)
           \/ InsertRejected(p) \/ FindExpiredKeys(p) \/ KeySweepDone(p)
    PROVE  NoGhost(k)
<1>1. keys' = keys /\ live' = live
    BY DEF CreateKey, GetKey, RevokeNotFound, InsertRejected, FindExpiredKeys, KeySweepDone,
           db, outline
<1>2. pc[p] \notin Holding
    BY DEF CreateKey, GetKey, RevokeNotFound, InsertRejected, FindExpiredKeys, KeySweepDone,
           Idle, Holding
<1>3. OnlyOf(p)
    <2>1. CASE Return(p)
        BY <2>1, LeaveOnlyOf DEF Safe
    <2>2. CASE ~Return(p)
        BY <2>2 DEF CreateKey, GetKey, RevokeNotFound, InsertRejected, FindExpiredKeys,
                    KeySweepDone, Goto, OnlyOf, Safe, TypeOK, ProcsOK
    <2>3. QED
        BY <2>1, <2>2
<1>4. QED
    BY <1>1, <1>2, <1>3, FreeStep

LEMMA FreeUserSteps ==
    ASSUME Safe, NEW k \in Keys, NEW p \in Procs,
           \/ UserSteps(p) /\ ~\E e \in Expiries : SaveUser(p, e)
           \/ ServerSteps(p)
    PROVE  NoGhost(k)
<1>1. keys' = keys /\ live' = live
    BY DEF UserSteps, GetUser, PreloadKeys, PreloadServers, PreloadDevices, SaveUserRejected, ListKeys, ListDevices, SaveDevice,
           CascadeDone, DeleteUser, FindExpiredUsers, NextUser, UserSweepDone, GetDevice, PutDevice,
           ServerSteps, GetServer, PutServer, db, outline
<1>2. pc[p] \notin Holding
    BY DEF UserSteps, GetUser, PreloadKeys, PreloadServers, PreloadDevices, SaveUserRejected, ListKeys, ListDevices, SaveDevice,
           CascadeDone, DeleteUser, FindExpiredUsers, NextUser, UserSweepDone, GetDevice, PutDevice,
           ServerSteps, GetServer, PutServer, Idle, Holding
<1>3. OnlyOf(p)
    <2>1. CASE Return(p)
        BY <2>1, LeaveOnlyOf DEF Safe
    <2>2. CASE ~Return(p) /\ UserSteps(p) /\ ~\E e \in Expiries : SaveUser(p, e)
        <3>1. pc' = pc \/ \E l \in Labels : Goto(p, l)
            BY <2>2 DEF UserSteps, GetUser, PreloadKeys, PreloadServers, PreloadDevices, SaveUserRejected, ListKeys, ListDevices,
                        SaveDevice, CascadeDone, DeleteUser, FindExpiredUsers, NextUser,
                        UserSweepDone, GetDevice, PutDevice, Labels
        <3>2. cur' = cur
            BY <2>2 DEF UserSteps, GetUser, PreloadKeys, PreloadServers, PreloadDevices, SaveUserRejected, ListKeys, ListDevices,
                        SaveDevice, CascadeDone, DeleteUser, FindExpiredUsers, NextUser,
                        UserSweepDone, GetDevice, PutDevice
        <3>3. \/ snap' = snap
              \/ \E u \in Users : snap' = [snap EXCEPT ![p] = KeysOf(u)]
              \/ snap' = [snap EXCEPT ![p] = KeysOf(usr[p])]
              \/ snap' = [snap EXCEPT ![p] = NoKeys]
            BY <2>2 DEF UserSteps, GetUser, PreloadKeys, PreloadServers, PreloadDevices, SaveUserRejected, ListKeys, ListDevices,
                        SaveDevice, CascadeDone, DeleteUser, FindExpiredUsers, NextUser,
                        UserSweepDone, GetDevice, PutDevice
        <3>4. QED
            BY <3>1, <3>2, <3>3 DEF Goto, OnlyOf, Safe, TypeOK, ProcsOK
    <2>3. CASE ~Return(p) /\ ServerSteps(p)
        BY <2>3 DEF ServerSteps, GetServer, PutServer, Goto, OnlyOf, Safe, TypeOK, ProcsOK
    <2>4. QED
        BY <2>1, <2>2, <2>3
<1>4. QED
    BY <1>1, <1>2, <1>3, FreeStep

\* Between its POST and its Save, Rotate keeps hold of its key.
LEMMA KeepHold ==
    ASSUME Safe, NEW k \in Keys, NEW p \in Procs,
           LabelKey(p) \/ \E r \in Refs : PostAccepted(p, r)
    PROVE  NoGhost(k)
<1>1. keys' = keys /\ live \subseteq live'
    BY DEF LabelKey, PostAccepted, db, outline
<1>2. ASSUME NEW q \in Procs, Holds(q, k) PROVE Holds(q, k)'
    <2>1. cur' = cur /\ snap' = snap /\ \A x \in Procs : x # p => pc'[x] = pc[x]
        BY DEF LabelKey, PostAccepted, Goto, Safe, TypeOK, ProcsOK
    <2>2. CASE q # p
        BY <1>2, <2>1, <2>2 DEF Holds
    <2>3. CASE q = p
        <3>1. op[p] # "create"
            BY <1>2, <2>3, NoneAssumption DEF Holds, Safe, Control, ControlAt
        <3>2. pc'[p] \in Holding
            BY <3>1 DEF LabelKey, PostAccepted, Goto, Holding, Safe, TypeOK, ProcsOK
        <3>3. QED
            BY <1>2, <2>1, <2>3, <3>2 DEF Holds, Holding
    <2>4. QED
        BY <2>2, <2>3
<1>3. QED
    BY <1>1, <1>2, NoGhostAppears

\* Failures count.
LEMMA FaultCause ==
    ASSUME Safe, NEW k \in Keys, Fault
    PROVE  NoGhost(k)
BY DEF NoGhost, Fault, Safe, TypeOK, TablesOK

\* The DELETE that succeeds makes its caller the holder of the key.
LEMMA RevokeAcceptedGhost ==
    ASSUME Safe, NEW k \in Keys, NEW p \in Procs, NEW j \in Keys, RevokeAccepted(p, j)
    PROVE  NoGhost(k)
<1>1. /\ keys' = keys /\ snap' = snap /\ cur'[p] = j /\ pc'[p] \in Holding
      /\ live' = live \ {snap[p][j].ref}
      /\ snap[p][j] # None /\ snap[p][j].ref \in live
    BY DEF RevokeAccepted, AfterRevoke, Goto, Holding, db, Safe, TypeOK, ProcsOK, Control, ControlAt
<1>2. OnlyOf(p) /\ pc[p] \notin Holding
    BY DEF RevokeAccepted, Goto, Holding, OnlyOf, Safe, TypeOK, ProcsOK
<1>3. keys[j] = snap[p][j]
    BY <1>1 DEF Safe, KeysSafe, FreshCopies
<1>4. \A q \in Procs : Holds(q, k) => Holds(q, k)'
    BY <1>1, <1>2 DEF Holds, Holding, OnlyOf
<1>5. SUFFICES ASSUME ~Ghost(k), Ghost(k)' PROVE FALSE
    BY DEF NoGhost
<1>6. CASE k = j
    <2>1. Holds(p, j)'
        BY <1>1, <1>3, <1>5, <1>6 DEF Holds, Holding, Ghost
    <2>2. QED
        BY <1>5, <1>6, <2>1 DEF Ghost
<1>7. CASE k # j
    <2>1. keys[k] # None /\ keys[k] \in KeyRow
        BY <1>1, <1>5 DEF Ghost, Safe, TypeOK, TablesOK
    <2>2. keys[k].ref # snap[p][j].ref
        BY <1>1, <1>3, <1>7, <2>1 DEF KeyRow, Safe, KeysSafe, Ownership, Names
    <2>3. QED
        BY <1>1, <1>4, <1>5, <2>2 DEF Ghost
<1>8. QED
    BY <1>6, <1>7

\* The credential that Create deletes again is in no row.
LEMMA CleanupGhost ==
    ASSUME Safe, NEW k \in Keys, NEW p \in Procs, Cleanup(p)
    PROVE  NoGhost(k)
<1>1. keys' = keys /\ live' = live \ {new[p]} /\ pc[p] \notin Holding /\ new[p] # None
    BY DEF Cleanup, db, Holding, Safe, Control, ControlAt, Provisioned
<1>2. OnlyOf(p)
    BY LeaveOnlyOf DEF Cleanup, Safe
<1>3. \A q \in Procs : Holds(q, k) => Holds(q, k)'
    BY <1>1, <1>2 DEF Holds, Holding, OnlyOf
<1>4. keys[k] # None => keys[k].ref # new[p]
    BY <1>1 DEF Safe, KeysSafe, Ownership, Names
<1>5. QED
    BY <1>1, <1>3, <1>4 DEF NoGhost, Ghost

\* Create and Rotate record a credential that works, Revoke, cascades and
\* sweeps a row that is not ACTIVE, and Delete none.
LEMMA RecordGhost ==
    ASSUME Safe, KeysHaveServers, NEW k \in Keys, NEW p \in Procs,
           \/ \E j \in Keys, s \in Servers, e \in Expiries : InsertKey(p, j, s, e)
           \/ SaveKey(p) \/ DropKey(p)
    PROVE  NoGhost(k)
<1>1. live' = live
    BY DEF InsertKey, SaveKey, DropKey, outline
<1>2. CASE \E j \in Keys, s \in Servers, e \in Expiries : InsertKey(p, j, s, e)
    <2>1. PICK j \in Keys, s \in Servers, e \in Expiries : InsertKey(p, j, s, e)
        BY <1>2
    <2>2. OnlyOf(p) /\ pc[p] \notin Holding /\ new[p] \in live
        BY <2>1, LeaveOnlyOf DEF InsertKey, Holding, Safe, Control, ControlAt, Provisioned,
                                 KeysSafe, Ownership
    <2>3. \A q \in Procs : Holds(q, k) => Holds(q, k)'
        BY <2>2 DEF Holds, Holding, OnlyOf
    <2>4. keys'[k] = keys[k] \/ keys'[k].ref = new[p]
        BY <2>1 DEF InsertKey, Safe, TypeOK, TablesOK
    <2>5. QED
        BY <1>1, <2>2, <2>3, <2>4 DEF NoGhost, Ghost
<1>3. CASE SaveKey(p)
    <2>1. PICK j \in Keys : j = cur[p]
        BY <1>3 DEF SaveKey, Safe, Control, ControlAt, TypeOK, ProcsOK
    <2>2. OnlyOf(p)
        <3>1. CASE Return(p)
            BY <3>1, LeaveOnlyOf DEF Safe
        <3>2. CASE ~Return(p)
            BY <1>3, <3>2 DEF SaveKey, Goto, OnlyOf, Safe, TypeOK, ProcsOK
        <3>3. QED
            BY <3>1, <3>2
    <2>3. keys'[j] = SavedRow(p, snap[p][j]) /\ \A x \in Keys : x # j => keys'[x] = keys[x]
        BY <1>3, <2>1, SaveKeyUpdates
    <2>4. snap[p][j] \in KeyRow
        BY <2>1, NoneAssumption DEF Safe, TypeOK, ProcsOK, Control, ControlAt
    <2>5. CASE k = j
        <3>1. op[p] = "rotate" => new[p] \in live
            BY <1>3 DEF SaveKey, Safe, Control, ControlAt, Provisioned, KeysSafe, Ownership
        <3>2. keys'[j].status # "ACTIVE" \/ keys'[j].ref \in live
            BY <2>3, <2>4, <3>1 DEF SavedRow, KeyRow
        <3>3. QED
            BY <1>1, <2>5, <3>2 DEF NoGhost, Ghost
    <2>6. CASE k # j
        <3>1. \A q \in Procs : Holds(q, k) => Holds(q, k)'
            BY <2>1, <2>2, <2>6 DEF Holds, OnlyOf
        <3>2. QED
            BY <1>1, <2>3, <2>6, <3>1 DEF NoGhost, Ghost
    <2>7. QED
        BY <2>5, <2>6
<1>4. CASE DropKey(p)
    <2>1. PICK j \in Keys : j = cur[p]
        BY <1>4 DEF DropKey, Safe, Control, ControlAt, TypeOK, ProcsOK
    <2>2. OnlyOf(p)
        BY <1>4, LeaveOnlyOf DEF DropKey, Safe
    <2>3. keys'[j] = None /\ \A x \in Keys : x # j => keys'[x] = keys[x]
        BY <1>4, <2>1 DEF DropKey, Safe, TypeOK, TablesOK
    <2>4. k # j => \A q \in Procs : Holds(q, k) => Holds(q, k)'
        BY <2>1, <2>2 DEF Holds, OnlyOf
    <2>5. QED
        BY <1>1, <2>3, <2>4 DEF NoGhost, Ghost
<1>5. QED
    BY <1>2, <1>3, <1>4

\* The Save of a user writes no key that is there.
LEMMA SaveUserGhost ==
    ASSUME Safe, NEW k \in Keys, NEW p \in Procs, NEW e \in Expiries, SaveUser(p, e)
    PROVE  NoGhost(k)
<1>1. live' = live /\ pc[p] = "usave"
    BY DEF SaveUser, outline
<1>2. keys'[k] = IF keys[k] = None THEN snap[p][k] ELSE keys[k]
    BY DEF SaveUser, Reinsert, Safe, TypeOK, TablesOK
<1>3. OnlyOf(p)
    <2>1. CASE Return(p)
        BY <2>1, LeaveOnlyOf DEF Safe
    <2>2. CASE ~Return(p)
        BY <2>2 DEF SaveUser, Goto, OnlyOf, Safe, TypeOK, ProcsOK
    <2>3. QED
        BY <2>1, <2>2
<1>4. \A q \in Procs : Holds(q, k) => Holds(q, k)'
    BY <1>1, <1>3 DEF Holds, OnlyOf
<1>5. QED
    BY <1>1, <1>2, <1>4 DEF NoGhost, Ghost, Reinserted

\* An ACTIVE row whose credential is gone, on which every later Revoke, Delete
\* and sweep fails, comes from a failure or from the Save of a user that
\* inserts a deleted key again, never from requests and sweeps that interleave.
THEOREM GhostsAlwaysHaveCause == Spec => GhostsHaveCause
<1>1. ASSUME Safe, KeysHaveServers, [Next]_vars, NEW k \in Keys PROVE NoGhost(k)
    <2>1. ASSUME NEW p \in Procs, KeySteps(p) PROVE NoGhost(k)
        <3>1. CASE \E j \in Keys : RevokeReplyLost(p, j)
            BY <1>1, <3>1, FaultCause DEF RevokeReplyLost
        <3>2. CASE \E r \in Refs : PostReplyLost(p, r)
            BY <1>1, <3>2, FaultCause DEF PostReplyLost
        <3>3. QED
            BY <1>1, <2>1, <3>1, <3>2, FreeKeySteps, KeepHold, RevokeAcceptedGhost, CleanupGhost,
               RecordGhost DEF KeySteps
    <2>2. ASSUME NEW p \in Procs, UserSteps(p) \/ ServerSteps(p) PROVE NoGhost(k)
        BY <1>1, <2>2, FreeUserSteps, SaveUserGhost
    <2>3. ASSUME NEW p \in Procs, Fail(p) \/ Crash(p) PROVE NoGhost(k)
        BY <1>1, <2>3, FaultCause DEF Fail, Crash
    <2>4. CASE \/ \E u \in Users, e \in Expiries : CreateUser(u, e)
               \/ \E d \in Devices : DeleteDevice(d)
               \/ \E s \in Servers : CreateServer(s) \/ DeleteServer(s)
               \/ Tick \/ UNCHANGED vars
        <3>1. keys' = keys /\ live' = live /\ pc' = pc /\ cur' = cur /\ snap' = snap
            BY <2>4 DEF CreateUser, DeleteDevice, CreateServer, DeleteServer, Tick, db, outline,
                        proc, vars
        <3>2. \A q \in Procs : Holds(q, k) => Holds(q, k)'
            BY <3>1 DEF Holds
        <3>3. QED
            BY <3>1, <3>2, NoGhostAppears
    <2>5. QED
        BY <1>1, <2>1, <2>2, <2>3, <2>4 DEF Next
<1>2. Safe /\ KeysHaveServers /\ [Next]_vars =>
        \A k \in Keys : ~Ghost(k) /\ Ghost(k)' =>
          \/ faults' > faults
          \/ keys[k] = None /\ \E p \in Procs : pc[p] = "usave" /\ snap[p][k] # None
    BY <1>1 DEF NoGhost, Reinserted
<1>3. QED
    BY <1>2, SafeAlways, KeysHaveServersAlways, PTL DEF Spec, GhostsHaveCause
=============================================================================
