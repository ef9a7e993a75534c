------------------------------ MODULE Backend ------------------------------
(***************************************************************************)
(* The state the services of the VPN control plane share: four PostgreSQL  *)
(* tables, the Outline data plane, the clock, and the local variables of   *)
(* every request handler and of the expiration sweep.  Each SQL statement  *)
(* (gorm call) and each HTTP call to Outline is one atomic step; between   *)
(* two of them any other process may run.                                  *)
(***************************************************************************)
EXTENDS Integers, FiniteSets

CONSTANTS
    Users,       \* vpn_users primary keys
    Keys,        \* access_keys primary keys (UUIDs, never minted twice)
    Refs,        \* ids Outline gives to the credentials it creates
    Devices,     \* vpn_devices primary keys; a larger one was created later
    Servers,     \* vpn_servers primary keys
    Handlers,    \* concurrent HTTP requests
    Sweeper,     \* the expiration-sweep goroutine
    None,        \* nil, NULL, no row
    Expiries,    \* values of expires_at that requests choose from
    PatchStates, \* values of status that PATCHes of a server choose from
    Ops,         \* the operations clients request
    PageCap,     \* the page-size cap of Pagination.normalize (200)
    MaxTime,     \* bound on the clock
    MaxFaults    \* bound on injected failures

Procs == Handlers \cup {Sweeper}

Times == Nat \cup {None}

KeyStatus  == {"ACTIVE", "REVOKED", "EXPIRED"}
UserStatus == {"ACTIVE", "DISABLED", "EXPIRED"}
DevStatus  == {"ACTIVE", "DISABLED", "REVOKED"}
ServerStatus == {"ONLINE", "OFFLINE", "DEGRADED", "MAINTENANCE"}

\* A row of access_keys: owner, server, secret_reference, status, expires_at.
KeyRow == [user : Users, server : Servers, ref : Refs, status : KeyStatus, expires : Times]

\* A row of vpn_users; a soft-deleted row stays in the table.
UserRow == [status : UserStatus, expires : Times, deleted : BOOLEAN]

DevRow == [user : Users, status : DevStatus]

\* A row of vpn_servers; a PATCH changes its status or other columns.
SrvRow == [status : ServerStatus]

ASSUME NoneAssumption ==
    None \notin Users \cup Keys \cup Refs \cup Servers \cup Nat
                 \cup KeyRow \cup UserRow \cup DevRow \cup SrvRow

ASSUME FiniteAssumption == IsFiniteSet(Refs)

ASSUME ProcAssumption == Sweeper \notin Handlers

ASSUME ExpiryAssumption == Expiries \subseteq Times

ASSUME PatchAssumption == PatchStates \subseteq ServerStatus

ASSUME BoundAssumption ==
    Devices \subseteq Nat /\ PageCap \in Nat /\ MaxTime \in Nat /\ MaxFaults \in Nat

VARIABLES
    users,     \* vpn_users
    keys,      \* access_keys
    devices,   \* vpn_devices
    servers,   \* vpn_servers
    opened,    \* UUIDs ever given to a server
    minted,    \* UUIDs ever given to an access key
    live,      \* credentials Outline accepts
    now,       \* the database's now()
    faults,    \* failures injected so far
    op,        \* the operation a process runs
    pc,        \* the call it makes next
    snap,      \* the access_keys rows it has read
    todo,      \* those whose credential it still has to revoke
    cur,       \* the access key it is working on
    new,       \* the credential it has provisioned and not yet recorded
    usr,       \* the VPN user it is working on
    urows,     \* the vpn_users rows it has read
    drows,     \* the vpn_devices rows it has read
    srows      \* the vpn_servers rows it has read

fleet   == <<servers, opened>>
db      == <<users, keys, devices, minted, fleet>>
outline == live
env     == <<now, faults>>
proc    == <<op, pc, snap, todo, cur, new, usr, urows, drows, srows>>
vars    == <<users, keys, devices, minted, servers, opened, live, now, faults,
             op, pc, snap, todo, cur, new, usr, urows, drows, srows>>

NoKeys    == [k \in Keys |-> None]
NoUsers   == [u \in Users |-> None]
NoDevices == [d \in Devices |-> None]
NoServers == [s \in Servers |-> None]

Labels == {"idle", "revoke", "post", "label", "insert", "cleanup", "save", "drop",
           "usave", "list", "dsave", "udelete", "nextuser", "sweepkeys", "dput",
           "prekeys", "preservers", "predevices", "sput"}

KeyOps    == {"revoke", "rotate", "delete"}
UserOps   == {"update", "disable", "deluser"}
DeviceOps == {"rename", "setstatus"}
ServerOps == {"renameserver", "setserver"}
AllOps    == KeyOps \cup UserOps \cup DeviceOps \cup ServerOps \cup
             {"none", "create", "sweepusers", "sweepkeys"}

TablesOK ==
    /\ users   \in [Users -> UserRow \cup {None}]
    /\ keys    \in [Keys -> KeyRow \cup {None}]
    /\ devices \in [Devices -> DevRow \cup {None}]
    /\ servers \in [Servers -> SrvRow \cup {None}]
    /\ opened \subseteq Servers
    /\ minted \subseteq Keys
    /\ live   \subseteq Refs
    /\ now \in Nat
    /\ faults \in Nat

ProcsOK ==
    /\ op    \in [Procs -> AllOps]
    /\ pc    \in [Procs -> Labels]
    /\ snap  \in [Procs -> [Keys -> KeyRow \cup {None}]]
    /\ todo  \in [Procs -> SUBSET Keys]
    /\ cur   \in [Procs -> Keys \cup {None}]
    /\ new   \in [Procs -> Refs \cup {None}]
    /\ usr   \in [Procs -> Users \cup {None}]
    /\ urows \in [Procs -> [Users -> UserRow \cup {None}]]
    /\ drows \in [Procs -> [Devices -> DevRow \cup {None}]]
    /\ srows \in [Procs -> [Servers -> SrvRow \cup {None}]]

\* Every table, the data plane and the local variables of every process hold
\* values of their shape: in particular no Save writes a row that was not
\* read and no credential is recorded that was not provisioned.
TypeOK == TablesOK /\ ProcsOK

-----------------------------------------------------------------------------
(* Steps of a process.                                                     *)

\* Process p leaves the function it is in, dropping its local variables.
Leave(p, label) ==
    /\ op'    = [op EXCEPT ![p] = "none"]
    /\ pc'    = [pc EXCEPT ![p] = label]
    /\ snap'  = [snap EXCEPT ![p] = NoKeys]
    /\ todo'  = [todo EXCEPT ![p] = {}]
    /\ cur'   = [cur EXCEPT ![p] = None]
    /\ new'   = [new EXCEPT ![p] = None]
    /\ usr'   = [usr EXCEPT ![p] = None]
    /\ urows' = [urows EXCEPT ![p] = NoUsers]
    /\ drows' = [drows EXCEPT ![p] = NoDevices]
    /\ srows' = [srows EXCEPT ![p] = NoServers]

\* A service function returns, with or without an error.  The sweep goes on
\* to the access keys when the user sweep returns, whatever it returned.
Return(p) == Leave(p, IF op[p] = "sweepusers" THEN "sweepkeys" ELSE "idle")

Goto(p, label) == pc' = [pc EXCEPT ![p] = label]

\* One of the MaxFaults failures of this behaviour happens.
Fault == faults < MaxFaults /\ faults' = faults + 1 /\ UNCHANGED now

\* Time has passed the moment e (expires_at IS NOT NULL AND expires_at < now()).
Passed(e) == e # None /\ e < now

KeysOf(u) ==
    [k \in Keys |-> IF keys[k] # None /\ keys[k].user = u THEN keys[k] ELSE None]

DevicesOf(u) ==
    [d \in Devices |->
        IF devices[d] # None /\ devices[d].user = u THEN devices[d] ELSE None]

\* The servers of the keys in rows.
ServersOf(rows) ==
    [s \in Servers |-> IF \E k \in Keys : rows[k] # None /\ rows[k].server = s
                        THEN servers[s] ELSE None]

\* Some copy of row k, in the table or in a process, names credential r.
Names(k, r) ==
    \/ keys[k] # None /\ keys[k].ref = r
    \/ \E p \in Procs : snap[p][k] # None /\ snap[p][k].ref = r

\* Ids that Outline may give to a new credential.  Outline never gives one
\* twice; here one that nobody knows any more stands for a fresh one, so that
\* requests may go on for ever.
Fresh == {r \in Refs \ live : \A k \in Keys : ~Names(k, r)}

\* Mutant of Reinsert: existing children are overwritten too.
Overwrite(table, rows) ==
    [x \in DOMAIN table |-> IF rows[x] # None THEN rows[x] ELSE table[x]]

\* gorm's Save of a row with preloaded children: a child that has vanished
\* since it was read is inserted again, one that is still there keeps its columns.
Reinsert(table, rows) ==
    [x \in DOMAIN table |-> IF table[x] = None THEN rows[x] ELSE table[x]]
=============================================================================
