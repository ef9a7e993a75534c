--------------------------- MODULE ServerService ---------------------------
(***************************************************************************)
(* The VPN servers of the catalogue (internal/services/server_service.go): *)
(* Create, Update and Delete.  Like the other tables, vpn_servers is       *)
(* written with whole-row Saves of rows read earlier; access_keys refers   *)
(* to it with ON DELETE RESTRICT.                                          *)
(***************************************************************************)
EXTENDS AccessKeyService

CreateServer(s) ==
    /\ "newserver" \in Ops /\ s \notin opened
    /\ servers' = [servers EXCEPT ![s] = [status |-> "ONLINE"]]
    /\ opened'  = opened \cup {s}
    /\ UNCHANGED <<users, keys, devices, minted, outline, env, proc>>

\* Update reads the row.
GetServer(p, s, o) ==
    /\ Idle(p) /\ o \in Ops /\ servers[s] # None
    /\ op'    = [op EXCEPT ![p] = o]
    /\ srows' = [srows EXCEPT ![p] = [NoServers EXCEPT ![s] = servers[s]]]
    /\ Goto(p, "sput")
    /\ UNCHANGED <<db, outline, env, snap, todo, cur, new, usr, urows, drows>>

\* Update saves the whole row, inserting it if it is no longer there.  A
\* request without a status saves the one it read.
PutServer(p, s, t) ==
    /\ pc[p] = "sput" /\ srows[p][s] # None
    /\ IF op[p] = "setserver" THEN t \in PatchStates ELSE t = srows[p][s].status
    /\ servers' = [servers EXCEPT ![s] = [srows[p][s] EXCEPT !.status = t]]
    /\ Return(p)
    /\ UNCHANGED <<users, keys, devices, minted, opened, outline, env>>

\* Delete fails on the foreign key while access keys refer to the server.
DeleteServer(s) ==
    /\ "delserver" \in Ops /\ servers[s] # None
    /\ \A k \in Keys : keys[k] # None => keys[k].server # s
    /\ servers' = [servers EXCEPT ![s] = None]
    /\ UNCHANGED <<users, keys, devices, minted, opened, outline, env, proc>>

ServerSteps(p) ==
    \/ \E s \in Servers, o \in ServerOps : GetServer(p, s, o)
    \/ \E s \in Servers, t \in ServerStatus : PutServer(p, s, t)
=============================================================================
