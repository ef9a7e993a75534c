---------------------------- MODULE UserService ----------------------------
(***************************************************************************)
(* The VPN-user and device operations (internal/services/user_service.go,  *)
(* device_service.go): Update, Disable, Delete and the user half of the    *)
(* expiration sweep, which share the cascade revokeAllAccess.              *)
(***************************************************************************)
EXTENDS AccessKeyService

CreateUser(u, e) ==
    /\ "newuser" \in Ops /\ users[u] = None
    /\ users' = [users EXCEPT ![u] =
                   [status |-> "ACTIVE", expires |-> e, deleted |-> FALSE]]
    /\ UNCHANGED <<keys, devices, minted, fleet, outline, env, proc>>

\* Get loads the user and then, a query each, its keys, their servers and its
\* devices; soft-deleted users are not found.  Delete only uses the fact that
\* the user is there.
GetUser(p, u, o) ==
    /\ Idle(p) /\ o \in Ops /\ users[u] # None /\ ~users[u].deleted
    /\ op'  = [op EXCEPT ![p] = o]
    /\ usr' = [usr EXCEPT ![p] = u]
    /\ IF o = "deluser"
         THEN Goto(p, "list") /\ UNCHANGED urows
         ELSE /\ Goto(p, "prekeys")
              /\ urows' = [urows EXCEPT ![p] = [NoUsers EXCEPT ![u] = users[u]]]
    /\ UNCHANGED <<db, outline, env, snap, todo, cur, new, drows, srows>>

PreloadKeys(p) ==
    /\ pc[p] = "prekeys"
    /\ snap' = [snap EXCEPT ![p] = KeysOf(usr[p])]
    /\ Goto(p, "preservers")
    /\ UNCHANGED <<db, outline, env, op, todo, cur, new, usr, urows, drows, srows>>

\* A server whose keys and then itself were deleted since the keys were read
\* is missing from the user loaded.
PreloadServers(p) ==
    /\ pc[p] = "preservers"
    /\ srows' = [srows EXCEPT ![p] = ServersOf(snap[p])]
    /\ Goto(p, "predevices")
    /\ UNCHANGED <<db, outline, env, op, snap, todo, cur, new, usr, urows, drows>>

PreloadDevices(p) ==
    /\ pc[p] = "predevices"
    /\ drows' = [drows EXCEPT ![p] = DevicesOf(usr[p])]
    /\ Goto(p, "usave")
    /\ UNCHANGED <<db, outline, env, op, snap, todo, cur, new, usr, urows, srows>>

\* Mutant of SavedUser: Disable relies on the cascade alone.
SavedUserUnmarked(p, row, e) ==
    CASE op[p] = "update"  -> [row EXCEPT !.expires = e]
      [] op[p] = "disable" -> row
      [] OTHER             -> [row EXCEPT !.status = "EXPIRED"]

\* The user row as p saves it: what it read with the operation's change.
\* It was not deleted when read, so saving it also undoes a soft delete.
SavedUser(p, row, e) ==
    CASE op[p] = "update"  -> [row EXCEPT !.expires = e]
      [] op[p] = "disable" -> [row EXCEPT !.status = "DISABLED"]
      [] OTHER             -> [row EXCEPT !.status = "EXPIRED"]

\* Every key that the Save of p inserts again finds its server, or brings it.
ServersThere(p) ==
    \A k \in Keys : keys[k] = None /\ snap[p][k] # None =>
        servers[snap[p][k].server] # None \/ srows[p][snap[p][k].server] # None

\* Save, in one transaction, of the user, of the children it was loaded with
\* and of their servers.  Update returns; Disable and the sweep go on to
\* revokeAllAccess.
SaveUser(p, e) ==
    /\ pc[p] = "usave" /\ ServersThere(p)
    /\ users'   = [users EXCEPT ![usr[p]] = SavedUser(p, urows[p][usr[p]], e)]
    /\ keys'    = Reinsert(keys, snap[p])
    /\ devices' = Reinsert(devices, drows[p])
    /\ servers' = Reinsert(servers, srows[p])
    /\ IF op[p] = "update"
         THEN Return(p)
         ELSE /\ Goto(p, "list")
              /\ snap'  = [snap EXCEPT ![p] = NoKeys]
              /\ drows' = [drows EXCEPT ![p] = NoDevices]
              /\ srows' = [srows EXCEPT ![p] = NoServers]
              /\ urows' = [urows EXCEPT ![p][usr[p]] = None]
              /\ UNCHANGED <<op, todo, cur, new, usr>>
    /\ UNCHANGED <<minted, opened, outline, env>>

\* The foreign key rejects a key whose server is gone and was not loaded:
\* the whole Save is rolled back.
SaveUserRejected(p) ==
    /\ pc[p] = "usave" /\ ~ServersThere(p)
    /\ Return(p)
    /\ UNCHANGED <<db, outline, env>>

-----------------------------------------------------------------------------
(* revokeAllAccess.  Its loop over the keys is the revoke and save steps   *)
(* of AccessKeyService.                                                    *)

\* FindByUser loads the keys with their servers.
ListKeys(p) ==
    /\ pc[p] = "list"
    /\ snap'  = [snap EXCEPT ![p] = KeysOf(usr[p])]
    /\ srows' = [srows EXCEPT ![p] = ServersOf(KeysOf(usr[p]))]
    /\ todo' = [todo EXCEPT ![p] =
                  {k \in Keys : /\ keys[k] # None
                                /\ keys[k].user = usr[p]
                                /\ keys[k].status = "ACTIVE"}]
    /\ Goto(p, "revoke")
    /\ UNCHANGED <<db, outline, env, op, cur, new, usr, urows, drows>>

\* Devices of u in the page that List returns: the PageCap newest.
DevicePage(u) ==
    LET Owned == {d \in Devices : DevicesOf(u)[d] # None}
    IN  {d \in Owned : Cardinality({e \in Owned : e > d}) < PageCap}

\* Once no key is left, the page of devices is read; revoked ones are skipped.
ListDevices(p) ==
    /\ pc[p] = "revoke" /\ todo[p] = {}
    /\ op[p] \in {"disable", "deluser", "sweepusers"}
    /\ drows' = [drows EXCEPT ![p] =
                   [d \in Devices |->
                      IF d \in DevicePage(usr[p]) /\ devices[d].status # "REVOKED"
                        THEN devices[d] ELSE None]]
    /\ Goto(p, "dsave")
    /\ UNCHANGED <<db, outline, env, op, snap, todo, cur, new, usr, urows, srows>>

SaveDevice(p, d) ==
    /\ pc[p] = "dsave" /\ drows[p][d] # None
    /\ devices' = [devices EXCEPT ![d] = [drows[p][d] EXCEPT !.status = "REVOKED"]]
    /\ drows'   = [drows EXCEPT ![p][d] = None]
    /\ UNCHANGED <<users, keys, minted, fleet, outline, env,
                   op, pc, snap, todo, cur, new, usr, urows, srows>>

\* revokeAllAccess succeeded: Disable returns, Delete removes the user, the
\* sweep turns to its next user.
CascadeDone(p) ==
    /\ pc[p] = "dsave" /\ drows[p] = NoDevices
    /\ \/ op[p] = "disable" /\ Return(p)
       \/ /\ op[p] = "deluser" /\ Goto(p, "udelete")
          /\ UNCHANGED <<op, snap, todo, cur, new, usr, urows, drows, srows>>
       \/ /\ op[p] = "sweepusers" /\ Goto(p, "nextuser")
          /\ snap'  = [snap EXCEPT ![p] = NoKeys]
          /\ srows' = [srows EXCEPT ![p] = NoServers]
          /\ usr'   = [usr EXCEPT ![p] = None]
          /\ UNCHANGED <<op, todo, cur, new, urows, drows>>
    /\ UNCHANGED <<db, outline, env>>

DeleteUser(p) ==
    /\ pc[p] = "udelete"
    /\ users' = [users EXCEPT ![usr[p]].deleted = TRUE]
    /\ Return(p)
    /\ UNCHANGED <<keys, devices, minted, fleet, outline, env>>

-----------------------------------------------------------------------------
(* SweepExpired: the first half of a tick of the expiration sweep.         *)

ExpiredUsers == {u \in Users : /\ users[u] # None
                               /\ users[u].status = "ACTIVE"
                               /\ ~users[u].deleted
                               /\ Passed(users[u].expires)}

FindExpiredUsers(p) ==
    /\ p = Sweeper /\ pc[p] = "idle" /\ "sweep" \in Ops
    /\ op'    = [op EXCEPT ![p] = "sweepusers"]
    /\ urows' = [urows EXCEPT ![p] =
                   [u \in Users |-> IF u \in ExpiredUsers THEN users[u] ELSE None]]
    /\ Goto(p, "nextuser")
    /\ UNCHANGED <<db, outline, env, snap, todo, cur, new, usr, drows, srows>>

NextUser(p, u) ==
    /\ pc[p] = "nextuser" /\ urows[p][u] # None
    /\ usr' = [usr EXCEPT ![p] = u]
    /\ Goto(p, "usave")
    /\ UNCHANGED <<db, outline, env, op, snap, todo, cur, new, urows, drows, srows>>

UserSweepDone(p) ==
    /\ pc[p] = "nextuser" /\ urows[p] = NoUsers
    /\ Return(p)
    /\ UNCHANGED <<db, outline, env>>

-----------------------------------------------------------------------------
(* Devices: PATCH reads the row and saves it whole, DELETE removes it.     *)

GetDevice(p, d, o) ==
    /\ Idle(p) /\ o \in Ops /\ devices[d] # None
    /\ op'    = [op EXCEPT ![p] = o]
    /\ drows' = [drows EXCEPT ![p] = [NoDevices EXCEPT ![d] = devices[d]]]
    /\ Goto(p, "dput")
    /\ UNCHANGED <<db, outline, env, snap, todo, cur, new, usr, urows, srows>>

\* A request that only renames saves the status it read.
PutDevice(p, d, s) ==
    /\ pc[p] = "dput" /\ drows[p][d] # None
    /\ op[p] = "rename" => s = drows[p][d].status
    /\ devices' = [devices EXCEPT ![d] = [drows[p][d] EXCEPT !.status = s]]
    /\ Return(p)
    /\ UNCHANGED <<users, keys, minted, fleet, outline, env>>

DeleteDevice(d) ==
    /\ "deldev" \in Ops /\ devices[d] # None
    /\ devices' = [devices EXCEPT ![d] = None]
    /\ UNCHANGED <<users, keys, minted, fleet, outline, env, proc>>

UserSteps(p) ==
    \/ \E u \in Users, o \in UserOps : GetUser(p, u, o)
    \/ PreloadKeys(p)
    \/ PreloadServers(p)
    \/ PreloadDevices(p)
    \/ \E e \in Expiries : SaveUser(p, e)
    \/ SaveUserRejected(p)
    \/ ListKeys(p)
    \/ ListDevices(p)
    \/ \E d \in Devices : SaveDevice(p, d)
    \/ CascadeDone(p)
    \/ DeleteUser(p)
    \/ FindExpiredUsers(p)
    \/ \E u \in Users : NextUser(p, u)
    \/ UserSweepDone(p)
    \/ \E d \in Devices, o \in DeviceOps : GetDevice(p, d, o)
    \/ \E d \in Devices, s \in DevStatus : PutDevice(p, d, s)
=============================================================================
