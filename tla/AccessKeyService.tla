-------------------------- MODULE AccessKeyService --------------------------
(***************************************************************************)
(* The access-key operations (internal/services/access_key_service.go) on  *)
(* top of the Outline client (internal/vpn/outline_provider.go).  The      *)
(* label a process waits at names the call it makes next.  A call that     *)
(* fails without effect returns an error up to the request: that is Fail   *)
(* in module ControlPlane.  A call that Outline applied but whose reply is *)
(* lost is an action here.                                                 *)
(***************************************************************************)
EXTENDS Backend

Idle(p) == p \in Handlers /\ pc[p] = "idle"

\* Bounds of the pools: no request starts that could not draw a fresh
\* credential, and for Create a fresh UUID, when it gets there.
RefsSuffice ==
    Cardinality({p \in Procs : op[p] \in {"create", "rotate"} /\ new[p] = None})
      < Cardinality(Fresh)

KeysSuffice ==
    Cardinality({p \in Procs : op[p] = "create"}) < Cardinality(Keys \ minted)

\* Create reads the server, whatever its status; nothing is asked about the
\* user.
CreateKey(p, u, s) ==
    /\ Idle(p) /\ "create" \in Ops /\ RefsSuffice /\ KeysSuffice
    /\ servers[s] # None
    /\ op'    = [op EXCEPT ![p] = "create"]
    /\ usr'   = [usr EXCEPT ![p] = u]
    /\ srows' = [srows EXCEPT ![p] = [NoServers EXCEPT ![s] = servers[s]]]
    /\ Goto(p, "post")
    /\ UNCHANGED <<db, outline, env, snap, todo, cur, new, urows, drows>>

\* Mutant of GetKey: Revoke marks the row without calling Outline.
GetKeyUnprovisioned(p, k, o) ==
    /\ Idle(p) /\ o \in Ops /\ keys[k] # None
    /\ o = "rotate" => RefsSuffice
    /\ op'   = [op EXCEPT ![p] = o]
    /\ snap' = [snap EXCEPT ![p] = [NoKeys EXCEPT ![k] = keys[k]]]
    /\ IF o = "rotate"
         THEN todo' = [todo EXCEPT ![p] = {k}] /\ Goto(p, "revoke") /\ UNCHANGED cur
         ELSE /\ cur' = [cur EXCEPT ![p] = k]
              /\ Goto(p, IF o = "delete" THEN "drop" ELSE "save")
              /\ UNCHANGED todo
    /\ srows' = [srows EXCEPT ![p] = ServersOf(snap'[p])]
    /\ UNCHANGED <<db, outline, env, new, usr, urows, drows>>

\* Revoke, Rotate and Delete first read the row with its server.  Delete
\* leaves the data plane alone unless the row it read is ACTIVE.
GetKey(p, k, o) ==
    /\ Idle(p) /\ o \in Ops /\ keys[k] # None
    /\ o = "rotate" => RefsSuffice
    /\ op'   = [op EXCEPT ![p] = o]
    /\ snap' = [snap EXCEPT ![p] = [NoKeys EXCEPT ![k] = keys[k]]]
    /\ IF o = "delete" /\ keys[k].status # "ACTIVE"
         THEN /\ cur' = [cur EXCEPT ![p] = k]
              /\ Goto(p, "drop")
              /\ UNCHANGED todo
         ELSE /\ todo' = [todo EXCEPT ![p] = {k}]
              /\ Goto(p, "revoke")
              /\ UNCHANGED cur
    /\ srows' = [srows EXCEPT ![p] = ServersOf(snap'[p])]
    /\ UNCHANGED <<db, outline, env, new, usr, urows, drows>>

-----------------------------------------------------------------------------
(* DELETE /access-keys/{id} of the credential that the row p read names.   *)

\* What follows a successful DELETE: Rotate provisions, Delete drops the
\* row, every other caller saves it with its new status.
AfterRevoke(o) ==
    CASE o = "rotate" -> "post" [] o = "delete" -> "drop" [] OTHER -> "save"

\* Mutant of RevokeAccepted: a 404 counts as success.
RevokeIdempotent(p, k) ==
    /\ pc[p] = "revoke" /\ k \in todo[p]
    /\ live' = live \ {snap[p][k].ref}
    /\ cur'  = [cur EXCEPT ![p] = k]
    /\ todo' = [todo EXCEPT ![p] = @ \ {k}]
    /\ Goto(p, AfterRevoke(op[p]))
    /\ UNCHANGED <<db, env, op, snap, new, usr, urows, drows, srows>>

\* 2xx: the credential was there and is gone.
RevokeAccepted(p, k) ==
    /\ pc[p] = "revoke" /\ k \in todo[p]
    /\ snap[p][k].ref \in live
    /\ live' = live \ {snap[p][k].ref}
    /\ cur'  = [cur EXCEPT ![p] = k]
    /\ todo' = [todo EXCEPT ![p] = @ \ {k}]
    /\ Goto(p, AfterRevoke(op[p]))
    /\ UNCHANGED <<db, env, op, snap, new, usr, urows, drows, srows>>

\* Mutant of RevokeNotFound: the loop skips the key and goes on.
RevokeSkips(p, k) ==
    /\ pc[p] = "revoke" /\ k \in todo[p]
    /\ snap[p][k].ref \notin live
    /\ todo' = [todo EXCEPT ![p] = @ \ {k}]
    /\ UNCHANGED <<db, outline, env, op, pc, snap, cur, new, usr, urows, drows, srows>>

\* 404: Outline does not know the id, and doJSON makes that an error that
\* ends the operation, a cascade or a sweep over several keys included.
RevokeNotFound(p, k) ==
    /\ pc[p] = "revoke" /\ k \in todo[p]
    /\ snap[p][k].ref \notin live
    /\ Return(p)
    /\ UNCHANGED <<db, outline, env>>

\* Outline deletes the credential and the reply is lost (timeout, cancelled
\* request): an error for the caller, which returns without saving.
RevokeReplyLost(p, k) ==
    /\ pc[p] = "revoke" /\ k \in todo[p]
    /\ Fault
    /\ live' = live \ {snap[p][k].ref}
    /\ Return(p)
    /\ UNCHANGED db

-----------------------------------------------------------------------------
(* POST /access-keys, then the rename and data-limit calls, encryption of  *)
(* the secret and the WebSocket paths.  A failure after the POST returns   *)
(* without deleting the credential just created.                           *)

PostAccepted(p, r) ==
    /\ pc[p] = "post" /\ r \in Fresh
    /\ live'   = live \cup {r}
    /\ new'    = [new EXCEPT ![p] = r]
    /\ Goto(p, "label")
    /\ UNCHANGED <<db, env, op, snap, todo, cur, usr, urows, drows, srows>>

\* Mutant of PostReplyLost: the error of the POST is not checked.
PostErrorIgnored(p, r) ==
    /\ pc[p] = "post" /\ r \in Fresh
    /\ Fault
    /\ live'   = live \cup {r}
    /\ Goto(p, "label")
    /\ UNCHANGED <<db, op, snap, todo, cur, new, usr, urows, drows, srows>>

PostReplyLost(p, r) ==
    /\ pc[p] = "post" /\ r \in Fresh
    /\ Fault
    /\ live'   = live \cup {r}
    /\ Return(p)
    /\ UNCHANGED db

LabelKey(p) ==
    /\ pc[p] = "label"
    /\ Goto(p, IF op[p] = "create" THEN "insert" ELSE "save")
    /\ UNCHANGED <<db, outline, env, op, snap, todo, cur, new, usr, urows, drows, srows>>

-----------------------------------------------------------------------------
(* The database writes.                                                    *)

\* INSERT of the new row.  The foreign keys want the server to be there
\* still, and accept any row of vpn_users, of whatever status, soft-deleted
\* ones too.
InsertKey(p, k, s, e) ==
    /\ pc[p] = "insert" /\ k \notin minted /\ users[usr[p]] # None
    /\ srows[p][s] # None /\ servers[s] # None
    /\ keys'   = [keys EXCEPT ![k] = [user |-> usr[p], server |-> s, ref |-> new[p],
                                      status |-> "ACTIVE", expires |-> e]]
    /\ minted' = minted \cup {k}
    /\ Return(p)
    /\ UNCHANGED <<users, devices, fleet, outline, env>>

\* The INSERT fails, on a foreign key (no such user, or the server deleted
\* meanwhile) or for another reason; Create then tries to delete the
\* credential again.
InsertRejected(p) ==
    /\ pc[p] = "insert"
    /\ IF users[usr[p]] = None \/ \E s \in Servers : srows[p][s] # None /\ servers[s] = None
         THEN UNCHANGED env ELSE Fault
    /\ Goto(p, "cleanup")
    /\ UNCHANGED <<db, outline, op, snap, todo, cur, new, usr, urows, drows, srows>>

\* Best-effort cleanup whose result is ignored.
Cleanup(p) ==
    /\ pc[p] = "cleanup"
    /\ live' = live \ {new[p]}
    /\ Return(p)
    /\ UNCHANGED <<db, env>>

\* Mutant of SavedRow: Rotate keeps the old secret reference.
SavedRowKeepsRef(p, row) ==
    [row EXCEPT !.status = IF op[p] = "rotate" THEN "ACTIVE"
                           ELSE IF op[p] = "sweepkeys" THEN "EXPIRED" ELSE "REVOKED"]

\* The row as p saves it: what it read, with a new status and, for Rotate,
\* the new credential.
SavedRow(p, row) ==
    CASE op[p] = "rotate"    -> [row EXCEPT !.ref = new[p], !.status = "ACTIVE"]
      [] op[p] = "sweepkeys" -> [row EXCEPT !.status = "EXPIRED"]
      [] OTHER               -> [row EXCEPT !.status = "REVOKED"]

\* The server of the key that p saves is there, or comes with the Save.
ServerThere(p) ==
    LET s == snap[p][cur[p]].server
    IN  servers[s] # None \/ srows[p][s] # None

\* Save writes the whole row, inserting it if it is no longer there; and before
\* that the key's server, if it was loaded with the key and has vanished (the
\* sweep loads none).  Revoke and Rotate return; a cascade or a sweep turns to
\* its next key, unless the foreign key has rejected the row.
SaveKey(p) ==
    /\ pc[p] = "save"
    /\ IF ServerThere(p)
         THEN /\ keys' = [keys EXCEPT ![cur[p]] = SavedRow(p, snap[p][cur[p]])]
              /\ servers' = [servers EXCEPT ![snap[p][cur[p]].server] =
                                IF @ = None THEN srows[p][snap[p][cur[p]].server] ELSE @]
         ELSE UNCHANGED <<keys, servers>>
    /\ IF op[p] \in {"revoke", "rotate"} \/ ~ServerThere(p)
         THEN Return(p)
         ELSE /\ cur' = [cur EXCEPT ![p] = None]
              /\ Goto(p, "revoke")
              /\ UNCHANGED <<op, snap, todo, new, usr, urows, drows, srows>>
    /\ UNCHANGED <<users, devices, minted, opened, outline, env>>

DropKey(p) ==
    /\ pc[p] = "drop"
    /\ keys' = [keys EXCEPT ![cur[p]] = None]
    /\ Return(p)
    /\ UNCHANGED <<users, devices, minted, fleet, outline, env>>

-----------------------------------------------------------------------------
(* SweepExpired: the second half of a tick of the expiration sweep.        *)

\* Mutant of ExpiredKeys: keys that have ended are selected again.
ExpiredKeysAnyStatus == {k \in Keys : keys[k] # None /\ Passed(keys[k].expires)}

ExpiredKeys == {k \in Keys : /\ keys[k] # None
                             /\ keys[k].status = "ACTIVE"
                             /\ Passed(keys[k].expires)}

FindExpiredKeys(p) ==
    /\ pc[p] = "sweepkeys"
    /\ op'   = [op EXCEPT ![p] = "sweepkeys"]
    /\ snap' = [snap EXCEPT ![p] = [k \in Keys |-> IF k \in ExpiredKeys THEN keys[k] ELSE None]]
    /\ todo' = [todo EXCEPT ![p] = ExpiredKeys]
    /\ Goto(p, "revoke")
    /\ UNCHANGED <<db, outline, env, cur, new, usr, urows, drows, srows>>

KeySweepDone(p) ==
    /\ pc[p] = "revoke" /\ todo[p] = {} /\ op[p] = "sweepkeys"
    /\ Return(p)
    /\ UNCHANGED <<db, outline, env>>

KeySteps(p) ==
    \/ \E u \in Users, s \in Servers : CreateKey(p, u, s)
    \/ \E k \in Keys, o \in KeyOps : GetKey(p, k, o)
    \/ \E k \in Keys : RevokeAccepted(p, k)
    \/ \E k \in Keys : RevokeNotFound(p, k)
    \/ \E k \in Keys : RevokeReplyLost(p, k)
    \/ \E r \in Refs : PostAccepted(p, r)
    \/ \E r \in Refs : PostReplyLost(p, r)
    \/ LabelKey(p)
    \/ \E k \in Keys, s \in Servers, e \in Expiries : InsertKey(p, k, s, e)
    \/ InsertRejected(p)
    \/ Cleanup(p)
    \/ SaveKey(p)
    \/ DropKey(p)
    \/ FindExpiredKeys(p)
    \/ KeySweepDone(p)
=============================================================================
