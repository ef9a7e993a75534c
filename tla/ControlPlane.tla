---------------------------- MODULE ControlPlane ----------------------------
(***************************************************************************)
(* The whole control plane: any number of request handlers and the         *)
(* expiration sweep of cmd/server/main.go, interleaved over the shared     *)
(* database and data plane, with calls that fail and processes that die.   *)
(***************************************************************************)
EXTENDS UserService, ServerService

\* The database may hold users, devices and servers; access keys are made by
\* Create.
Init ==
    /\ users \in [Users -> [status : {"ACTIVE"}, expires : Expiries, deleted : {FALSE}]
                           \cup {None}]
    /\ devices \in [Devices -> [user : Users, status : {"ACTIVE"}]]
    /\ servers \in [Servers -> [status : {"ONLINE"}] \cup {None}]
    /\ opened = {s \in Servers : servers[s] # None}
    /\ keys = NoKeys
    /\ minted = {}
    /\ live = {}
    /\ now = 0
    /\ faults = 0
    /\ op    = [p \in Procs |-> "none"]
    /\ pc    = [p \in Procs |-> "idle"]
    /\ snap  = [p \in Procs |-> NoKeys]
    /\ todo  = [p \in Procs |-> {}]
    /\ cur   = [p \in Procs |-> None]
    /\ new   = [p \in Procs |-> None]
    /\ usr   = [p \in Procs |-> None]
    /\ urows = [p \in Procs |-> NoUsers]
    /\ drows = [p \in Procs |-> NoDevices]
    /\ srows = [p \in Procs |-> NoServers]

\* The call p is about to make fails without having any effect: Outline
\* rejects it, the database returns an error, the context is cancelled,
\* encryption or the random source fails.  Every caller returns the error
\* (Create's INSERT, which cleans up first, is InsertRejected).
Fail(p) ==
    /\ pc[p] \notin {"idle", "insert"}
    /\ Fault
    /\ Return(p)
    /\ UNCHANGED <<db, outline>>

\* The process dies where it stands.  A crash of the server is this step
\* for every process in a row; afterwards all start afresh.
Crash(p) ==
    /\ pc[p] # "idle"
    /\ Fault
    /\ Leave(p, "idle")
    /\ UNCHANGED <<db, outline>>

Tick ==
    /\ now < MaxTime
    /\ now' = now + 1
    /\ UNCHANGED <<db, outline, faults, proc>>

Next ==
    \/ \E p \in Procs : KeySteps(p) \/ UserSteps(p) \/ ServerSteps(p) \/ Fail(p) \/ Crash(p)
    \/ \E u \in Users, e \in Expiries : CreateUser(u, e)
    \/ \E d \in Devices : DeleteDevice(d)
    \/ \E s \in Servers : CreateServer(s) \/ DeleteServer(s)
    \/ Tick

Spec == Init /\ [][Next]_vars

-----------------------------------------------------------------------------
(* Fairness.  Goroutines are scheduled, every Outline call ends within the *)
(* client's timeout and the ticker keeps firing; clients owe us nothing.   *)

\* A step by which p goes on with what it is doing.
Proceed(p) == pc[p] # "idle" /\ (KeySteps(p) \/ UserSteps(p) \/ ServerSteps(p))

Fairness ==
    /\ \A p \in Procs : WF_vars(Proceed(p))
    /\ WF_vars(FindExpiredUsers(Sweeper))
    /\ WF_vars(Tick)

FairSpec == Spec /\ Fairness

-----------------------------------------------------------------------------
(* Properties.                                                             *)

\* The credential that the row of k names works.
LiveKey(k) == keys[k] # None /\ keys[k].ref \in live

\* Revoke, cascades and sweeps write REVOKED or EXPIRED only over a
\* credential that is gone from the data plane, and no concurrent Rotate,
\* failed Save or late reply ever brings one back under such a row.
RevokedIsDead ==
    \A k \in Keys : LiveKey(k) => keys[k].status = "ACTIVE"

\* p has deleted the credential named by the row of k it read, and has yet
\* to write the outcome to the database.
Holds(p, k) ==
    /\ cur[p] = k
    /\ pc[p] \in {"post", "label", "save", "drop"}
    /\ snap[p][k].status = "ACTIVE"

\* Save and Delete write a row read several calls earlier, with no lock and
\* no version check.  Still nothing is overwritten unseen: the row is exactly
\* the one that was read, because only one caller's DELETE of a credential
\* succeeds.
NoLostUpdate ==
    \A p \in Procs, k \in Keys : Holds(p, k) => keys[k] = snap[p][k]

\* Credentials that work but that no ACTIVE row and no running request knows.
Lost == {r \in live : /\ \A k \in Keys : keys[k] # None => keys[k].ref # r
                      /\ \A p \in Procs : new[p] # r}

\* Every failure (lost reply, failed call, failed write, crash) leaves at most
\* one working credential behind; races between requests leave none.
LossBoundedByFaults == Cardinality(Lost) <= faults

\* The row of k says ACTIVE, but its credential is gone and nobody is about to
\* write the outcome.  Revoke, Delete, cascades and sweeps that meet such a
\* row end with Outline's 404, each time they are tried.
Ghost(k) ==
    /\ keys[k] # None /\ keys[k].status = "ACTIVE"
    /\ keys[k].ref \notin live
    /\ \A p \in Procs : ~Holds(p, k)

\* Such a row has one of two causes: a failure between the call to Outline and
\* the write to the database, or the Save of a user that inserts a deleted key
\* again.  No interleaving of revocations, rotations and sweeps makes one.
GhostsHaveCause ==
    [][\A k \in Keys : ~Ghost(k) /\ Ghost(k)' =>
          \/ faults' > faults
          \/ keys[k] = None /\ \E p \in Procs : pc[p] = "usave" /\ snap[p][k] # None]_vars

\* While revokeAllAccess handles the devices, all its Outline calls have
\* succeeded: none of the keys it listed works, under whatever credential.
CascadeRevokesListed ==
    \A p \in Procs, k \in Keys :
        pc[p] \in {"dsave", "udelete"} /\ snap[p][k] # None => ~LiveKey(k)

\* k was made, and is now recorded as deleted, revoked or expired.
Ended(k) == k \in minted /\ (keys[k] = None \/ keys[k].status # "ACTIVE")

\* Rotate writes ACTIVE whatever the status was and Save re-creates deleted
\* rows, but a key once revoked, expired or deleted never works again.
RevocationIsFinal == \A k \in Keys : [](Ended(k) => []~LiveKey(k))

\* k was made and can never work again: its credential is gone and no
\* running request has one to give it.
Dead(k) ==
    /\ k \in minted
    /\ ~LiveKey(k)
    /\ \A p \in Procs : ~Holds(p, k)

\* A key recorded as revoked, expired or deleted is dead: no Rotate that read
\* it before holds a new credential for it, and none can get that far.  With
\* ImplementsLifecycle, by which the dead stay dead, revocation is final.
EndedForGood == \A k \in Keys : Ended(k) => Dead(k)

\* The abstract state of each key.
Phase == [k \in Keys |-> IF k \notin minted THEN "new"
                         ELSE IF Dead(k) THEN "ended" ELSE "working"]

Lifecycle == INSTANCE KeyLifecycle WITH phase <- Phase

\* The control plane implements KeyLifecycle: no interleaving of Create,
\* Rotate, Revoke, Delete, cascades and sweeps, and no failure among their
\* calls, makes a key work that has ended, or issues one twice.
ImplementsLifecycle == Lifecycle!Spec

-----------------------------------------------------------------------------
(* What the expiration sweep and Disable owe to users, and cascades to     *)
(* devices.                                                                *)

\* A request deletes a credential at Outline: a Revoke, a Rotate, a Delete or
\* the cascade of one.  A sweep that has listed the key then meets a 404.
RequestEndsCredential == \E p \in Handlers, k \in Keys : RevokeAccepted(p, k)

\* A key whose expiry has passed ends for good, unless requests go on deleting
\* credentials for ever: each time they may make a sweep abort, and Rotate
\* gives the key another credential.  When they have stopped, one of the next
\* sweeps gets through, whatever the requests before it have left behind.
KeyExpiryEnforced ==
    \/ []<><<RequestEndsCredential>>_vars
    \/ \A k \in Keys : (keys[k] # None /\ Passed(keys[k].expires)) ~> Dead(k)

\* A key that works when its owner's expiry has passed and the sweep has not
\* yet marked the owner EXPIRED is cut off sooner or later.
UserExpiryEnforced ==
    \A k \in Keys :
        (LiveKey(k) /\ keys[k].user \in ExpiredUsers) ~> ~LiveKey(k)

Disabling(u) == \E p \in Procs : op[p] = "disable" /\ usr[p] = u

\* A disabled user holds no working key once Disable has returned.
DisabledHasNoKey ==
    \A k \in Keys : LiveKey(k) /\ users[keys[k].user].status = "DISABLED"
                      => Disabling(keys[k].user)

\* Cascades and saves of users write device rows read earlier, but only a
\* PATCH of the device itself takes an existing device out of REVOKED.
OnlyPatchUnrevokes ==
    [][\A d \in Devices :
          /\ devices[d] # None /\ devices[d].status = "REVOKED"
          /\ devices'[d] # None /\ devices'[d].status # "REVOKED"
          => \E p \in Procs : pc[p] = "dput" /\ drows[p][d] # None]_vars

\* u can use the service, as far as the table vpn_users says.
Usable(u) == users[u] # None /\ users[u].status = "ACTIVE" /\ ~users[u].deleted

\* Users are saved whole, too, from rows read earlier.  One who was disabled,
\* has expired or was deleted is usable again in one way only: by an Update
\* that read the row when it said ACTIVE and saves it now.  Disable and the
\* sweep may bring the row of a deleted user back, but not an ACTIVE one.
OnlyUpdateRevives ==
    [][\A u \in Users : users[u] # None /\ ~Usable(u) /\ Usable(u)' =>
          \E p \in Procs : /\ op[p] = "update" /\ pc[p] = "usave" /\ usr[p] = u
                            /\ urows[p][u].status = "ACTIVE"]_vars

-----------------------------------------------------------------------------
(* Deleted rows that come back, and servers.                               *)

\* Every Save inserts the row it does not find, and the rows loaded with it.
\* Still a deleted access key comes back only with its owner, and a deleted
\* server only with an owner of its keys or by its own PATCH.  Revoke, Rotate,
\* cascades and sweeps bring back neither: while a caller is about to save a
\* key, no Delete of it gets through, and the row keeps the server in place.
OnlyUserSaveReinserts ==
    [][/\ \A k \in minted : keys[k] = None /\ keys'[k] # None =>
             \E p \in Procs : pc[p] = "usave" /\ snap[p][k] # None
       /\ \A s \in opened : servers[s] = None /\ servers'[s] # None =>
             \E p \in Procs : pc[p] \in {"usave", "sput"} /\ srows[p][s] # None]_vars

\* Users are saved with the servers of their keys as they were when read, but
\* a server that is still there changes only by the Save of its own PATCH.
OnlyPatchChangesServer ==
    [][\A s \in Servers :
          /\ servers[s] # None /\ servers'[s] # None /\ servers'[s] # servers[s]
          => \E p \in Procs : pc[p] = "sput" /\ srows[p][s] # None]_vars

-----------------------------------------------------------------------------
(* The inductive invariant behind these properties.                        *)

CascadeOps == {"disable", "deluser", "sweepusers"}

\* p has provisioned a credential and not yet recorded it.
Provisioned(p) ==
    \/ pc[p] \in {"label", "insert", "cleanup"}
    \/ pc[p] = "save" /\ op[p] = "rotate"

\* The local variables of p agree with the place it is at.
ControlAt(p) ==
    /\ pc[p] \in {"idle", "sweepkeys"} =>
         op[p] = "none" /\ cur[p] = None /\ todo[p] = {} /\ usr[p] = None
    /\ pc[p] \in {"save", "drop"} => cur[p] # None
    /\ pc[p] \in {"post", "label"} => \/ op[p] = "create"
                                      \/ op[p] = "rotate" /\ cur[p] # None
    /\ pc[p] = "insert" => op[p] = "create"
    /\ cur[p] # None => snap[p][cur[p]] # None
    /\ \A k \in todo[p] : snap[p][k] # None
    /\ new[p] # None <=> Provisioned(p)
    /\ op[p] = "create" => usr[p] # None /\ cur[p] = None /\ todo[p] = {}
    /\ pc[p] \in {"revoke", "prekeys", "preservers", "predevices", "usave", "list", "dsave",
                  "udelete", "nextuser"} =>
         op[p] # "create" /\ cur[p] = None
    /\ pc[p] \in {"prekeys", "preservers", "predevices", "usave", "list", "dsave", "udelete",
                  "nextuser"} => todo[p] = {}
    /\ pc[p] \in {"dsave", "udelete"} => op[p] \in CascadeOps
    /\ op[p] # "create" /\ usr[p] # None => users[usr[p]] # None
    /\ pc[p] \in {"prekeys", "preservers", "predevices", "usave", "list", "dsave", "udelete"} =>
         usr[p] # None
    /\ op[p] \in CascadeOps /\ pc[p] \in {"revoke", "save"} => usr[p] # None
    /\ pc[p] \in {"prekeys", "preservers", "predevices", "usave"} => urows[p][usr[p]] # None
    /\ \A u \in Users : urows[p][u] # None => users[u] # None

Control == \A p \in Procs : ControlAt(p)

\* A credential belongs to one key, or to the one request that made it.
Ownership ==
    /\ \A k \in Keys, r \in Refs : Names(k, r) => k \in minted
    /\ \A j, k \in Keys, r \in Refs : Names(j, r) /\ Names(k, r) => j = k
    /\ \A p \in Procs : new[p] # None => new[p] \in live
    /\ \A p \in Procs, k \in Keys : new[p] # None => ~Names(k, new[p])
    /\ \A p, q \in Procs : new[p] # None /\ new[p] = new[q] => p = q

\* A copy that names a working credential is the current row.
FreshCopies ==
    \A p \in Procs, k \in Keys :
        snap[p][k] # None /\ snap[p][k].ref \in live => keys[k] = snap[p][k]

\* Whoever is about to write the outcome of a DELETE holds the key.
WritersHold ==
    \A p \in Procs :
        pc[p] \in {"post", "label", "save"} /\ cur[p] # None => Holds(p, cur[p])

\* At most one request holds a key, and the credential it read is gone.
HoldIsExclusive ==
    /\ \A p, q \in Procs, k \in Keys : Holds(p, k) /\ Holds(q, k) => p = q
    /\ \A p \in Procs, k \in Keys : Holds(p, k) => snap[p][k].ref \notin live

\* The cascade of p is done with k.
Settled(p, k) ==
    /\ op[p] \in CascadeOps
    /\ pc[p] \in {"revoke", "save", "dsave", "udelete"}
    /\ k \notin todo[p] /\ k # cur[p]

\* A key that some process has read as ended, and a listed key that a cascade
\* is done with, are dead.
EndedStaysDead ==
    \A p \in Procs, k \in Keys :
        snap[p][k] # None /\ (snap[p][k].status # "ACTIVE" \/ Settled(p, k)) => Dead(k)

\* What a cascade has done to a key is final: one that it listed and went past
\* never works again, though a Rotate that read the key before may still be
\* running, and though the cascade itself may fail later on.
CascadeIsFinal ==
    \A p \in Procs, k \in Keys : [](snap[p][k] # None /\ Settled(p, k) => []~LiveKey(k))

KeysSafe ==
    /\ Ownership
    /\ RevokedIsDead
    /\ FreshCopies
    /\ WritersHold
    /\ HoldIsExclusive
    /\ NoLostUpdate
    /\ EndedStaysDead

\* What the proofs carry from state to state: the shape of the data, the
\* shape of the control, and the facts that make the DELETE of a credential
\* act as a lock on its access key.
Safe == TypeOK /\ Control /\ KeysSafe
=============================================================================
