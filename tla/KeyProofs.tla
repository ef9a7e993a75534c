----------------------------- MODULE KeyProofs -----------------------------
(***************************************************************************)
(* The safety of access keys for every value of the constants.             *)
(*                                                                         *)
(* No request locks a row, and every Save writes a row read some calls     *)
(* before.  What keeps the table and the data plane together is that       *)
(* Outline answers 404 to all but one of the callers that DELETE the same  *)
(* credential.  KeysSafe says so: a copy of a row that names a working     *)
(* credential is the current row (FreshCopies); so the caller whose DELETE *)
(* succeeds has read the current row, and until it has written the outcome *)
(* no other caller can succeed on that key (HoldIsExclusive), so that the  *)
(* row does not change either (NoLostUpdate).                              *)
(***************************************************************************)
EXTENDS TypeProofs

\* What a step by p that leaves access_keys alone may do to the variables of
\* p: re-read rows, drop rows, provision a new credential, go on.
ViewOf(p) ==
    /\ \A k \in Keys : snap'[p][k] = snap[p][k] \/ snap'[p][k] = keys[k] \/ snap'[p][k] = None
    /\ new'[p] # None => /\ new'[p] \in live'
                         /\ new'[p] = new[p] \/ new'[p] \in Fresh
    /\ \A k \in Keys : Holds(p, k)' => Holds(p, k) /\ snap'[p][k] = snap[p][k]
    /\ pc'[p] \in {"post", "label", "save"} /\ cur'[p] # None => Holds(p, cur[p])'
    /\ \A k \in Keys : snap'[p][k] # None /\ Settled(p, k)' =>
          \/ snap'[p][k].status # "ACTIVE"
          \/ Settled(p, k) /\ snap'[p][k] = snap[p][k]

\* Credentials may be created and deleted, but none that a row or a copy of
\* one names comes back to life, those
\* that other requests have provisioned stay, and of the keys that work at
\* most one stops, none if p is at work on another.
PlaneOf(p) ==
    /\ \A k \in Keys, r \in Refs : Names(k, r) /\ r \in live' => r \in live
    /\ \A q \in Procs \ {p} : new[q] # None => new[q] \in live'
    /\ \/ \A j \in Keys : LiveKey(j) => LiveKey(j)'
       \/ /\ cur[p] = None
          /\ \E k \in Keys : \A j \in Keys : j # k /\ LiveKey(j) => LiveKey(j)'

\* But for key c, a step issues and ends nothing.
OnlyChanges(c) ==
    \A j \in Keys : j # c => (j \in minted' => j \in minted) /\ (Dead(j)' => Dead(j))

\* A key works when it is issued.
IssuesWorking == \A j \in Keys : j \in minted' /\ j \notin minted => LiveKey(j)'

\* What every step does: it keeps KeysSafe, keys that are dead stay dead, and
\* at most one key is issued or ends.
KeysKept ==
    /\ KeysSafe'
    /\ \A k \in Keys : Dead(k) => Dead(k)'
    /\ minted \subseteq minted' /\ IssuesWorking
    /\ \E c \in Keys \cup {None} : OnlyChanges(c)

\* Whoever holds a key has read its row.
LEMMA HolderHasRead ==
    ASSUME Safe, NEW p \in Procs, NEW k \in Keys, Holds(p, k)
    PROVE  snap[p][k] \in KeyRow
BY NoneAssumption DEF Safe, TypeOK, ProcsOK, Control, ControlAt, Holds

\* A row that is read as ended is dead.
LEMMA EndedIsDead ==
    ASSUME Safe, NEW k \in Keys, k \in minted,
           keys[k] = None \/ keys[k].status # "ACTIVE"
    PROVE  Dead(k)
<1>1. ~LiveKey(k)
    BY DEF Safe, KeysSafe, RevokedIsDead, LiveKey
<1>2. ASSUME NEW q \in Procs, Holds(q, k) PROVE FALSE
    <2>1. keys[k] = snap[q][k] /\ snap[q][k].status = "ACTIVE"
        BY <1>2 DEF Safe, KeysSafe, NoLostUpdate, Holds
    <2>2. snap[q][k] # None
        BY <1>2, HolderHasRead, NoneAssumption
    <2>3. QED
        BY <2>1, <2>2
<1>3. QED
    BY <1>1, <1>2 DEF Dead

\* A process holds no key but the one it is working on, so only that one, or
\* the one that stops working, can end in its step.
LEMMA OneEnds ==
    ASSUME Safe, NEW p \in Procs, Others(p), NEW c \in Keys \cup {None}, cur[p] \in {None, c},
           \A j \in Keys : j # c => (j \in minted' => j \in minted)
                                     /\ (LiveKey(j) => LiveKey(j)')
    PROVE  OnlyChanges(c)
<1>1. SUFFICES ASSUME NEW j \in Keys, j # c, Dead(j)' PROVE Dead(j)
    BY DEF OnlyChanges
<1>2. ~LiveKey(j) /\ j \in minted
    BY <1>1 DEF Dead
<1>3. ASSUME NEW q \in Procs, Holds(q, j) PROVE FALSE
    <2>1. q # p
        BY <1>1, <1>3, NoneAssumption DEF Holds
    <2>2. Holds(q, j)'
        BY <1>3, <2>1 DEF Holds, Others
    <2>3. QED
        BY <1>1, <2>2 DEF Dead
<1>4. QED
    BY <1>2, <1>3 DEF Dead

\* A step of p that leaves access_keys alone keeps KeysSafe.
LEMMA ViewStep ==
    ASSUME Safe, TypeOK', NEW p \in Procs, Others(p), keys' = keys, minted' = minted,
           PlaneOf(p), ViewOf(p)
    PROVE  KeysKept
<1>1. \A q \in Procs, k \in Keys :
         snap'[q][k] = snap[q][k] \/ snap'[q][k] = keys[k] \/ snap'[q][k] = None
    BY DEF ViewOf, Others
<1>2. \A k \in Keys, r \in Refs : Names(k, r)' => Names(k, r)
    BY <1>1 DEF Names
<1>3. \A q \in Procs, k \in Keys : Holds(q, k)' => Holds(q, k) /\ snap'[q][k] = snap[q][k]
    BY DEF ViewOf, Others, Holds
<1>4. /\ \A k \in Keys : keys[k] # None /\ keys[k].ref \in live' => keys[k].ref \in live
      /\ \A q \in Procs, k \in Keys :
            snap[q][k] # None /\ snap[q][k].ref \in live' => snap[q][k].ref \in live
    BY DEF PlaneOf, Names, Safe, TypeOK, TablesOK, ProcsOK, KeyRow
<1>5. \A k \in Keys : Dead(k) => Dead(k)'
    <2>1. SUFFICES ASSUME NEW k \in Keys, Dead(k) PROVE Dead(k)'
        OBVIOUS
    <2>2. ~LiveKey(k)'
        BY <2>1, <1>4 DEF Dead, LiveKey
    <2>3. QED
        BY <2>1, <2>2, <1>3 DEF Dead
<1>6. Ownership'
    <2>1. \A r \in Fresh : r \notin live /\ \A k \in Keys : ~Names(k, r)
        BY DEF Fresh
    <2>2. \A k \in Keys, r \in Refs : Names(k, r)' => k \in minted'
        BY <1>2 DEF Safe, KeysSafe, Ownership
    <2>3. \A j, k \in Keys, r \in Refs : Names(j, r)' /\ Names(k, r)' => j = k
        BY <1>2 DEF Safe, KeysSafe, Ownership
    <2>4. \A q \in Procs : new'[q] # None =>
             new'[q] \in live' /\ (new'[q] = new[q] \/ (q = p /\ new'[q] \in Fresh))
        BY DEF ViewOf, PlaneOf, Others
    <2>5. \A q \in Procs : new'[q] # None => new'[q] \in Refs
        BY DEF TypeOK, ProcsOK
    <2>6. \A q \in Procs, k \in Keys : new'[q] # None => ~Names(k, new[q])'
        BY <1>2, <2>1, <2>4, <2>5 DEF Safe, KeysSafe, Ownership
    <2>7. \A q, s \in Procs : new'[q] # None /\ new'[q] = new'[s] => q = s
        BY <2>1, <2>4 DEF Safe, KeysSafe, Ownership
    <2>8. QED
        BY <2>2, <2>3, <2>4, <2>6, <2>7 DEF Ownership
<1>7. RevokedIsDead'
    BY <1>4 DEF Safe, KeysSafe, RevokedIsDead, LiveKey
<1>8. FreshCopies'
    BY <1>1, <1>4 DEF Safe, KeysSafe, FreshCopies
<1>9. WritersHold'
    BY DEF Safe, KeysSafe, WritersHold, ViewOf, Others, Holds
<1>10. HoldIsExclusive'
    <2>1. \A q \in Procs, k \in Keys : Holds(q, k) => snap[q][k] # None
        BY HolderHasRead, NoneAssumption
    <2>2. QED
        BY <2>1, <1>3, <1>4 DEF Safe, KeysSafe, HoldIsExclusive
<1>11. NoLostUpdate'
    BY <1>3 DEF Safe, KeysSafe, NoLostUpdate
<1>12. EndedStaysDead'
    <2>1. SUFFICES ASSUME NEW q \in Procs, NEW k \in Keys, snap'[q][k] # None,
                          snap'[q][k].status # "ACTIVE" \/ Settled(q, k)'
                   PROVE  Dead(k)
        BY <1>5 DEF EndedStaysDead
    <2>2. CASE snap'[q][k] = snap[q][k] /\ (snap'[q][k].status # "ACTIVE" \/ Settled(q, k))
        BY <2>1, <2>2 DEF Safe, KeysSafe, EndedStaysDead
    <2>3. CASE snap'[q][k] = keys[k] /\ snap'[q][k].status # "ACTIVE"
        <3>1. k \in minted
            BY <2>1, <2>3 DEF Safe, KeysSafe, Ownership, Names, TypeOK, TablesOK, KeyRow
        <3>2. QED
            BY <2>3, <3>1, EndedIsDead
    <2>4. snap'[q][k].status = "ACTIVE" => Settled(q, k) /\ snap'[q][k] = snap[q][k]
        BY <2>1 DEF ViewOf, Others, Settled
    <2>5. QED
        BY <1>1, <2>1, <2>2, <2>3, <2>4
<1>13. \E c \in Keys \cup {None} : OnlyChanges(c)
    <2>1. CASE \A j \in Keys : LiveKey(j) => LiveKey(j)'
        <3>1. cur[p] \in Keys \cup {None}
            BY DEF Safe, TypeOK, ProcsOK
        <3>2. OnlyChanges(cur[p])
            BY <2>1, <3>1, OneEnds
        <3>3. QED
            BY <3>1, <3>2
    <2>2. CASE cur[p] = None /\ \E k \in Keys : \A j \in Keys : j # k /\ LiveKey(j) => LiveKey(j)'
        <3>1. PICK k \in Keys : \A j \in Keys : j # k /\ LiveKey(j) => LiveKey(j)'
            BY <2>2
        <3>2. OnlyChanges(k)
            BY <2>2, <3>1, OneEnds
        <3>3. QED
            BY <3>2
    <2>3. QED
        BY <2>1, <2>2 DEF PlaneOf
<1>14. QED
    BY <1>5, <1>6, <1>7, <1>8, <1>9, <1>10, <1>11, <1>12, <1>13
    DEF KeysSafe, KeysKept, IssuesWorking
-----------------------------------------------------------------------------
(* Steps that leave access_keys alone.                                     *)

\* Dropping the local variables is such a step.
LEMMA LeavingKeys ==
    ASSUME Safe, TypeOK', NEW p \in Procs, Return(p) \/ Leave(p, "idle"),
           keys' = keys, minted' = minted, PlaneOf(p)
    PROVE  KeysKept
<1>1. PICK l \in Outside : Leave(p, l)
    BY ReturnLeaves DEF Outside
<1>2. Others(p)
    BY <1>1 DEF Safe, TypeOK, ProcsOK, Others, Leave
<1>3. ViewOf(p)
    <2>1. /\ pc'[p] \in Outside /\ op'[p] = "none" /\ new'[p] = None
          /\ snap'[p] = NoKeys
        BY <1>1 DEF Safe, TypeOK, ProcsOK, Leave
    <2>2. QED
        BY <2>1 DEF Outside, NoKeys, ViewOf, Holds, Settled, CascadeOps
<1>4. QED
    BY <1>2, <1>3, ViewStep

LEMMA CreateKeyKeys ==
    ASSUME Safe, TypeOK', NEW p \in Procs, NEW u \in Users, NEW s \in Servers,
           CreateKey(p, u, s)
    PROVE  KeysKept
<1> USE DEF CreateKey, Goto, db, fleet, outline
<1>1. Others(p)
    BY DEF Safe, TypeOK, ProcsOK, Others
<1>2. keys' = keys /\ minted' = minted /\ PlaneOf(p)
    BY DEF Safe, KeysSafe, Ownership, PlaneOf, LiveKey
<1>3. ViewOf(p)
    BY NoneAssumption
    DEF Safe, TypeOK, TablesOK, ProcsOK, Control, ControlAt, KeysSafe, Ownership, WritersHold,
        ViewOf, Holds, Settled, CascadeOps, Idle
<1>4. QED
    BY <1>1, <1>2, <1>3, ViewStep

LEMMA GetKeyKeys ==
    ASSUME Safe, TypeOK', NEW p \in Procs, NEW k \in Keys, NEW o \in KeyOps, GetKey(p, k, o)
    PROVE  KeysKept
<1> USE DEF GetKey, Goto, db, fleet, outline
<1>1. Others(p)
    BY DEF Safe, TypeOK, ProcsOK, Others
<1>2. keys' = keys /\ minted' = minted /\ PlaneOf(p)
    BY DEF Safe, KeysSafe, Ownership, PlaneOf, LiveKey
<1>3. ViewOf(p)
    BY NoneAssumption
    DEF Safe, TypeOK, TablesOK, ProcsOK, Control, ControlAt, KeysSafe, Ownership, WritersHold,
        ViewOf, Holds, Settled, CascadeOps, Idle, KeyOps, NoKeys
<1>4. QED
    BY <1>1, <1>2, <1>3, ViewStep

LEMMA RevokeNotFoundKeys ==
    ASSUME Safe, TypeOK', NEW p \in Procs, NEW k \in Keys, RevokeNotFound(p, k)
    PROVE  KeysKept
<1>1. keys' = keys /\ minted' = minted /\ PlaneOf(p)
    BY DEF RevokeNotFound, db, fleet, outline, Safe, KeysSafe, Ownership, PlaneOf, LiveKey
<1>2. QED
    BY <1>1, LeavingKeys DEF RevokeNotFound

LEMMA RevokeReplyLostKeys ==
    ASSUME Safe, TypeOK', NEW p \in Procs, NEW k \in Keys, RevokeReplyLost(p, k)
    PROVE  KeysKept
<1>1. Names(k, snap[p][k].ref) /\ snap[p][k].ref \in Refs
    BY DEF RevokeReplyLost, Names, Safe, Control, ControlAt, TypeOK, ProcsOK, KeyRow
<1>2. /\ keys' = keys /\ minted' = minted
      /\ live' = live \ {snap[p][k].ref} /\ cur[p] = None
    BY DEF RevokeReplyLost, db, Safe, Control, ControlAt
<1>3. \A j \in Keys : j # k /\ LiveKey(j) => LiveKey(j)'
    BY <1>1, <1>2 DEF LiveKey, Names, Safe, KeysSafe, Ownership
<1>4. PlaneOf(p)
    BY <1>1, <1>2, <1>3 DEF Safe, KeysSafe, Ownership, PlaneOf
<1>5. QED
    BY <1>2, <1>4, LeavingKeys DEF RevokeReplyLost

LEMMA PostAcceptedKeys ==
    ASSUME Safe, TypeOK', NEW p \in Procs, NEW r \in Refs, PostAccepted(p, r)
    PROVE  KeysKept
<1> USE DEF PostAccepted, Goto, db, fleet, outline
<1>1. Others(p)
    BY DEF Safe, TypeOK, ProcsOK, Others
<1>2. keys' = keys /\ minted' = minted /\ PlaneOf(p)
    BY DEF Fresh, Safe, KeysSafe, Ownership, PlaneOf, LiveKey
<1>3. ViewOf(p)
    BY NoneAssumption
    DEF Safe, TypeOK, TablesOK, ProcsOK, Control, ControlAt, KeysSafe, Ownership, WritersHold,
        ViewOf, Holds, Settled, CascadeOps
<1>4. QED
    BY <1>1, <1>2, <1>3, ViewStep

LEMMA PostReplyLostKeys ==
    ASSUME Safe, TypeOK', NEW p \in Procs, NEW r \in Refs, PostReplyLost(p, r)
    PROVE  KeysKept
<1>1. keys' = keys /\ minted' = minted /\ PlaneOf(p)
    BY DEF PostReplyLost, Fresh, db, fleet, outline, Safe, KeysSafe, Ownership, PlaneOf, LiveKey
<1>2. QED
    BY <1>1, LeavingKeys DEF PostReplyLost

LEMMA LabelKeyKeys ==
    ASSUME Safe, TypeOK', NEW p \in Procs, LabelKey(p)
    PROVE  KeysKept
<1> USE DEF LabelKey, Goto, db, fleet, outline
<1>1. Others(p)
    BY DEF Safe, TypeOK, ProcsOK, Others
<1>2. keys' = keys /\ minted' = minted /\ PlaneOf(p)
    BY DEF Safe, KeysSafe, Ownership, PlaneOf, LiveKey
<1>3. ViewOf(p)
    BY NoneAssumption
    DEF Safe, TypeOK, TablesOK, ProcsOK, Control, ControlAt, KeysSafe, Ownership, WritersHold,
        ViewOf, Holds, Settled, CascadeOps
<1>4. QED
    BY <1>1, <1>2, <1>3, ViewStep

LEMMA InsertRejectedKeys ==
    ASSUME Safe, TypeOK', NEW p \in Procs, InsertRejected(p)
    PROVE  KeysKept
<1> USE DEF InsertRejected, Goto, db, fleet, outline
<1>1. Others(p)
    BY DEF Safe, TypeOK, ProcsOK, Others
<1>2. keys' = keys /\ minted' = minted /\ PlaneOf(p)
    BY DEF Safe, KeysSafe, Ownership, PlaneOf, LiveKey
<1>3. ViewOf(p)
    BY NoneAssumption
    DEF Safe, TypeOK, TablesOK, ProcsOK, Control, ControlAt, KeysSafe, Ownership, WritersHold,
        ViewOf, Holds, Settled, CascadeOps
<1>4. QED
    BY <1>1, <1>2, <1>3, ViewStep

LEMMA CleanupKeys ==
    ASSUME Safe, TypeOK', NEW p \in Procs, Cleanup(p)
    PROVE  KeysKept
<1>1. keys' = keys /\ minted' = minted /\ PlaneOf(p)
    BY DEF Cleanup, db, fleet, outline, Safe, KeysSafe, Ownership, PlaneOf, LiveKey, Names,
           Control, ControlAt, Provisioned
<1>2. QED
    BY <1>1, LeavingKeys DEF Cleanup

LEMMA FindExpiredKeysKeys ==
    ASSUME Safe, TypeOK', NEW p \in Procs, FindExpiredKeys(p)
    PROVE  KeysKept
<1> USE DEF FindExpiredKeys, Goto, db, fleet, outline
<1>1. Others(p)
    BY DEF Safe, TypeOK, ProcsOK, Others
<1>2. keys' = keys /\ minted' = minted /\ PlaneOf(p)
    BY DEF Safe, KeysSafe, Ownership, PlaneOf, LiveKey
<1>3. ViewOf(p)
    BY NoneAssumption
    DEF Safe, TypeOK, TablesOK, ProcsOK, Control, ControlAt, KeysSafe, Ownership, WritersHold,
        ViewOf, Holds, Settled, CascadeOps, ExpiredKeys
<1>4. QED
    BY <1>1, <1>2, <1>3, ViewStep

LEMMA KeySweepDoneKeys ==
    ASSUME Safe, TypeOK', NEW p \in Procs, KeySweepDone(p)
    PROVE  KeysKept
<1>1. keys' = keys /\ minted' = minted /\ PlaneOf(p)
    BY DEF KeySweepDone, db, fleet, outline, Safe, KeysSafe, Ownership, PlaneOf, LiveKey
<1>2. QED
    BY <1>1, LeavingKeys DEF KeySweepDone

LEMMA GetUserKeys ==
    ASSUME Safe, TypeOK', NEW p \in Procs, NEW u \in Users, NEW o \in UserOps, GetUser(p, u, o)
    PROVE  KeysKept
<1> USE DEF GetUser, Goto, db, fleet, outline
<1>1. Others(p)
    BY DEF Safe, TypeOK, ProcsOK, Others
<1>2. keys' = keys /\ minted' = minted /\ PlaneOf(p)
    BY DEF Safe, KeysSafe, Ownership, PlaneOf, LiveKey
<1>3. ViewOf(p)
    BY NoneAssumption
    DEF Safe, TypeOK, TablesOK, ProcsOK, Control, ControlAt, KeysSafe, Ownership, WritersHold,
        ViewOf, Holds, Settled, CascadeOps, Idle, KeysOf, UserOps
<1>4. QED
    BY <1>1, <1>2, <1>3, ViewStep

LEMMA PreloadKeysKeys ==
    ASSUME Safe, TypeOK', NEW p \in Procs, PreloadKeys(p)
    PROVE  KeysKept
<1> USE DEF PreloadKeys, Goto, db, fleet, outline
<1>1. Others(p)
    BY DEF Safe, TypeOK, ProcsOK, Others
<1>2. keys' = keys /\ minted' = minted /\ PlaneOf(p)
    BY DEF Safe, KeysSafe, Ownership, PlaneOf, LiveKey
<1>3. ViewOf(p)
    BY NoneAssumption
    DEF Safe, TypeOK, TablesOK, ProcsOK, Control, ControlAt, KeysSafe, Ownership, WritersHold,
        ViewOf, Holds, Settled, CascadeOps, KeysOf
<1>4. QED
    BY <1>1, <1>2, <1>3, ViewStep

LEMMA PreloadServersKeys ==
    ASSUME Safe, TypeOK', NEW p \in Procs, PreloadServers(p)
    PROVE  KeysKept
<1> USE DEF PreloadServers, Goto, db, fleet, outline
<1>1. Others(p)
    BY DEF Safe, TypeOK, ProcsOK, Others
<1>2. keys' = keys /\ minted' = minted /\ PlaneOf(p)
    BY DEF Safe, KeysSafe, Ownership, PlaneOf, LiveKey
<1>3. ViewOf(p)
    BY NoneAssumption
    DEF Safe, TypeOK, TablesOK, ProcsOK, Control, ControlAt, KeysSafe, Ownership, WritersHold,
        ViewOf, Holds, Settled, CascadeOps
<1>4. QED
    BY <1>1, <1>2, <1>3, ViewStep

LEMMA PreloadDevicesKeys ==
    ASSUME Safe, TypeOK', NEW p \in Procs, PreloadDevices(p)
    PROVE  KeysKept
<1> USE DEF PreloadDevices, Goto, db, fleet, outline
<1>1. Others(p)
    BY DEF Safe, TypeOK, ProcsOK, Others
<1>2. keys' = keys /\ minted' = minted /\ PlaneOf(p)
    BY DEF Safe, KeysSafe, Ownership, PlaneOf, LiveKey
<1>3. ViewOf(p)
    BY NoneAssumption
    DEF Safe, TypeOK, TablesOK, ProcsOK, Control, ControlAt, KeysSafe, Ownership, WritersHold,
        ViewOf, Holds, Settled, CascadeOps
<1>4. QED
    BY <1>1, <1>2, <1>3, ViewStep

LEMMA SaveUserRejectedKeys ==
    ASSUME Safe, TypeOK', NEW p \in Procs, SaveUserRejected(p)
    PROVE  KeysKept
<1>1. keys' = keys /\ minted' = minted /\ PlaneOf(p)
    BY DEF SaveUserRejected, db, fleet, outline, Safe, KeysSafe, Ownership, PlaneOf, LiveKey
<1>2. QED
    BY <1>1, LeavingKeys DEF SaveUserRejected

LEMMA ListKeysKeys ==
    ASSUME Safe, TypeOK', NEW p \in Procs, ListKeys(p)
    PROVE  KeysKept
<1> USE DEF ListKeys, Goto, db, fleet, outline
<1>1. Others(p)
    BY DEF Safe, TypeOK, ProcsOK, Others
<1>2. keys' = keys /\ minted' = minted /\ PlaneOf(p)
    BY DEF Safe, KeysSafe, Ownership, PlaneOf, LiveKey
<1>3. ViewOf(p)
    BY NoneAssumption
    DEF Safe, TypeOK, TablesOK, ProcsOK, Control, ControlAt, KeysSafe, Ownership, WritersHold,
        ViewOf, Holds, Settled, CascadeOps, KeysOf
<1>4. QED
    BY <1>1, <1>2, <1>3, ViewStep

LEMMA ListDevicesKeys ==
    ASSUME Safe, TypeOK', NEW p \in Procs, ListDevices(p)
    PROVE  KeysKept
<1> USE DEF ListDevices, Goto, db, fleet, outline
<1>1. Others(p)
    BY DEF Safe, TypeOK, ProcsOK, Others
<1>2. keys' = keys /\ minted' = minted /\ PlaneOf(p)
    BY DEF Safe, KeysSafe, Ownership, PlaneOf, LiveKey
<1>3. ViewOf(p)
    BY NoneAssumption
    DEF Safe, TypeOK, TablesOK, ProcsOK, Control, ControlAt, KeysSafe, Ownership, WritersHold,
        ViewOf, Holds, Settled, CascadeOps
<1>4. QED
    BY <1>1, <1>2, <1>3, ViewStep

LEMMA SaveDeviceKeys ==
    ASSUME Safe, TypeOK', NEW p \in Procs, NEW d \in Devices, SaveDevice(p, d)
    PROVE  KeysKept
<1> USE DEF SaveDevice, Goto, db, fleet, outline
<1>1. Others(p)
    BY DEF Safe, TypeOK, ProcsOK, Others
<1>2. keys' = keys /\ minted' = minted /\ PlaneOf(p)
    BY DEF Safe, KeysSafe, Ownership, PlaneOf, LiveKey
<1>3. ViewOf(p)
    BY NoneAssumption
    DEF Safe, TypeOK, TablesOK, ProcsOK, Control, ControlAt, KeysSafe, Ownership, WritersHold,
        ViewOf, Holds, Settled, CascadeOps
<1>4. QED
    BY <1>1, <1>2, <1>3, ViewStep

LEMMA CascadeDoneKeys ==
    ASSUME Safe, TypeOK', NEW p \in Procs, CascadeDone(p)
    PROVE  KeysKept
<1> USE DEF CascadeDone, Goto, db, fleet, outline
<1>1. keys' = keys /\ minted' = minted /\ PlaneOf(p)
    BY DEF Safe, KeysSafe, Ownership, PlaneOf, LiveKey
<1>2. CASE op[p] = "disable"
    BY <1>1, <1>2, LeavingKeys
<1>3. CASE op[p] # "disable"
    <2>1. Others(p)
        BY <1>3 DEF Safe, TypeOK, ProcsOK, Others
    <2>2. ViewOf(p)
        BY <1>3, NoneAssumption
        DEF Safe, TypeOK, ProcsOK, Control, ControlAt, KeysSafe, Ownership, NoKeys,
            ViewOf, Holds, Settled, CascadeOps
    <2>3. QED
        BY <1>1, <2>1, <2>2, ViewStep
<1>4. QED
    BY <1>2, <1>3

LEMMA DeleteUserKeys ==
    ASSUME Safe, TypeOK', NEW p \in Procs, DeleteUser(p)
    PROVE  KeysKept
<1>1. keys' = keys /\ minted' = minted /\ PlaneOf(p)
    BY DEF DeleteUser, db, fleet, outline, Safe, KeysSafe, Ownership, PlaneOf, LiveKey
<1>2. QED
    BY <1>1, LeavingKeys DEF DeleteUser

LEMMA FindExpiredUsersKeys ==
    ASSUME Safe, TypeOK', NEW p \in Procs, FindExpiredUsers(p)
    PROVE  KeysKept
<1> USE DEF FindExpiredUsers, Goto, db, fleet, outline
<1>1. Others(p)
    BY DEF Safe, TypeOK, ProcsOK, Others
<1>2. keys' = keys /\ minted' = minted /\ PlaneOf(p)
    BY DEF Safe, KeysSafe, Ownership, PlaneOf, LiveKey
<1>3. ViewOf(p)
    BY NoneAssumption
    DEF Safe, TypeOK, TablesOK, ProcsOK, Control, ControlAt, KeysSafe, Ownership, WritersHold,
        ViewOf, Holds, Settled, CascadeOps
<1>4. QED
    BY <1>1, <1>2, <1>3, ViewStep

LEMMA NextUserKeys ==
    ASSUME Safe, TypeOK', NEW p \in Procs, NEW u \in Users, NextUser(p, u)
    PROVE  KeysKept
<1> USE DEF NextUser, Goto, db, fleet, outline
<1>1. Others(p)
    BY DEF Safe, TypeOK, ProcsOK, Others
<1>2. keys' = keys /\ minted' = minted /\ PlaneOf(p)
    BY DEF Safe, KeysSafe, Ownership, PlaneOf, LiveKey
<1>3. ViewOf(p)
    BY NoneAssumption
    DEF Safe, TypeOK, TablesOK, ProcsOK, Control, ControlAt, KeysSafe, Ownership, WritersHold,
        ViewOf, Holds, Settled, CascadeOps
<1>4. QED
    BY <1>1, <1>2, <1>3, ViewStep

LEMMA UserSweepDoneKeys ==
    ASSUME Safe, TypeOK', NEW p \in Procs, UserSweepDone(p)
    PROVE  KeysKept
<1>1. keys' = keys /\ minted' = minted /\ PlaneOf(p)
    BY DEF UserSweepDone, db, fleet, outline, Safe, KeysSafe, Ownership, PlaneOf, LiveKey
<1>2. QED
    BY <1>1, LeavingKeys DEF UserSweepDone

LEMMA GetDeviceKeys ==
    ASSUME Safe, TypeOK', NEW p \in Procs, NEW d \in Devices, NEW o \in DeviceOps, GetDevice(p, d, o)
    PROVE  KeysKept
<1> USE DEF GetDevice, Goto, db, fleet, outline
<1>1. Others(p)
    BY DEF Safe, TypeOK, ProcsOK, Others
<1>2. keys' = keys /\ minted' = minted /\ PlaneOf(p)
    BY DEF Safe, KeysSafe, Ownership, PlaneOf, LiveKey
<1>3. ViewOf(p)
    BY NoneAssumption
    DEF Safe, TypeOK, TablesOK, ProcsOK, Control, ControlAt, KeysSafe, Ownership, WritersHold,
        ViewOf, Holds, Settled, CascadeOps, Idle, DeviceOps
<1>4. QED
    BY <1>1, <1>2, <1>3, ViewStep

LEMMA PutDeviceKeys ==
    ASSUME Safe, TypeOK', NEW p \in Procs, NEW d \in Devices, NEW s \in DevStatus, PutDevice(p, d, s)
    PROVE  KeysKept
<1>1. keys' = keys /\ minted' = minted /\ PlaneOf(p)
    BY DEF PutDevice, db, fleet, outline, Safe, KeysSafe, Ownership, PlaneOf, LiveKey
<1>2. QED
    BY <1>1, LeavingKeys DEF PutDevice

LEMMA GetServerKeys ==
    ASSUME Safe, TypeOK', NEW p \in Procs, NEW s \in Servers, NEW o \in ServerOps,
           GetServer(p, s, o)
    PROVE  KeysKept
<1> USE DEF GetServer, Goto, db, fleet, outline
<1>1. Others(p)
    BY DEF Safe, TypeOK, ProcsOK, Others
<1>2. keys' = keys /\ minted' = minted /\ PlaneOf(p)
    BY DEF Safe, KeysSafe, Ownership, PlaneOf, LiveKey
<1>3. ViewOf(p)
    BY NoneAssumption
    DEF Safe, TypeOK, TablesOK, ProcsOK, Control, ControlAt, KeysSafe, Ownership, WritersHold,
        ViewOf, Holds, Settled, CascadeOps, Idle, ServerOps
<1>4. QED
    BY <1>1, <1>2, <1>3, ViewStep

LEMMA PutServerKeys ==
    ASSUME Safe, TypeOK', NEW p \in Procs, NEW s \in Servers, NEW t \in ServerStatus,
           PutServer(p, s, t)
    PROVE  KeysKept
<1>1. keys' = keys /\ minted' = minted /\ PlaneOf(p)
    BY DEF PutServer, db, fleet, outline, Safe, KeysSafe, Ownership, PlaneOf, LiveKey
<1>2. QED
    BY <1>1, LeavingKeys DEF PutServer

LEMMA FailKeys ==
    ASSUME Safe, TypeOK', NEW p \in Procs, Fail(p) \/ Crash(p)
    PROVE  KeysKept
<1>1. keys' = keys /\ minted' = minted /\ PlaneOf(p)
    BY DEF Fail, Crash, db, fleet, outline, Safe, KeysSafe, Ownership, PlaneOf, LiveKey
<1>2. QED
    BY <1>1, LeavingKeys DEF Fail, Crash

\* Steps that involve no process.
LEMMA RestKeys ==
    ASSUME Safe, TypeOK',
           \/ \E u \in Users, e \in Expiries : CreateUser(u, e)
           \/ \E d \in Devices : DeleteDevice(d)
           \/ \E s \in Servers : CreateServer(s) \/ DeleteServer(s)
           \/ Tick
           \/ UNCHANGED vars
    PROVE  KeysKept
<1>1. /\ keys' = keys /\ minted' = minted /\ live' = live
      /\ op' = op /\ pc' = pc /\ snap' = snap /\ todo' = todo /\ cur' = cur /\ new' = new
      /\ usr' = usr /\ urows' = urows
    BY DEF CreateUser, DeleteDevice, CreateServer, DeleteServer, Tick, vars, db, fleet, outline, proc
<1>2. Sweeper \in Procs /\ Others(Sweeper)
    BY <1>1 DEF Procs, Others
<1>3. PlaneOf(Sweeper)
    BY <1>1 DEF PlaneOf, Safe, KeysSafe, Ownership, LiveKey
<1>4. ViewOf(Sweeper)
    BY <1>1, <1>2 DEF ViewOf, Safe, KeysSafe, Ownership, WritersHold, Holds, Settled
<1>5. QED
    BY <1>1, <1>2, <1>3, <1>4, ViewStep

-----------------------------------------------------------------------------
(* The DELETE that succeeds: p becomes the holder of k.                    *)

LEMMA RevokeAcceptedKeys ==
    ASSUME Safe, TypeOK', NEW p \in Procs, NEW k \in Keys, RevokeAccepted(p, k)
    PROVE  KeysKept
<1> DEFINE r == snap[p][k].ref
<1>1. /\ keys' = keys /\ minted' = minted /\ live' = live \ {r}
      /\ op' = op /\ snap' = snap /\ new' = new /\ r \in live
    BY DEF RevokeAccepted, db
<1>2. /\ cur'[p] = k /\ todo'[p] = todo[p] \ {k} /\ pc'[p] \in {"post", "drop", "save"}
      /\ pc[p] = "revoke" /\ cur[p] = None /\ Others(p)
    BY DEF RevokeAccepted, Goto, AfterRevoke, Others, Safe, TypeOK, ProcsOK, Control, ControlAt
<1>3. snap[p][k] # None /\ snap[p][k] \in KeyRow
    BY DEF RevokeAccepted, Safe, TypeOK, ProcsOK, Control, ControlAt
<1>4. keys[k] = snap[p][k] /\ LiveKey(k) /\ snap[p][k].status = "ACTIVE"
    BY <1>1, <1>3 DEF Safe, KeysSafe, FreshCopies, RevokedIsDead, LiveKey
<1>5. ASSUME NEW q \in Procs, Holds(q, k) PROVE FALSE
    BY <1>1, <1>4, <1>5 DEF Safe, KeysSafe, NoLostUpdate, HoldIsExclusive
<1>6. \A q \in Procs, j \in Keys : Holds(q, j)' => Holds(q, j) \/ (q = p /\ j = k)
    BY <1>1, <1>2 DEF Others, Holds
<1>7. \A j \in Keys : Dead(j) => Dead(j)'
    BY <1>1, <1>4, <1>6 DEF Dead, LiveKey
<1>8. \A j \in Keys, x \in Refs : Names(j, x)' <=> Names(j, x)
    BY <1>1 DEF Names
<1>9. Ownership'
    <2>1. Names(k, r) /\ r \in Refs
        BY <1>3 DEF Names, KeyRow
    <2>2. \A q \in Procs : new[q] # None => new[q] \in Refs /\ new[q] # r
        BY <2>1 DEF Safe, KeysSafe, Ownership, TypeOK, ProcsOK
    <2>3. QED
        BY <1>1, <1>8, <2>2 DEF Safe, KeysSafe, Ownership
<1>10. RevokedIsDead' /\ FreshCopies'
    BY <1>1 DEF Safe, KeysSafe, RevokedIsDead, FreshCopies, LiveKey
<1>11. WritersHold'
    BY <1>1, <1>2, <1>4 DEF Safe, KeysSafe, WritersHold, Holds, Others
<1>12. HoldIsExclusive'
    BY <1>1, <1>5, <1>6 DEF Safe, KeysSafe, HoldIsExclusive
<1>13. NoLostUpdate'
    BY <1>1, <1>4, <1>6 DEF Safe, KeysSafe, NoLostUpdate
<1>14. EndedStaysDead'
    <2>1. \A q \in Procs, j \in Keys : Settled(q, j)' => Settled(q, j)
        BY <1>1, <1>2, NoneAssumption DEF Settled, Others
    <2>2. QED
        BY <1>1, <1>7, <2>1 DEF Safe, KeysSafe, EndedStaysDead
<1>15. OnlyChanges(k)
    <2>1. \A j \in Keys : j # k /\ LiveKey(j) => LiveKey(j)'
        BY <1>1, <1>3 DEF LiveKey, Names, KeyRow, Safe, KeysSafe, Ownership
    <2>2. QED
        BY <1>1, <1>2, <2>1, OneEnds
<1>16. QED
    BY <1>1, <1>7, <1>9, <1>10, <1>11, <1>12, <1>13, <1>14, <1>15
    DEF KeysSafe, KeysKept, IssuesWorking

-----------------------------------------------------------------------------
(* The steps that write access_keys.                                       *)

\* p rewrites row j: no copy of it names a working credential, and the new
\* row names none either, or the credential p has provisioned.
Rewrites(p, j) ==
    /\ \A q \in Procs : snap[q][j] # None => snap[q][j].ref \notin live
    /\ \/ keys'[j] = None
       \/ keys'[j] # None /\ keys'[j].ref \notin live /\ Names(j, keys'[j].ref)
       \/ /\ keys'[j] # None /\ keys'[j].ref = new[p] /\ keys'[j].status = "ACTIVE"
          /\ new[p] # None /\ new'[p] = None /\ j \in minted' /\ ~Dead(j)

\* What a step by p that writes access_keys does.
TableOf(p) ==
    /\ live' = live /\ minted \subseteq minted'
    /\ \A j \in Keys : keys'[j] = keys[j] \/ Rewrites(p, j)
    /\ \A j, k \in Keys : /\ keys'[j] # keys[j] /\ keys'[j] # None /\ keys'[j].ref = new[p]
                          /\ keys'[k] # keys[k] /\ keys'[k] # None /\ keys'[k].ref = new[p]
                          => j = k
    /\ \A j \in Keys : snap'[p][j] = snap[p][j] \/ snap'[p][j] = None
    /\ new'[p] = None
    /\ pc'[p] \notin {"post", "label", "save", "drop"}
    /\ \A q \in Procs, j \in Keys : q # p /\ Holds(q, j) => keys'[j] = keys[j]
    /\ \A j \in Keys : snap'[p][j] # None /\ Settled(p, j)' => Settled(p, j) \/ Dead(j)'

\* Of the rows that are there it writes only that of key c, the one p works on.
RowOf(p, c) ==
    /\ cur[p] \in {None, c}
    /\ \A j \in Keys : j # c => /\ keys'[j] = keys[j] \/ keys[j] = None
                                /\ j \in minted' => j \in minted
    /\ IssuesWorking

LEMMA TableStep ==
    ASSUME Safe, TypeOK', NEW p \in Procs, NEW c \in Keys \cup {None},
           Others(p), TableOf(p), RowOf(p, c)
    PROVE  KeysKept
<1>1. live' = live /\ minted \subseteq minted'
    BY DEF TableOf
<1>2. \A q \in Procs, j \in Keys : snap'[q][j] = snap[q][j] \/ snap'[q][j] = None
    BY DEF TableOf, Others
<1>3. \A q \in Procs, j \in Keys :
         Holds(q, j)' => q # p /\ Holds(q, j) /\ snap'[q][j] = snap[q][j] /\ keys'[j] = keys[j]
    BY DEF TableOf, Others, Holds
<1>4. \A q \in Procs : new'[q] # None => q # p /\ new'[q] = new[q]
    BY DEF TableOf, Others
<1>5. \A j \in Keys, r \in Refs :
         Names(j, r)' => Names(j, r) \/ /\ keys'[j] # keys[j] /\ keys'[j] # None
                                        /\ keys'[j].ref = r /\ r = new[p]
                                        /\ new[p] # None /\ j \in minted'
    BY <1>2 DEF Names, TableOf, Rewrites
<1>6. \A j \in Keys : Dead(j) => Dead(j)'
    <2>1. SUFFICES ASSUME NEW j \in Keys, Dead(j) PROVE Dead(j)'
        OBVIOUS
    <2>2. ~LiveKey(j)'
        BY <1>1, <2>1 DEF TableOf, Rewrites, Dead, LiveKey
    <2>3. QED
        BY <1>1, <1>3, <2>1, <2>2 DEF Dead
<1>7. Ownership'
    <2>1. new[p] # None => new[p] \in Refs /\ new[p] \in live
        BY DEF Safe, KeysSafe, Ownership, TypeOK, ProcsOK
    <2>2. \A j \in Keys, r \in Refs : Names(j, r)' => j \in minted'
        BY <1>1, <1>5, <2>1 DEF Safe, KeysSafe, Ownership
    <2>3. \A j, k \in Keys, r \in Refs : Names(j, r)' /\ Names(k, r)' => j = k
        <3>1. SUFFICES ASSUME NEW j \in Keys, NEW k \in Keys, NEW r \in Refs,
                              Names(j, r)', Names(k, r)'
                       PROVE  j = k
            OBVIOUS
        <3>2. CASE Names(j, r) /\ Names(k, r)
            BY <3>2 DEF Safe, KeysSafe, Ownership
        <3>3. CASE r = new[p] /\ new[p] # None
            <4>1. ~Names(j, r) /\ ~Names(k, r)
                BY <3>3 DEF Safe, KeysSafe, Ownership
            <4>2. QED
                BY <1>5, <3>1, <4>1 DEF TableOf
        <3>4. QED
            BY <1>5, <3>1, <3>2, <3>3
    <2>4. \A q \in Procs : new'[q] # None => new'[q] \in live' /\ new'[q] \in Refs
        BY <1>1, <1>4 DEF Safe, KeysSafe, Ownership, TypeOK, ProcsOK
    <2>5. \A q \in Procs, j \in Keys : new'[q] # None => ~Names(j, new[q])'
        <3>1. SUFFICES ASSUME NEW q \in Procs, NEW j \in Keys, new'[q] # None,
                              Names(j, new[q])'
                       PROVE  FALSE
            OBVIOUS
        <3>2. new'[q] = new[q] /\ q # p /\ new[q] \in Refs
            BY <1>4, <2>4, <3>1
        <3>3. ~Names(j, new[q]) /\ new[q] # new[p]
            BY <3>1, <3>2 DEF Safe, KeysSafe, Ownership
        <3>4. QED
            BY <1>5, <3>1, <3>2, <3>3
    <2>6. QED
        BY <1>1, <1>4, <2>2, <2>3, <2>4, <2>5 DEF Safe, KeysSafe, Ownership
<1>8. RevokedIsDead'
    BY <1>1 DEF Safe, KeysSafe, RevokedIsDead, LiveKey, TableOf, Rewrites
<1>9. FreshCopies'
    BY <1>1, <1>2 DEF Safe, KeysSafe, FreshCopies, TableOf, Rewrites
<1>10. WritersHold'
    BY DEF Safe, KeysSafe, WritersHold, TableOf, Others, Holds
<1>11. HoldIsExclusive' /\ NoLostUpdate'
    BY <1>1, <1>3 DEF Safe, KeysSafe, HoldIsExclusive, NoLostUpdate
<1>12. EndedStaysDead'
    <2>1. \A q \in Procs, j \in Keys :
             snap'[q][j] # None /\ Settled(q, j)' => Settled(q, j) \/ Dead(j)'
        BY DEF TableOf, Others, Settled
    <2>2. QED
        BY <1>2, <1>6, <2>1 DEF Safe, KeysSafe, EndedStaysDead
<1>13. OnlyChanges(c)
    BY <1>1, OneEnds DEF RowOf, LiveKey
<1>14. QED
    BY <1>1, <1>6, <1>7, <1>8, <1>9, <1>10, <1>11, <1>12, <1>13 DEF KeysSafe, KeysKept, RowOf

\* What leaving does to the variables of p.
LEMMA LeftProcess ==
    ASSUME Safe, NEW p \in Procs, Return(p)
    PROVE  /\ Others(p) /\ snap'[p] = NoKeys /\ new'[p] = None
           /\ pc'[p] \notin {"post", "label", "save", "drop"}
<1>1. PICK l \in Outside : Leave(p, l)
    BY ReturnLeaves
<1>2. QED
    BY <1>1 DEF Leave, Outside, Others, Safe, TypeOK, ProcsOK

LEMMA InsertKeyKeys ==
    ASSUME Safe, TypeOK', NEW p \in Procs, NEW k \in Keys, NEW s \in Servers,
           NEW e \in Expiries, InsertKey(p, k, s, e)
    PROVE  KeysKept
<1>1. Return(p) /\ live' = live /\ minted' = minted \cup {k} /\ k \notin minted
    BY DEF InsertKey, outline
<1>2. /\ \A j \in Keys : j # k => keys'[j] = keys[j]
      /\ keys'[k] # None /\ keys'[k].ref = new[p] /\ keys'[k].status = "ACTIVE"
    <2> DEFINE row == [user |-> usr[p], server |-> s, ref |-> new[p],
                     status |-> "ACTIVE", expires |-> e]
    <2>1. keys' = [keys EXCEPT ![k] = row] /\ keys \in [Keys -> KeyRow \cup {None}]
        BY DEF InsertKey, Safe, TypeOK, TablesOK
    <2>2. usr[p] \in Users /\ new[p] \in Refs /\ e \in Times
        BY ExpiryAssumption
        DEF InsertKey, Safe, Control, ControlAt, Provisioned, TypeOK, ProcsOK
    <2>3. row \in KeyRow
        BY <2>2 DEF KeyRow, KeyStatus
    <2>4. row # None
        BY <2>3, NoneAssumption
    <2>5. keys'[k] = row /\ \A j \in Keys : j # k => keys'[j] = keys[j]
        BY <2>1
    <2>6. QED
        BY <2>4, <2>5
<1>3. new[p] # None
    BY DEF InsertKey, Safe, Control, ControlAt, Provisioned
<1>4. \A q \in Procs : snap[q][k] = None
    BY <1>1 DEF Safe, KeysSafe, Ownership, Names, TypeOK, ProcsOK, KeyRow
<1>5. \A q \in Procs : ~Holds(q, k)
    BY <1>4, HolderHasRead, NoneAssumption
<1>6. TableOf(p)
    BY <1>1, <1>2, <1>3, <1>4, <1>5, LeftProcess DEF TableOf, Rewrites, Dead, NoKeys
<1>7. RowOf(p, k)
    <2>1. cur[p] = None
        BY DEF InsertKey, Safe, Control, ControlAt
    <2>2. LiveKey(k)'
        BY <1>1, <1>2, <1>3 DEF LiveKey, Safe, KeysSafe, Ownership
    <2>3. QED
        BY <1>1, <1>2, <2>1, <2>2 DEF RowOf, IssuesWorking
<1>8. QED
    BY <1>1, <1>6, <1>7, LeftProcess, TableStep

\* The writers' row is current, and no copy of it names a working credential.
LEMMA HeldRow ==
    ASSUME Safe, NEW p \in Procs, NEW k \in Keys, Holds(p, k)
    PROVE  /\ keys[k] = snap[p][k] /\ snap[p][k] \in KeyRow /\ ~LiveKey(k)
           /\ \A q \in Procs : snap[q][k] # None => snap[q][k].ref \notin live
           /\ \A q \in Procs : q # p => ~Holds(q, k)
           /\ k \in minted
<1>1. keys[k] = snap[p][k] /\ snap[p][k].ref \notin live
    BY DEF Safe, KeysSafe, NoLostUpdate, HoldIsExclusive
<1>2. snap[p][k] \in KeyRow /\ snap[p][k] # None
    BY HolderHasRead, NoneAssumption
<1>3. k \in minted
    BY <1>2 DEF Safe, KeysSafe, Ownership, Names, KeyRow
<1>4. QED
    BY <1>1, <1>2, <1>3 DEF Safe, KeysSafe, HoldIsExclusive, FreshCopies, LiveKey

\* A Save that the foreign key rejects writes nothing.
LEMMA SaveKeyRejectedKeys ==
    ASSUME Safe, TypeOK', NEW p \in Procs, SaveKey(p), ~ServerThere(p)
    PROVE  KeysKept
<1>1. keys' = keys /\ minted' = minted /\ PlaneOf(p)
    BY DEF SaveKey, outline, Safe, KeysSafe, Ownership, PlaneOf, LiveKey
<1>2. QED
    BY <1>1, LeavingKeys DEF SaveKey

LEMMA SaveKeyWrittenKeys ==
    ASSUME Safe, TypeOK', NEW p \in Procs, SaveKey(p), ServerThere(p)
    PROVE  KeysKept
<1>0. PICK k \in Keys : k = cur[p]
    BY DEF SaveKey, Safe, Control, ControlAt, TypeOK, ProcsOK
<1> DEFINE row == SavedRow(p, snap[p][k])
<1>1. Holds(p, k)
    BY <1>0, NoneAssumption DEF SaveKey, Safe, KeysSafe, WritersHold
<1>2. /\ keys[k] = snap[p][k] /\ snap[p][k] \in KeyRow /\ ~LiveKey(k) /\ k \in minted
      /\ \A q \in Procs : snap[q][k] # None => snap[q][k].ref \notin live
      /\ \A q \in Procs : q # p => ~Holds(q, k)
    BY <1>1, HeldRow
<1>3. /\ live' = live /\ minted' = minted
      /\ keys'[k] = row /\ \A j \in Keys : j # k => keys'[j] = keys[j]
    BY <1>0 DEF SaveKey, outline, Safe, TypeOK, TablesOK
<1>4. row \in KeyRow /\ row # None
    BY <1>0, SavedRowTyped, NoneAssumption DEF SaveKey, Safe
<1>5. /\ op[p] = "rotate" => row.ref = new[p] /\ row.status = "ACTIVE" /\ new[p] # None
      /\ op[p] # "rotate" => row.ref = snap[p][k].ref
    BY <1>2 DEF SavedRow, KeyRow, SaveKey, Safe, Control, ControlAt, Provisioned
<1>6. op[p] # "rotate" => row.ref \notin live /\ Names(k, row.ref)
    BY <1>2, <1>5, NoneAssumption DEF Names, LiveKey
<1>7. ~Dead(k) /\ RowOf(p, k)
    BY <1>0, <1>1, <1>3 DEF Dead, RowOf, IssuesWorking
<1>8. CASE op[p] \in {"revoke", "rotate"}
    <2>1. Return(p)
        BY <1>8 DEF SaveKey
    <2>2. TableOf(p)
        BY <1>1, <1>2, <1>3, <1>4, <1>5, <1>6, <1>7, <2>1, LeftProcess
        DEF TableOf, Rewrites, NoKeys
    <2>3. QED
        BY <1>7, <2>1, <2>2, LeftProcess, TableStep
<1>9. CASE op[p] \notin {"revoke", "rotate"}
    <2>1. /\ snap' = snap /\ todo' = todo /\ op' = op /\ new' = new /\ cur'[p] = None
          /\ pc'[p] = "revoke" /\ pc[p] = "save" /\ Others(p)
        BY <1>9 DEF SaveKey, Goto, Safe, TypeOK, ProcsOK, Others
    <2>2. new[p] = None
        BY <1>9, <2>1 DEF Safe, Control, ControlAt, Provisioned
    <2>3. \A q \in Procs : ~Holds(q, k)'
        BY <1>1, <1>2, <2>1, NoneAssumption DEF Holds, Others
    <2>4. Dead(k)'
        BY <1>2, <1>3, <1>6, <1>9, <2>3 DEF Dead, LiveKey
    <2>5. \A j \in Keys : j # k /\ Settled(p, j)' => Settled(p, j)
        BY <1>0, <2>1, NoneAssumption DEF Settled
    <2>6. TableOf(p)
        BY <1>1, <1>2, <1>3, <1>4, <1>6, <1>9, <2>1, <2>2, <2>4, <2>5
        DEF TableOf, Rewrites
    <2>7. QED
        BY <1>7, <2>1, <2>6, TableStep
<1>10. QED
    BY <1>8, <1>9

LEMMA SaveKeyKeys ==
    ASSUME Safe, TypeOK', NEW p \in Procs, SaveKey(p)
    PROVE  KeysKept
BY SaveKeyRejectedKeys, SaveKeyWrittenKeys

LEMMA DropKeyKeys ==
    ASSUME Safe, TypeOK', NEW p \in Procs, DropKey(p)
    PROVE  KeysKept
<1> DEFINE k == cur[p]
<1>1. k \in Keys /\ snap[p][k] # None
    BY DEF DropKey, Safe, Control, ControlAt, TypeOK, ProcsOK
<1>2. /\ \A q \in Procs : snap[q][k] # None => snap[q][k].ref \notin live
      /\ \A q \in Procs : q # p => ~Holds(q, k)
    <2>1. CASE snap[p][k].status = "ACTIVE"
        <3>1. Holds(p, k)
            BY <2>1 DEF DropKey, Holds
        <3>2. QED
            BY <1>1, <3>1, HeldRow
    <2>2. CASE snap[p][k].status # "ACTIVE"
        <3>1. Dead(k)
            BY <1>1, <2>2 DEF Safe, KeysSafe, EndedStaysDead
        <3>2. QED
            BY <1>1, <3>1 DEF Dead, LiveKey, Safe, KeysSafe, FreshCopies
    <2>3. QED
        BY <2>1, <2>2
<1>3. /\ Return(p) /\ live' = live /\ minted' = minted
      /\ keys'[k] = None /\ \A j \in Keys : j # k => keys'[j] = keys[j]
    BY <1>1 DEF DropKey, outline, Safe, TypeOK, TablesOK
<1>4. TableOf(p)
    BY <1>1, <1>2, <1>3, LeftProcess DEF TableOf, Rewrites, NoKeys
<1>5. RowOf(p, k)
    BY <1>3 DEF RowOf, IssuesWorking
<1>6. QED
    BY <1>1, <1>3, <1>4, <1>5, LeftProcess, TableStep

\* Saving a user may bring deleted rows back, never a working credential.
LEMMA SaveUserKeys ==
    ASSUME Safe, TypeOK', NEW p \in Procs, NEW e \in Expiries, SaveUser(p, e)
    PROVE  KeysKept
<1>1. /\ live' = live /\ minted' = minted
      /\ \A j \in Keys : keys'[j] = IF keys[j] = None THEN snap[p][j] ELSE keys[j]
    BY DEF SaveUser, Reinsert, outline, Safe, TypeOK, TablesOK
<1>2. /\ Others(p) /\ snap'[p] = NoKeys /\ new'[p] = None
      /\ pc'[p] \notin {"post", "label", "save", "drop"}
    <2>1. CASE op[p] = "update"
        BY <2>1, LeftProcess DEF SaveUser
    <2>2. CASE op[p] # "update"
        BY <2>2 DEF SaveUser, Goto, Others, Safe, TypeOK, ProcsOK, Control, ControlAt, Provisioned
    <2>3. QED
        BY <2>1, <2>2
<1>3. \A j \in Keys : keys[j] = None =>
         \A q \in Procs : (snap[q][j] # None => snap[q][j].ref \notin live) /\ ~Holds(q, j)
    <2>1. SUFFICES ASSUME NEW j \in Keys, keys[j] = None, NEW q \in Procs
                   PROVE  (snap[q][j] # None => snap[q][j].ref \notin live) /\ ~Holds(q, j)
        OBVIOUS
    <2>2. snap[q][j] # None => snap[q][j].ref \notin live
        BY <2>1 DEF Safe, KeysSafe, FreshCopies
    <2>3. ~Holds(q, j)
        BY <2>1, HeldRow, NoneAssumption
    <2>4. QED
        BY <2>2, <2>3
<1>4. \A j \in Keys : keys'[j] = keys[j] \/ Rewrites(p, j)
    BY <1>1, <1>3 DEF Rewrites, Names
<1>5. \A j \in Keys : keys'[j] # keys[j] /\ keys'[j] # None => keys'[j].ref # new[p]
    <2>1. new[p] = None
        BY DEF SaveUser, Safe, Control, ControlAt, Provisioned
    <2>2. \A j \in Keys : keys'[j] # None => keys'[j].ref \in Refs
        BY DEF TypeOK, TablesOK, KeyRow
    <2>3. QED
        BY <2>1, <2>2, NoneAssumption
<1>6. TableOf(p)
    BY <1>1, <1>2, <1>3, <1>4, <1>5 DEF TableOf, NoKeys
<1>7. RowOf(p, None)
    <2>1. cur[p] = None
        BY DEF SaveUser, Safe, Control, ControlAt
    <2>2. QED
        BY <1>1, <2>1 DEF RowOf, IssuesWorking
<1>8. QED
    BY <1>2, <1>6, <1>7, TableStep

-----------------------------------------------------------------------------
(* The theorems.                                                           *)

LEMMA NextKeeps ==
    ASSUME Safe, [Next]_vars
    PROVE  KeysKept /\ TypeOK' /\ Control'
<1>1. TypeOK' /\ Control'
    BY NextTyped DEF Safe
<1>2. ASSUME NEW p \in Procs, KeySteps(p) PROVE KeysKept
    BY <1>1, <1>2, CreateKeyKeys, GetKeyKeys, RevokeAcceptedKeys, RevokeNotFoundKeys,
       RevokeReplyLostKeys, PostAcceptedKeys, PostReplyLostKeys, LabelKeyKeys, InsertKeyKeys,
       InsertRejectedKeys, CleanupKeys, SaveKeyKeys, DropKeyKeys, FindExpiredKeysKeys,
       KeySweepDoneKeys
    DEF KeySteps
<1>3. ASSUME NEW p \in Procs, UserSteps(p) PROVE KeysKept
    BY <1>1, <1>3, GetUserKeys, PreloadKeysKeys, PreloadServersKeys, PreloadDevicesKeys,
       SaveUserKeys, SaveUserRejectedKeys, ListKeysKeys, ListDevicesKeys, SaveDeviceKeys,
       CascadeDoneKeys, DeleteUserKeys, FindExpiredUsersKeys, NextUserKeys, UserSweepDoneKeys,
       GetDeviceKeys, PutDeviceKeys
    DEF UserSteps
<1>4. ASSUME NEW p \in Procs, ServerSteps(p) PROVE KeysKept
    BY <1>1, <1>4, GetServerKeys, PutServerKeys DEF ServerSteps
<1>5. QED
    BY <1>1, <1>2, <1>3, <1>4, FailKeys, RestKeys DEF Next

LEMMA InitSafe == Init => Safe
<1>1. Init => KeysSafe
    BY DEF Init, KeysSafe, Ownership, RevokedIsDead, FreshCopies, WritersHold, HoldIsExclusive,
       NoLostUpdate, EndedStaysDead, Names, Holds, LiveKey, NoKeys
<1>2. QED
    BY <1>1, InitTyped DEF Safe

\* Safe is an inductive invariant: whatever requests run concurrently, and
\* whichever of their calls to Outline and PostgreSQL fail or lose their
\* reply, the DELETE of a credential acts as a lock on its access key.
THEOREM SafeAlways == Spec => []Safe
<1>1. Safe /\ [Next]_vars => Safe'
    BY NextKeeps DEF KeysKept, Safe
<1>2. QED
    BY <1>1, InitSafe, PTL DEF Spec

\* Under a row that Revoke, a cascade or a sweep has marked REVOKED or
\* EXPIRED no credential works, at any time.
THEOREM RevokedIsDeadAlways == Spec => []RevokedIsDead
<1>1. Safe => RevokedIsDead
    BY DEF Safe, KeysSafe
<1>2. QED
    BY <1>1, SafeAlways, PTL

\* The unlocked read-call-save of Revoke, Rotate, Delete and the cascades
\* never overwrites a change of access_keys it has not seen.
THEOREM NoLostUpdateAlways == Spec => []NoLostUpdate
<1>1. Safe => NoLostUpdate
    BY DEF Safe, KeysSafe
<1>2. QED
    BY <1>1, SafeAlways, PTL

\* When revokeAllAccess has gone through its keys, none of them works.
THEOREM CascadeRevokesListedAlways == Spec => []CascadeRevokesListed
<1>1. ASSUME Safe, NEW p \in Procs, NEW k \in Keys,
             pc[p] \in {"dsave", "udelete"}, snap[p][k] # None
      PROVE  ~LiveKey(k)
    <2>1. op[p] \in CascadeOps /\ todo[p] = {} /\ cur[p] = None
        BY <1>1 DEF Safe, Control, ControlAt
    <2>2. Settled(p, k)
        BY <1>1, <2>1, NoneAssumption DEF Settled
    <2>3. QED
        BY <1>1, <2>2 DEF Safe, KeysSafe, EndedStaysDead, Dead
<1>2. Safe => CascadeRevokesListed
    BY <1>1 DEF CascadeRevokesListed
<1>3. QED
    BY <1>2, SafeAlways, PTL

\* A key that has been revoked, expired or deleted never works again, for
\* all that Rotate writes ACTIVE unconditionally and the Save of a user
\* inserts deleted keys again.
THEOREM RevocationFinal == Spec => RevocationIsFinal
<1>1. ASSUME NEW k \in Keys PROVE Spec => [](Ended(k) => []~LiveKey(k))
    <2>1. Safe /\ Ended(k) => Dead(k)
        BY EndedIsDead DEF Ended
    <2>2. Safe /\ Dead(k) /\ [Next]_vars => Dead(k)'
        BY NextKeeps DEF KeysKept
    <2>3. Dead(k) => ~LiveKey(k)
        BY DEF Dead
    <2>4. QED
        BY <2>1, <2>2, <2>3, SafeAlways, PTL DEF Spec
<1>2. QED
    BY <1>1 DEF RevocationIsFinal

\* Each key that revokeAllAccess has listed and gone past is cut off for good,
\* whatever becomes of the cascade.
THEOREM CascadeFinal == Spec => CascadeIsFinal
<1>1. ASSUME NEW p \in Procs, NEW k \in Keys
      PROVE  Spec => [](snap[p][k] # None /\ Settled(p, k) => []~LiveKey(k))
    <2>1. Safe /\ snap[p][k] # None /\ Settled(p, k) => Dead(k)
        BY DEF Safe, KeysSafe, EndedStaysDead
    <2>2. Safe /\ Dead(k) /\ [Next]_vars => Dead(k)'
        BY NextKeeps DEF KeysKept
    <2>3. Dead(k) => ~LiveKey(k)
        BY DEF Dead
    <2>4. QED
        BY <2>1, <2>2, <2>3, SafeAlways, PTL DEF Spec
<1>2. QED
    BY <1>1 DEF CascadeIsFinal

\* A key recorded as revoked, expired or deleted is dead: it does not work and
\* no running Rotate has a new credential for it.
THEOREM EndedForGoodAlways == Spec => []EndedForGood
<1>1. Safe => EndedForGood
    BY EndedIsDead DEF EndedForGood, Ended
<1>2. QED
    BY <1>1, SafeAlways, PTL

-----------------------------------------------------------------------------
(* The refinement.                                                         *)

\* A step that issues or ends one key at most, and none that has ended, is a
\* step of the abstract life cycle.
LEMMA LifecycleStep ==
    ASSUME KeysKept
    PROVE  [Lifecycle!Next]_Phase
<1>1. PICK c \in Keys \cup {None} : OnlyChanges(c)
    BY DEF KeysKept
<1>2. \A j \in Keys : j # c => Phase'[j] = Phase[j]
    BY <1>1 DEF KeysKept, OnlyChanges, Phase
<1>3. CASE c \notin Keys \/ Phase'[c] = Phase[c]
    <2>1. Phase' = Phase
        BY <1>2, <1>3 DEF Phase
    <2>2. QED
        BY <2>1
<1>4. CASE c \in Keys /\ Phase'[c] # Phase[c]
    <2>1. \/ Phase[c] = "new" /\ Phase'[c] = "working"
          \/ Phase[c] = "working" /\ Phase'[c] = "ended"
        BY <1>4 DEF KeysKept, IssuesWorking, Phase, Dead
    <2>2. Phase' = [Phase EXCEPT ![c] = Phase'[c]]
        BY <1>2, <1>4 DEF Phase
    <2>3. QED
        BY <1>4, <2>1, <2>2 DEF Lifecycle!Next, Lifecycle!Issue, Lifecycle!End
<1>5. QED
    BY <1>3, <1>4

\* The services, with every interleaving and failure of their calls,
\* implement the abstract life cycle of an access key.
THEOREM LifecycleImplemented == Spec => ImplementsLifecycle
<1>1. Init => Lifecycle!Init
    BY DEF Init, Phase, Lifecycle!Init
<1>2. Safe /\ [Next]_vars => [Lifecycle!Next]_Phase
    BY NextKeeps, LifecycleStep
<1>3. QED
    BY <1>1, <1>2, SafeAlways, PTL DEF Spec, ImplementsLifecycle, Lifecycle!Spec
=============================================================================
