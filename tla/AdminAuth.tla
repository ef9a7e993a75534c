----------------------------- MODULE AdminAuth -----------------------------
(***************************************************************************)
(* Administrators: Google login (internal/services/auth_service.go), the   *)
(* session tokens it issues (internal/auth/session.go), RequireAuth and    *)
(* RequireRole (internal/middleware/auth.go) and PATCH /admins/:id         *)
(* (internal/services/admin_service.go).  The program never inserts or     *)
(* removes an administrator.  Google's verdict on an ID token is external: *)
(* any provisioned account may sign in at any time.                        *)
(***************************************************************************)
EXTENDS Integers

CONSTANTS
    Admins,        \* rows of the table admins
    Requests,      \* concurrent HTTP requests
    None,          \* nil
    SessionLife,   \* JWT_EXPIRY
    MaxTime        \* bound on the clock

Roles    == {"ADMIN", "OPERATOR", "VIEWER"}
Statuses == {"ACTIVE", "DISABLED"}
Row      == [role : Roles, status : Statuses]

\* What a PATCH asks for; None leaves the column as it is.  The table's CHECK
\* constraints reject any other value.
Asks == [role : Roles \cup {None}, status : Statuses \cup {None}]

ASSUME AdminAssumption ==
    /\ None \notin Roles \cup Statuses \cup Row \cup Asks \cup Admins
    /\ SessionLife \in Nat
    /\ MaxTime \in Nat

VARIABLES
    admins,     \* the table admins
    sessions,   \* the session tokens ever issued: subject and expiry
    now,        \* the clock
    pc,         \* the call a request makes next
    who,        \* the row it works on
    copy,       \* that row as it was read
    ask         \* what it asks for

vars == <<admins, sessions, now, pc, who, copy, ask>>

TypeOK ==
    /\ admins \in [Admins -> Row]
    /\ sessions \subseteq [sub : Admins, exp : Nat]
    /\ now \in Nat
    /\ pc \in [Requests -> {"idle", "loginsave", "issue", "get", "save"}]
    /\ who  \in [Requests -> Admins \cup {None}]
    /\ copy \in [Requests -> Row \cup {None}]
    /\ ask  \in [Requests -> Asks \cup {None}]

Init ==
    /\ admins \in [Admins -> Row]
    /\ sessions = {}
    /\ now = 0
    /\ pc   = [p \in Requests |-> "idle"]
    /\ who  = [p \in Requests |-> None]
    /\ copy = [p \in Requests |-> None]
    /\ ask  = [p \in Requests |-> None]

Finish(p) ==
    /\ pc'   = [pc EXCEPT ![p] = "idle"]
    /\ who'  = [who EXCEPT ![p] = None]
    /\ copy' = [copy EXCEPT ![p] = None]
    /\ ask'  = [ask EXCEPT ![p] = None]

-----------------------------------------------------------------------------
(* LoginWithGoogle.                                                        *)

\* The account is provisioned and ACTIVE; the row is kept for the profile update.
FindByGoogleSub(p, a) ==
    /\ pc[p] = "idle" /\ admins[a].status = "ACTIVE"
    /\ pc'   = [pc EXCEPT ![p] = "loginsave"]
    /\ who'  = [who EXCEPT ![p] = a]
    /\ copy' = [copy EXCEPT ![p] = admins[a]]
    /\ UNCHANGED <<admins, sessions, now, ask>>

\* The profile update saves the whole row, role and status included.
SaveProfile(p) ==
    /\ pc[p] = "loginsave"
    /\ admins' = [admins EXCEPT ![who[p]] = copy[p]]
    /\ pc'     = [pc EXCEPT ![p] = "issue"]
    /\ UNCHANGED <<sessions, now, who, copy, ask>>

Issue(p) ==
    /\ pc[p] = "issue"
    /\ sessions' = sessions \cup {[sub |-> who[p], exp |-> now + SessionLife]}
    /\ Finish(p)
    /\ UNCHANGED <<admins, now>>

-----------------------------------------------------------------------------
(* PATCH /admins/:id.                                                      *)

\* Verify: the token, which only Issue can have signed, has not expired.
ValidToken(s) == now < s.exp

\* Mutant of Authorize: the route lacks RequireRole.
AuthorizeAnyRole(p, s, a, k) ==
    /\ pc[p] = "idle" /\ ValidToken(s)
    /\ admins[s.sub].status = "ACTIVE"
    /\ pc'  = [pc EXCEPT ![p] = "get"]
    /\ who' = [who EXCEPT ![p] = a]
    /\ ask' = [ask EXCEPT ![p] = k]
    /\ UNCHANGED <<admins, sessions, now, copy>>

\* The token is valid, and its subject, re-read from the table, is
\* ACTIVE (RequireAuth) and ADMIN (RequireRole).
Authorize(p, s, a, k) ==
    /\ pc[p] = "idle" /\ ValidToken(s)
    /\ admins[s.sub].status = "ACTIVE" /\ admins[s.sub].role = "ADMIN"
    /\ pc'  = [pc EXCEPT ![p] = "get"]
    /\ who' = [who EXCEPT ![p] = a]
    /\ ask' = [ask EXCEPT ![p] = k]
    /\ UNCHANGED <<admins, sessions, now, copy>>

Get(p) ==
    /\ pc[p] = "get"
    /\ pc'   = [pc EXCEPT ![p] = "save"]
    /\ copy' = [copy EXCEPT ![p] = admins[who[p]]]
    /\ UNCHANGED <<admins, sessions, now, who, ask>>

\* Mutant of Patched: the nil checks are missing.
PatchedUnguarded(row, k) == [role |-> k.role, status |-> k.status]

\* The row read, with the columns the request names replaced.
Patched(row, k) ==
    [role   |-> IF k.role = None THEN row.role ELSE k.role,
     status |-> IF k.status = None THEN row.status ELSE k.status]

Update(p) ==
    /\ pc[p] = "save"
    /\ admins' = [admins EXCEPT ![who[p]] = Patched(copy[p], ask[p])]
    /\ Finish(p)
    /\ UNCHANGED <<sessions, now>>

-----------------------------------------------------------------------------
\* A database call fails, the request is cancelled or the server dies.
Abort(p) ==
    /\ pc[p] # "idle"
    /\ Finish(p)
    /\ UNCHANGED <<admins, sessions, now>>

Tick ==
    /\ now < MaxTime
    /\ now' = now + 1
    /\ UNCHANGED <<admins, sessions, pc, who, copy, ask>>

Next ==
    \/ \E p \in Requests :
          \/ \E a \in Admins : FindByGoogleSub(p, a)
          \/ SaveProfile(p)
          \/ Issue(p)
          \/ \E s \in sessions, a \in Admins, k \in Asks : Authorize(p, s, a, k)
          \/ Get(p)
          \/ Update(p)
          \/ Abort(p)
    \/ Tick

Spec == Init /\ [][Next]_vars

-----------------------------------------------------------------------------
(* Properties.                                                             *)

\* An administrator's role and status change only to what a PATCH of that
\* administrator asks for; in particular a login leaves them alone.
OnlyPatchChanges ==
    [][\A a \in Admins : admins'[a] # admins[a] =>
          \E p \in Requests :
             /\ pc[p] = "save" /\ who[p] = a
             /\ admins'[a] = Patched(admins[a], ask[p])]_vars

CanAdminister(row) == row.role = "ADMIN" /\ row.status = "ACTIVE"

NoAdministrator == \A a \in Admins : ~CanAdminister(admins[a])

\* A PATCH that an ACTIVE ADMIN was authorized to make is under way.
Patching == \E p \in Requests : pc[p] \in {"get", "save"}

\* Those who can administer, or whom a login under way read when they could
\* and may write back as such, whatever was done to them meanwhile.
Candidates ==
    {a \in Admins : \/ CanAdminister(admins[a])
                     \/ \E p \in Requests : /\ pc[p] = "loginsave" /\ who[p] = a
                                              /\ CanAdminister(copy[p])}

\* Without a PATCH nobody joins those who can administer, though every login
\* saves the whole row, read earlier, and tokens outlive a demotion.  While
\* nobody can, no PATCH starts.  So when the last ACTIVE ADMIN is demoted or
\* disabled and the PATCHes have ended, only a login that had read its row
\* before and is still under way brings that one administrator back; when none
\* is, the lockout is for good, and only SQL ends it.
OnlyLateLoginRestores ==
    [][~Patching => /\ Candidates' \subseteq Candidates
                    /\ NoAdministrator => ~Patching']_vars
=============================================================================
