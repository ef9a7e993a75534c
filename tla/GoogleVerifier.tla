--------------------------- MODULE GoogleVerifier ---------------------------
(***************************************************************************)
(* The cache of Google's signing keys (internal/auth/google.go).  Logins   *)
(* share it; a login whose key is not in it, or that finds it expired,     *)
(* fetches Google's current keys, with the lock released, and replaces the *)
(* cache.  A token is its key id: the other checks of Verify depend on the *)
(* token alone.                                                            *)
(***************************************************************************)
EXTENDS Integers

CONSTANTS
    Kids,        \* ids of signing keys
    Logins,      \* concurrent logins
    None,        \* nothing
    Ages,        \* cache durations: max-age of a response, or one hour
    MaxAge,      \* the longest of them
    FetchTime,   \* the HTTP client's timeout
    LockTime,    \* the longest a refresh takes from body to cache: nothing in
                 \* the code bounds it, it is an assumption on scheduling
    MaxTime      \* bound on the clock

ASSUME VerifierAssumption ==
    /\ None \notin Kids
    /\ Ages \subseteq Nat /\ MaxAge \in Nat /\ \A a \in Ages : a <= MaxAge
    /\ FetchTime \in Nat /\ LockTime \in Nat
    /\ MaxTime \in Nat

VARIABLES
    published,   \* the keys Google serves
    withdrawn,   \* when Google last stopped serving each key
    cached,      \* v.keys
    expiresAt,   \* v.expiresAt
    now,         \* the clock
    pc,          \* the step a login takes next
    kid,         \* the key id of its token
    sent,        \* when it sent its request for the keys
    fetched      \* the keys it received

vars == <<published, withdrawn, cached, expiresAt, now, pc, kid, sent, fetched>>

TypeOK ==
    /\ published \subseteq Kids
    /\ withdrawn \in [Kids -> Nat]
    /\ cached \subseteq Kids
    /\ expiresAt \in Int
    /\ now \in Nat
    /\ pc \in [Logins -> {"idle", "get", "install", "again", "accepted", "rejected"}]
    /\ kid     \in [Logins -> Kids \cup {None}]
    /\ sent    \in [Logins -> Nat]
    /\ fetched \in [Logins -> SUBSET Kids]

\* The cache is empty and its expiry is the zero time.
Init ==
    /\ published \in SUBSET Kids
    /\ withdrawn = [k \in Kids |-> 0]
    /\ cached = {}
    /\ expiresAt = -1
    /\ now = 0
    /\ pc      = [p \in Logins |-> "idle"]
    /\ kid     = [p \in Logins |-> None]
    /\ sent    = [p \in Logins |-> 0]
    /\ fetched = [p \in Logins |-> {}]

\* cachedKey, under the read lock.
CachedKey(k) == now <= expiresAt /\ k \in cached

\* Verify a token signed by k: keyFunc looks into the cache first.
Verify(p, k) ==
    /\ pc[p] \in {"idle", "accepted", "rejected"}
    /\ kid'  = [kid EXCEPT ![p] = k]
    /\ pc'   = [pc EXCEPT ![p] = IF CachedKey(k) THEN "accepted" ELSE "get"]
    /\ sent' = [sent EXCEPT ![p] = now]
    /\ UNCHANGED <<published, withdrawn, cached, expiresAt, now, fetched>>

\* refreshKeys: Google answers with the keys it serves at that moment, or
\* with an error in JSON, which counts as no keys: the status is not checked.
Fetch(p) ==
    /\ pc[p] = "get"
    /\ \E S \in {published, {}} : fetched' = [fetched EXCEPT ![p] = S]
    /\ pc'      = [pc EXCEPT ![p] = "install"]
    /\ UNCHANGED <<published, withdrawn, cached, expiresAt, now, kid, sent>>

\* The request fails or times out, or the body cannot be read or parsed.
FetchFails(p) ==
    /\ pc[p] \in {"get", "install"}
    /\ pc'      = [pc EXCEPT ![p] = "rejected"]
    /\ fetched' = [fetched EXCEPT ![p] = {}]
    /\ UNCHANGED <<published, withdrawn, cached, expiresAt, now, kid, sent>>

\* Mutant of Install: the keys are added to the map, which is not replaced.
InstallMerges(p, a) ==
    /\ pc[p] = "install"
    /\ cached'    = cached \cup fetched[p]
    /\ expiresAt' = now + a
    /\ pc'        = [pc EXCEPT ![p] = "again"]
    /\ fetched'   = [fetched EXCEPT ![p] = {}]
    /\ UNCHANGED <<published, withdrawn, now, kid, sent>>

\* The cache is replaced, under the write lock.
Install(p, a) ==
    /\ pc[p] = "install"
    /\ cached'    = fetched[p]
    /\ expiresAt' = now + a
    /\ pc'        = [pc EXCEPT ![p] = "again"]
    /\ fetched'   = [fetched EXCEPT ![p] = {}]
    /\ UNCHANGED <<published, withdrawn, now, kid, sent>>

\* keyFunc looks again; what it finds need not be what it installed.
LookAgain(p) ==
    /\ pc[p] = "again"
    /\ pc' = [pc EXCEPT ![p] = IF CachedKey(kid[p]) THEN "accepted" ELSE "rejected"]
    /\ UNCHANGED <<published, withdrawn, cached, expiresAt, now, kid, sent, fetched>>

\* Google rotates its keys.
Rotate(S) ==
    /\ published' = S
    /\ withdrawn' = [k \in Kids |-> IF k \in published \ S THEN now ELSE withdrawn[k]]
    /\ UNCHANGED <<cached, expiresAt, now, pc, kid, sent, fetched>>

\* Time passes.  The client's timeout bounds the wait for the response and the
\* reading of its body; decoding it and waiting for the write lock come after.
Tick ==
    /\ now < MaxTime
    /\ \A p \in Logins :
          /\ pc[p] = "get"     => now - sent[p] < FetchTime
          /\ pc[p] = "install" => now - sent[p] < FetchTime + LockTime
    /\ now' = now + 1
    /\ UNCHANGED <<published, withdrawn, cached, expiresAt, pc, kid, sent, fetched>>

Next ==
    \/ \E p \in Logins :
          \/ \E k \in Kids : Verify(p, k)
          \/ Fetch(p)
          \/ FetchFails(p)
          \/ \E a \in Ages : Install(p, a)
          \/ LookAgain(p)
    \/ \E S \in SUBSET Kids : Rotate(S)
    \/ Tick

Spec == Init /\ [][Next]_vars

-----------------------------------------------------------------------------
(* Properties.                                                             *)

\* The last moment at which Google served k.
LastServed(k) == IF k \in published THEN now ELSE withdrawn[k]

\* A refresh that is slow may replace newer keys by older ones and gives them
\* a fresh expiry; still, no token is accepted under a key that Google has
\* withdrawn longer ago than a cache duration, one timeout and the time that
\* the refresh is held up between the response and the cache.
WithdrawnKeyExpires ==
    \A k \in Kids : CachedKey(k) => now <= LastServed(k) + FetchTime + LockTime + MaxAge
=============================================================================
