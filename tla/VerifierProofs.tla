--------------------------- MODULE VerifierProofs ---------------------------
(* How long a withdrawn signing key is trusted, for any number of logins,  *)
(* keys and any durations.                                                 *)
EXTENDS GoogleVerifier, TLAPS

\* What is in the cache, or on its way to it, was served by Google recently
\* enough when it was asked for.
CacheInv ==
    /\ \A k \in cached : expiresAt <= LastServed(k) + FetchTime + LockTime + MaxAge
    /\ \A p \in Logins : sent[p] <= now
    /\ \A p \in Logins : pc[p] = "get"     => now - sent[p] <= FetchTime
    /\ \A p \in Logins : pc[p] = "install" => now - sent[p] <= FetchTime + LockTime
    /\ \A p \in Logins : \A k \in fetched[p] :
          pc[p] = "install" /\ sent[p] <= LastServed(k)

\* Google has withdrawn no key in the future.
PastOnly == \A k \in Kids : withdrawn[k] <= now

VerifierInv == TypeOK /\ PastOnly /\ CacheInv

LEMMA InitVerifier == Init => VerifierInv
BY VerifierAssumption DEF Init, VerifierInv, TypeOK, PastOnly, CacheInv

LEMMA NextTyped == TypeOK /\ [Next]_vars => TypeOK'
<1> SUFFICES ASSUME TypeOK, [Next]_vars PROVE TypeOK'
    OBVIOUS
<1> USE VerifierAssumption DEF TypeOK
<1>1. ASSUME NEW p \in Logins, NEW k \in Kids, Verify(p, k) PROVE TypeOK'
    BY <1>1 DEF Verify
<1>2. ASSUME NEW p \in Logins, Fetch(p) \/ FetchFails(p) \/ LookAgain(p) PROVE TypeOK'
    BY <1>2 DEF Fetch, FetchFails, LookAgain
<1>3. ASSUME NEW p \in Logins, NEW a \in Ages, Install(p, a) PROVE TypeOK'
    BY <1>3 DEF Install
<1>4. ASSUME NEW S \in SUBSET Kids, Rotate(S) PROVE TypeOK'
    BY <1>4 DEF Rotate
<1>5. CASE Tick \/ UNCHANGED vars
    BY <1>5 DEF Tick, vars
<1>6. QED
    BY <1>1, <1>2, <1>3, <1>4, <1>5 DEF Next

\* The last moment a key was served only moves forward.
LEMMA ServedGrows ==
    ASSUME TypeOK, [Next]_vars, NEW k \in Kids, withdrawn[k] <= now
    PROVE  /\ LastServed(k) \in Nat /\ LastServed(k)' \in Nat
           /\ LastServed(k) <= LastServed(k)'
<1> USE DEF TypeOK, LastServed
<1>1. ASSUME NEW S \in SUBSET Kids, Rotate(S)
      PROVE  LastServed(k)' \in Nat /\ LastServed(k) <= LastServed(k)'
    BY <1>1 DEF Rotate
<1>2. CASE Tick
    BY <1>2 DEF Tick
<1>3. CASE published' = published /\ withdrawn' = withdrawn /\ now' = now
    BY <1>3
<1>4. QED
    BY <1>1, <1>2, <1>3
    DEF Next, Verify, Fetch, FetchFails, Install, LookAgain, vars

LEMMA NextPast == TypeOK /\ PastOnly /\ [Next]_vars => PastOnly'
<1> SUFFICES ASSUME TypeOK, PastOnly, [Next]_vars PROVE PastOnly'
    OBVIOUS
<1> USE DEF TypeOK, PastOnly
<1>1. ASSUME NEW S \in SUBSET Kids, Rotate(S) PROVE PastOnly'
    BY <1>1 DEF Rotate
<1>2. CASE Tick
    BY <1>2 DEF Tick
<1>3. CASE withdrawn' = withdrawn /\ now' = now
    BY <1>3
<1>4. QED
    BY <1>1, <1>2, <1>3
    DEF Next, Verify, Fetch, FetchFails, Install, LookAgain, vars

LEMMA NextCache ==
    ASSUME TypeOK, PastOnly, CacheInv, [Next]_vars
    PROVE  CacheInv'
<1>1. \A k \in Kids : /\ LastServed(k) \in Nat /\ LastServed(k)' \in Nat
                      /\ LastServed(k) <= LastServed(k)'
    BY ServedGrows DEF PastOnly
<1>2. ASSUME NEW p \in Logins, NEW k \in Kids, Verify(p, k) PROVE CacheInv'
    BY <1>1, <1>2, VerifierAssumption DEF TypeOK, CacheInv, Verify
<1>3. ASSUME NEW p \in Logins, Fetch(p) PROVE CacheInv'
    <2>1. \A k \in published : sent[p] <= LastServed(k)'
        BY <1>3 DEF Fetch, LastServed, TypeOK, CacheInv
    <2>2. QED
        BY <1>1, <1>3, <2>1, VerifierAssumption DEF TypeOK, CacheInv, Fetch
<1>4. ASSUME NEW p \in Logins, FetchFails(p) \/ LookAgain(p) PROVE CacheInv'
    BY <1>1, <1>4, VerifierAssumption DEF TypeOK, CacheInv, FetchFails, LookAgain
<1>5. ASSUME NEW p \in Logins, NEW a \in Ages, Install(p, a) PROVE CacheInv'
    <2>1. \A k \in fetched[p] : expiresAt' <= LastServed(k)' + FetchTime + LockTime + MaxAge
        BY <1>1, <1>5, VerifierAssumption DEF TypeOK, CacheInv, Install
    <2>2. QED
        BY <1>1, <1>5, <2>1, VerifierAssumption DEF TypeOK, CacheInv, Install
<1>6. ASSUME NEW S \in SUBSET Kids, Rotate(S) PROVE CacheInv'
    BY <1>1, <1>6, VerifierAssumption DEF TypeOK, CacheInv, Rotate
<1>7. CASE Tick \/ UNCHANGED vars
    BY <1>1, <1>7, VerifierAssumption DEF TypeOK, CacheInv, Tick, vars
<1>8. QED
    BY <1>2, <1>3, <1>4, <1>5, <1>6, <1>7 DEF Next

\* However many logins refresh the cache concurrently, and however late a
\* slow refresh replaces newer keys by older ones, no token is accepted under
\* a key withdrawn longer ago than MaxAge, the client's timeout and the time
\* LockTime in which a refresh decodes the response and gets the lock.
THEOREM WithdrawnKeyExpiresAlways == Spec => []WithdrawnKeyExpires
<1>1. VerifierInv /\ [Next]_vars => VerifierInv'
    BY NextTyped, NextPast, NextCache DEF VerifierInv
<1>2. VerifierInv => WithdrawnKeyExpires
    BY VerifierAssumption
    DEF VerifierInv, TypeOK, PastOnly, CacheInv, WithdrawnKeyExpires, CachedKey, LastServed
<1>3. QED
    BY <1>1, <1>2, InitVerifier, PTL DEF Spec
=============================================================================
