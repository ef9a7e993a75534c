---------------------------- MODULE RateLimiter ----------------------------
(***************************************************************************)
(* The per-client rate limiter (internal/middleware/ratelimit.go): a map   *)
(* from client IPs to token buckets, guarded by a mutex, that a goroutine  *)
(* started by main replaces by an empty one every ten minutes.  A request  *)
(* fetches its bucket under the mutex and takes a token after releasing    *)
(* it, so it may take it from a bucket that has left the map meanwhile.    *)
(***************************************************************************)
EXTENDS Integers, FiniteSets

CONSTANTS
    Clients,    \* client IPs
    Requests,   \* concurrent requests
    Limiters,   \* rate.Limiter objects; unreachable ones are used again
    None,       \* no entry in the map, no limiter
    Rate,       \* tokens a bucket gains per unit of time (RATE_LIMIT_RPS)
    Burst,      \* tokens a bucket holds (RATE_LIMIT_BURST)
    MaxTime     \* bound on the clock

ASSUME NoLimiterAssumption == None \notin Limiters \cup Clients

ASSUME RateAssumption == Rate \in Nat /\ Burst \in Nat /\ MaxTime \in Nat

ASSUME RequestsAssumption == IsFiniteSet(Requests)

VARIABLES
    limiters,   \* the map: each client's limiter
    bucket,     \* the state of each limiter object
    client,     \* the client of each request that has fetched its limiter
    held,       \* the limiter it fetched
    now,        \* the clock
    swept,      \* when the map was last emptied
    admitted,   \* history: requests of each client admitted since then
    late        \* history: those that held a limiter when it was emptied

vars == <<limiters, bucket, client, held, now, swept, admitted, late>>

Bucket == [tokens : 0..Burst, last : Nat]

\* Every request in flight holds a limiter, and every limiter in the map or in
\* a request is a token bucket of at most Burst tokens filled in the past.
TypeOK ==
    /\ limiters \in [Clients -> Limiters \cup {None}]
    /\ bucket   \in [Limiters -> Bucket]
    /\ client   \in [Requests -> Clients \cup {None}]
    /\ held     \in [Requests -> Limiters \cup {None}]
    /\ \A r \in Requests : client[r] = None <=> held[r] = None
    /\ now \in Nat /\ swept \in 0..now
    /\ \A l \in Limiters : bucket[l].last <= now
    /\ admitted \in [Clients -> Nat]
    /\ late \in [Clients -> Nat]

Init ==
    /\ limiters = [c \in Clients |-> None]
    /\ bucket   = [l \in Limiters |-> [tokens |-> 0, last |-> 0]]
    /\ client   = [r \in Requests |-> None]
    /\ held     = [r \in Requests |-> None]
    /\ now = 0 /\ swept = 0
    /\ admitted = [c \in Clients |-> 0]
    /\ late     = [c \in Clients |-> 0]

-----------------------------------------------------------------------------

\* The tokens of limiter l at this moment: it refills with time up to Burst.
Tokens(l) ==
    LET filled == bucket[l].tokens + Rate * (now - bucket[l].last)
    IN  IF filled < Burst THEN filled ELSE Burst

Reachable(l) == (\E c \in Clients : limiters[c] = l) \/ (\E r \in Requests : held[r] = l)

\* Mutant of Store: the new limiter is not put into the map.
StoreNothing(c, l) == UNCHANGED limiters

Store(c, l) == limiters' = [limiters EXCEPT ![c] = l]

\* Mutant of Lookup: one limiter serves all clients.
LookupAny(c, l) == \E d \in Clients : limiters[d] = l

Lookup(c, l) == limiters[c] = l

\* limiterFor, under the mutex: the client's limiter is in the map, ...
LimiterKnown(r, c, l) ==
    /\ client[r] = None /\ Lookup(c, l)
    /\ client' = [client EXCEPT ![r] = c]
    /\ held'   = [held EXCEPT ![r] = l]
    /\ UNCHANGED <<limiters, bucket, now, swept, admitted, late>>

\* ... or a new one, with a full bucket, is put there.
LimiterNew(r, c, l) ==
    /\ client[r] = None /\ ~\E m \in Limiters : Lookup(c, m)
    /\ ~Reachable(l)
    /\ Store(c, l)
    /\ bucket' = [bucket EXCEPT ![l] = [tokens |-> Burst, last |-> now]]
    /\ client' = [client EXCEPT ![r] = c]
    /\ held'   = [held EXCEPT ![r] = l]
    /\ UNCHANGED <<now, swept, admitted, late>>

\* Allow takes a token and the request goes on to its handler.
Admit(r) ==
    /\ held[r] # None /\ Tokens(held[r]) >= 1
    /\ bucket'   = [bucket EXCEPT ![held[r]] = [tokens |-> Tokens(held[r]) - 1, last |-> now]]
    /\ admitted' = [admitted EXCEPT ![client[r]] = @ + 1]
    /\ client' = [client EXCEPT ![r] = None]
    /\ held'   = [held EXCEPT ![r] = None]
    /\ UNCHANGED <<limiters, now, swept, late>>

\* No token: 429.
Refuse(r) ==
    /\ held[r] # None /\ Tokens(held[r]) < 1
    /\ client' = [client EXCEPT ![r] = None]
    /\ held'   = [held EXCEPT ![r] = None]
    /\ UNCHANGED <<limiters, bucket, now, swept, admitted, late>>

\* StartCleanup: a tick of the ticker, handled at some time or other after it
\* fires, empties the map, whether or not its limiters are idle.
Cleanup ==
    /\ limiters' = [c \in Clients |-> None]
    /\ swept'    = now
    /\ admitted' = [c \in Clients |-> 0]
    /\ late'     = [c \in Clients |-> Cardinality({r \in Requests : client[r] = c})]
    /\ UNCHANGED <<bucket, client, held, now>>

Tick ==
    /\ now < MaxTime
    /\ now' = now + 1
    /\ UNCHANGED <<limiters, bucket, client, held, swept, admitted, late>>

Next ==
    \/ \E r \in Requests, c \in Clients, l \in Limiters :
          LimiterKnown(r, c, l) \/ LimiterNew(r, c, l)
    \/ \E r \in Requests : Admit(r) \/ Refuse(r)
    \/ Cleanup
    \/ Tick

Spec == Init /\ [][Next]_vars

-----------------------------------------------------------------------------

\* However requests race with each other and with the cleanup, a client gets
\* no more through between two cleanups than one bucket gives, plus one
\* request for each that had already fetched its limiter when the map was
\* emptied.  Each cleanup gives a busy client a full burst again.
RateBounded ==
    \A c \in Clients : admitted[c] <= Burst + Rate * (now - swept) + late[c]

\* Other clients cost a client nothing: what it has not yet used of its burst
\* since the last cleanup is in its bucket.
BurstKept ==
    \A c \in Clients : limiters[c] # None => Tokens(limiters[c]) + admitted[c] >= Burst

-----------------------------------------------------------------------------
(* The inductive invariant behind RateBounded.                             *)

\* Requests of c in flight with a limiter that is no longer in the map.
Stragglers(c) == {r \in Requests : client[r] = c /\ held[r] # limiters[c]}

\* A limiter belongs to one client.
OneOwner ==
    /\ \A c, d \in Clients : limiters[c] # None /\ limiters[c] = limiters[d] => c = d
    /\ \A r \in Requests, d \in Clients : held[r] # None /\ held[r] = limiters[d] => client[r] = d

\* Admissions, the tokens left and the stragglers still to come share the
\* bound.
Budget ==
    \A c \in Clients :
        admitted[c] + Cardinality(Stragglers(c))
          + (IF limiters[c] = None THEN 0 ELSE Tokens(limiters[c]))
        <= late[c] + (IF limiters[c] = None THEN 0 ELSE Burst + Rate * (now - swept))

\* The requests, the map and the buckets agree on who owns what, and no token
\* is spent twice.
Accounted == TypeOK /\ OneOwner /\ Budget
=============================================================================
