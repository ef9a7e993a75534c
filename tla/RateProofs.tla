----------------------------- MODULE RateProofs -----------------------------
(***************************************************************************)
(* Accounted is an invariant of the rate limiter, for any numbers of       *)
(* clients, requests and buckets and any rate and burst; RateBounded       *)
(* follows from it, and BurstKept is inductive with it.                    *)
(***************************************************************************)
EXTENDS RateLimiter, FiniteSetTheorems, TLAPS

\* Arithmetic: products of naturals.
LEMMA Times == \A a, b \in Nat : a * b \in Nat
  OBVIOUS

LEMMA TimesNext == \A a, b \in Nat : a * (b + 1) = a * b + a
  OBVIOUS

\* A bucket never holds more than Burst.
LEMMA TokensType ==
  ASSUME TypeOK, NEW l \in Limiters
  PROVE  Tokens(l) \in 0..Burst
<1>1. bucket[l].tokens \in 0..Burst /\ now - bucket[l].last \in Nat
  BY DEF TypeOK, Bucket
<1>2. Rate * (now - bucket[l].last) \in Nat
  BY <1>1, Times, RateAssumption
<1> QED
  BY <1>1, <1>2, RateAssumption DEF Tokens

\* The same after a step.
LEMMA TokensTypeNext ==
  ASSUME TypeOK', NEW l \in Limiters
  PROVE  Tokens(l)' \in 0..Burst
<1>1. bucket'[l].tokens \in 0..Burst /\ now' - bucket'[l].last \in Nat
  BY DEF TypeOK, Bucket
<1>2. Rate * (now' - bucket'[l].last) \in Nat
  BY <1>1, Times, RateAssumption
<1> QED
  BY <1>1, <1>2, RateAssumption DEF Tokens

\* The refill since the last cleanup.
LEMMA RefillType ==
  ASSUME TypeOK
  PROVE  Rate * (now - swept) \in Nat
<1>1. now - swept \in Nat
  BY DEF TypeOK
<1> QED
  BY <1>1, Times, RateAssumption

\* One unit of time adds at most Rate tokens to a bucket, ...
LEMMA TokensTick ==
  ASSUME TypeOK, Tick, NEW l \in Limiters
  PROVE  Tokens(l)' <= Tokens(l) + Rate
<1> DEFINE d == now - bucket[l].last
<1>1. bucket[l].tokens \in 0..Burst /\ d \in Nat
  BY DEF TypeOK, Bucket
<1>2. now' - bucket'[l].last = d + 1 /\ bucket'[l] = bucket[l]
  BY <1>1 DEF Tick, TypeOK, Bucket
<1>3. Rate * d \in Nat /\ Rate * (d + 1) = Rate * d + Rate
  BY <1>1, Times, TimesNext, RateAssumption
<1>4. Tokens(l)' = LET filled == bucket[l].tokens + Rate * (d + 1)
                   IN  IF filled < Burst THEN filled ELSE Burst
  BY <1>2 DEF Tokens
<1>5. Tokens(l) = LET filled == bucket[l].tokens + Rate * d
                  IN  IF filled < Burst THEN filled ELSE Burst
  BY DEF Tokens
<1> HIDE DEF d
<1> QED
  BY <1>1, <1>3, <1>4, <1>5, RateAssumption

\* ... takes none away, ...
LEMMA TokensGrow ==
  ASSUME TypeOK, Tick, NEW l \in Limiters
  PROVE  Tokens(l)' >= Tokens(l)
<1> DEFINE d == now - bucket[l].last
<1>1. bucket[l].tokens \in 0..Burst /\ d \in Nat
  BY DEF TypeOK, Bucket
<1>2. now' - bucket'[l].last = d + 1 /\ bucket'[l] = bucket[l]
  BY <1>1 DEF Tick, TypeOK, Bucket
<1>3. Rate * d \in Nat /\ Rate * (d + 1) = Rate * d + Rate
  BY <1>1, Times, TimesNext, RateAssumption
<1>4. Tokens(l)' = LET filled == bucket[l].tokens + Rate * (d + 1)
                   IN  IF filled < Burst THEN filled ELSE Burst
  BY <1>2 DEF Tokens
<1>5. Tokens(l) = LET filled == bucket[l].tokens + Rate * d
                  IN  IF filled < Burst THEN filled ELSE Burst
  BY DEF Tokens
<1> HIDE DEF d
<1> QED
  BY <1>1, <1>3, <1>4, <1>5, RateAssumption

\* ... and adds exactly Rate to the bound.
LEMMA RefillTick ==
  ASSUME TypeOK, Tick
  PROVE  (Rate * (now - swept))' = Rate * (now - swept) + Rate
<1>1. now - swept \in Nat /\ (now - swept)' = (now - swept) + 1
  BY DEF TypeOK, Tick
<1> QED
  BY <1>1, TimesNext, RateAssumption DEF Tick

\* A new bucket is full.
LEMMA TokensNew ==
  ASSUME TypeOK, NEW r \in Requests, NEW c \in Clients, NEW l \in Limiters,
         LimiterNew(r, c, l)
  PROVE  Tokens(l)' = Burst
<1>1. now' = now /\ bucket'[l] = [tokens |-> Burst, last |-> now]
  BY DEF LimiterNew, TypeOK
<1>2. Rate * (now - now) = 0
  BY RateAssumption DEF TypeOK
<1> QED
  BY <1>1, <1>2, RateAssumption DEF Tokens

\* Allow takes one token.
LEMMA TokensAdmit ==
  ASSUME TypeOK, NEW r \in Requests, NEW l \in Limiters, held[r] = l, Admit(r)
  PROVE  Tokens(l)' = Tokens(l) - 1
<1>1. now' = now /\ bucket'[l] = [tokens |-> Tokens(l) - 1, last |-> now]
  BY DEF Admit, TypeOK
<1>2. Rate * (now - now) = 0
  BY RateAssumption DEF TypeOK
<1>3. Tokens(l)' = LET filled == (Tokens(l) - 1) + Rate * (now - now)
                   IN  IF filled < Burst THEN filled ELSE Burst
  BY <1>1 DEF Tokens
<1>4. Tokens(l) \in 0..Burst /\ Tokens(l) >= 1
  BY TokensType DEF Admit
<1> QED
  BY <1>2, <1>3, <1>4, RateAssumption

\* Requests that hold an old limiter are finitely many.
LEMMA StragglersFinite ==
  ASSUME NEW c \in Clients
  PROVE  IsFiniteSet(Stragglers(c)) /\ Cardinality(Stragglers(c)) \in Nat
<1>1. IsFiniteSet(Stragglers(c))
  BY RequestsAssumption, FS_Subset DEF Stragglers
<1> QED
  BY <1>1, FS_CardinalityType

\* The same after a step.
LEMMA StragglersFiniteNext ==
  ASSUME NEW c \in Clients
  PROVE  IsFiniteSet(Stragglers(c)') /\ Cardinality(Stragglers(c)') \in Nat
<1>1. IsFiniteSet(Stragglers(c)')
  BY RequestsAssumption, FS_Subset DEF Stragglers
<1> QED
  BY <1>1, FS_CardinalityType

\* The number of requests of a client in flight.
LEMMA InFlight ==
  \A c \in Clients : Cardinality({r \in Requests : client[r] = c}) \in Nat
<1> SUFFICES ASSUME NEW c \in Clients
             PROVE  Cardinality({r \in Requests : client[r] = c}) \in Nat
  OBVIOUS
<1>1. IsFiniteSet({r \in Requests : client[r] = c})
  BY RequestsAssumption, FS_Subset
<1> QED
  BY <1>1, FS_CardinalityType

-----------------------------------------------------------------------------

\* The share of c in the bound: what it was let through, what its stragglers
\* and its bucket may still give it, and what it may have in all.
Given(c) == admitted[c] + Cardinality(Stragglers(c))
              + (IF limiters[c] = None THEN 0 ELSE Tokens(limiters[c]))
Granted(c) == late[c] + (IF limiters[c] = None THEN 0 ELSE Burst + Rate * (now - swept))

\* Budget by shares.
LEMMA BudgetDef == Budget <=> \A c \in Clients : Given(c) <= Granted(c)
  BY DEF Budget, Given, Granted

LEMMA BudgetDefNext == Budget' <=> \A c \in Clients : Given(c)' <= Granted(c)'
  BY DEF Budget, Given, Granted

\* What a step leaves alone of client c.
Apart(c) ==
    /\ limiters'[c] = limiters[c]
    /\ admitted'[c] = admitted[c]
    /\ late'[c] = late[c]
    /\ now' = now /\ swept' = swept
    /\ limiters[c] # None => bucket'[limiters[c]] = bucket[limiters[c]]

\* A step that gives a client nothing, and no straggler more, keeps its share.
LEMMA ApartKeeps ==
  ASSUME TypeOK, NEW c \in Clients, Apart(c), Given(c) <= Granted(c),
         Cardinality(Stragglers(c)') <= Cardinality(Stragglers(c))
  PROVE  Given(c)' <= Granted(c)'
<1>1. Cardinality(Stragglers(c)') \in Nat /\ Cardinality(Stragglers(c)) \in Nat
  BY StragglersFinite, StragglersFiniteNext
<1>2. limiters[c] # None => Tokens(limiters[c]) \in Nat /\ Tokens(limiters[c])' = Tokens(limiters[c])
  BY TokensType, RateAssumption DEF TypeOK, Apart, Tokens
<1>3. Rate * (now - swept) \in Nat
  BY RefillType
<1>4. (Rate * (now - swept))' = Rate * (now - swept)
  BY DEF Apart
<1>5. admitted[c] \in Nat /\ late[c] \in Nat
  BY DEF TypeOK
<1>6. Given(c)' = admitted[c] + Cardinality(Stragglers(c)')
                    + (IF limiters[c] = None THEN 0 ELSE Tokens(limiters[c]))
  BY <1>2 DEF Given, Apart
<1>7. Granted(c)' = Granted(c)
  BY <1>4 DEF Granted, Apart
<1>8. Given(c) = admitted[c] + Cardinality(Stragglers(c))
                    + (IF limiters[c] = None THEN 0 ELSE Tokens(limiters[c]))
  BY DEF Given
<1>9. Granted(c) \in Nat
  BY <1>3, <1>5, RateAssumption DEF Granted
<1> DEFINE tok == IF limiters[c] = None THEN 0 ELSE Tokens(limiters[c])
           s0 == Cardinality(Stragglers(c))
           s1 == Cardinality(Stragglers(c)')
<1>10. tok \in Nat
  BY <1>2
<1> HIDE DEF tok
<1> QED
  BY <1>1, <1>5, <1>6, <1>7, <1>8, <1>9, <1>10 DEF tok

-----------------------------------------------------------------------------

\* A request that finds the limiter of its client is no straggler.
LEMMA KnownKeeps ==
  ASSUME Accounted, NEW r \in Requests, NEW c \in Clients, NEW l \in Limiters,
         LimiterKnown(r, c, l)
  PROVE  Accounted'
<1>1. TypeOK /\ OneOwner /\ Budget
  BY DEF Accounted
<1>2. TypeOK'
  BY <1>1, NoLimiterAssumption DEF LimiterKnown, Lookup, TypeOK
<1>3. OneOwner'
  BY <1>1, NoLimiterAssumption DEF LimiterKnown, Lookup, OneOwner, TypeOK
<1>4. ASSUME NEW d \in Clients PROVE Given(d)' <= Granted(d)'
  <2>1. Stragglers(d)' = Stragglers(d)
    BY <1>1, NoLimiterAssumption DEF LimiterKnown, Lookup, Stragglers, TypeOK
  <2>2. Apart(d)
    BY DEF LimiterKnown, Apart
  <2> QED
    BY <1>1, <2>1, <2>2, ApartKeeps, BudgetDef, StragglersFinite
<1> QED
  BY <1>2, <1>3, <1>4, BudgetDefNext DEF Accounted

\* A new limiter is in nobody's hands, and comes with a full bucket.
LEMMA NewKeeps ==
  ASSUME Accounted, NEW r \in Requests, NEW c \in Clients, NEW l \in Limiters,
         LimiterNew(r, c, l)
  PROVE  Accounted'
<1>1. TypeOK /\ OneOwner /\ Budget
  BY DEF Accounted
<1>0. limiters[c] = None /\ l # None
  BY <1>1, NoLimiterAssumption DEF LimiterNew, Lookup, TypeOK
<1>2. TypeOK'
  <2>1. [tokens |-> Burst, last |-> now] \in Bucket
    BY <1>1, RateAssumption DEF TypeOK, Bucket
  <2>2. bucket' \in [Limiters -> Bucket] /\ \A m \in Limiters : bucket'[m].last <= now
    BY <1>1, <2>1 DEF TypeOK, LimiterNew
  <2> QED
    BY <1>1, <2>2, NoLimiterAssumption DEF LimiterNew, Store, TypeOK
<1>3. OneOwner'
  BY <1>1, NoLimiterAssumption DEF LimiterNew, Store, Reachable, OneOwner, TypeOK
<1>s. ASSUME NEW d \in Clients PROVE Stragglers(d)' = Stragglers(d)
  BY <1>0, <1>1, NoLimiterAssumption DEF LimiterNew, Store, Reachable, Stragglers, TypeOK
<1>4. ASSUME NEW d \in Clients PROVE Given(d)' <= Granted(d)'
  <2>1. CASE d # c
    <3>1. Apart(d)
      BY <1>1, <2>1 DEF LimiterNew, Store, Reachable, Apart, TypeOK
    <3> QED
      BY <1>1, <1>s, <3>1, ApartKeeps, BudgetDef, StragglersFinite
  <2>2. CASE d = c
    <3>1. Tokens(l)' = Burst
      BY <1>1, TokensNew
    <3>2. limiters'[c] = l
      BY <1>1 DEF LimiterNew, Store, TypeOK
    <3>3. Given(c)' = admitted[c] + Cardinality(Stragglers(c)) + Burst
      BY <1>0, <1>s, <3>1, <3>2 DEF Given, LimiterNew
    <3>4. Granted(c)' = late[c] + (Burst + Rate * (now - swept))
      BY <1>0, <3>2 DEF Granted, LimiterNew
    <3>5. admitted[c] + Cardinality(Stragglers(c)) + 0 <= late[c] + 0
      BY <1>0, <1>1, BudgetDef DEF Given, Granted
    <3> DEFINE x == Rate * (now - swept)
    <3>6. x \in Nat
      BY <1>1, RefillType
    <3> HIDE DEF x
    <3>7. admitted[c] \in Nat /\ late[c] \in Nat
      BY <1>1 DEF TypeOK
    <3> QED
      BY <2>2, <3>3, <3>4, <3>5, <3>6, <3>7, StragglersFinite, RateAssumption DEF x
  <2> QED
    BY <2>1, <2>2
<1> QED
  BY <1>2, <1>3, <1>4, BudgetDefNext DEF Accounted

\* Allow takes one token from the bucket, or uses up one straggler.
LEMMA AdmitKeeps ==
  ASSUME Accounted, NEW r \in Requests, Admit(r)
  PROVE  Accounted'
<1>1. TypeOK /\ OneOwner /\ Budget
  BY DEF Accounted
<1>p. PICK c \in Clients, l \in Limiters : client[r] = c /\ held[r] = l
  BY <1>1 DEF Admit, TypeOK
<1>0. client[r] = c /\ held[r] = l /\ l # None
  BY <1>p, NoLimiterAssumption
<1>k. Tokens(l) \in 0..Burst /\ Tokens(l) >= 1
  BY <1>0, <1>1, TokensType DEF Admit
<1>2. TypeOK'
  <2>1. [tokens |-> Tokens(l) - 1, last |-> now] \in Bucket
    BY <1>1, <1>k, RateAssumption DEF TypeOK, Bucket
  <2>2. bucket' \in [Limiters -> Bucket] /\ \A m \in Limiters : bucket'[m].last <= now
    BY <1>0, <1>1, <2>1 DEF TypeOK, Admit
  <2>3. admitted' \in [Clients -> Nat]
    BY <1>0, <1>1 DEF TypeOK, Admit
  <2> QED
    BY <1>1, <2>2, <2>3, NoLimiterAssumption DEF Admit, TypeOK
<1>3. OneOwner'
  BY <1>1, NoLimiterAssumption DEF Admit, OneOwner, TypeOK
<1>4. ASSUME NEW d \in Clients PROVE Given(d)' <= Granted(d)'
  <2>1. CASE d # c
    <3>1. Stragglers(d)' = Stragglers(d)
      BY <1>0, <1>1, <2>1, NoLimiterAssumption DEF Admit, Stragglers, TypeOK
    <3>2. limiters[d] # l
      BY <1>0, <1>1, <2>1 DEF OneOwner
    <3>3. Apart(d)
      BY <1>0, <1>1, <2>1, <3>2 DEF Admit, Apart, TypeOK
    <3> QED
      BY <1>1, <3>1, <3>3, ApartKeeps, BudgetDef, StragglersFinite
  <2>2. CASE d = c
    <3> DEFINE x == Rate * (now - swept)
    <3>6. x \in Nat
      BY <1>1, RefillType
    <3>7. admitted[c] \in Nat /\ late[c] \in Nat /\ admitted'[c] = admitted[c] + 1
      BY <1>0, <1>1 DEF TypeOK, Admit
    <3>8. Cardinality(Stragglers(c)) \in Nat
      BY <1>0, StragglersFinite
    <3>9. limiters'[c] = limiters[c] /\ Granted(c)' = Granted(c) /\ Given(c) <= Granted(c)
      BY <1>0, <1>1, BudgetDef DEF Admit, Granted
    <3>10. Granted(c) \in Nat
      BY <3>6, <3>7, RateAssumption DEF Granted
    <3>11. CASE limiters[c] = l
      <4>1. Stragglers(c)' = Stragglers(c)
        BY <1>0, <1>1, <3>11, NoLimiterAssumption DEF Admit, Stragglers, TypeOK
      <4>2. Tokens(l)' = Tokens(l) - 1
        BY <1>0, <1>1, TokensAdmit
      <4>3. Given(c)' = (admitted[c] + 1) + Cardinality(Stragglers(c)) + (Tokens(l) - 1)
        BY <1>0, <3>7, <3>9, <3>11, <4>1, <4>2 DEF Given
      <4>4. Given(c) = admitted[c] + Cardinality(Stragglers(c)) + Tokens(l)
        BY <1>0, <3>11 DEF Given
      <4> QED
        BY <1>k, <2>2, <3>7, <3>8, <3>9, <3>10, <4>3, <4>4
    <3>12. CASE limiters[c] # l
      <4>1. r \in Stragglers(c) /\ Stragglers(c)' = Stragglers(c) \ {r}
        BY <1>0, <1>1, <3>12, NoLimiterAssumption DEF Admit, Stragglers, TypeOK
      <4>2. Cardinality(Stragglers(c)') = Cardinality(Stragglers(c)) - 1
        BY <4>1, StragglersFinite, FS_RemoveElement
      <4>3. limiters[c] # None => /\ Tokens(limiters[c])' = Tokens(limiters[c])
                                  /\ Tokens(limiters[c]) \in Nat
        BY <1>0, <1>1, <3>9, <3>12, TokensType, RateAssumption DEF Admit, Tokens, TypeOK
      <4>4. CASE limiters[c] = None
        <5>1. Given(c)' = (admitted[c] + 1) + (Cardinality(Stragglers(c)) - 1) + 0
          BY <3>7, <3>9, <4>2, <4>4 DEF Given
        <5>2. Given(c) = admitted[c] + Cardinality(Stragglers(c)) + 0
          BY <4>4 DEF Given
        <5> QED
          BY <2>2, <3>7, <3>8, <3>9, <3>10, <5>1, <5>2
      <4>5. CASE limiters[c] # None
        <5>1. Given(c)' = (admitted[c] + 1) + (Cardinality(Stragglers(c)) - 1) + Tokens(limiters[c])
          BY <3>7, <3>9, <4>2, <4>3, <4>5 DEF Given
        <5>2. Given(c) = admitted[c] + Cardinality(Stragglers(c)) + Tokens(limiters[c])
          BY <4>5 DEF Given
        <5> QED
          BY <2>2, <3>7, <3>8, <3>9, <3>10, <4>3, <4>5, <5>1, <5>2
      <4> QED
        BY <4>4, <4>5
    <3> QED
      BY <3>11, <3>12
  <2> QED
    BY <2>1, <2>2
<1> QED
  BY <1>2, <1>3, <1>4, BudgetDefNext DEF Accounted

\* A refused request is gone.
LEMMA RefuseKeeps ==
  ASSUME Accounted, NEW r \in Requests, Refuse(r)
  PROVE  Accounted'
<1>1. TypeOK /\ OneOwner /\ Budget
  BY DEF Accounted
<1>2. TypeOK'
  BY <1>1, NoLimiterAssumption DEF Refuse, TypeOK
<1>3. OneOwner'
  BY <1>1, NoLimiterAssumption DEF Refuse, OneOwner, TypeOK
<1>4. ASSUME NEW d \in Clients PROVE Given(d)' <= Granted(d)'
  <2>1. Stragglers(d)' \subseteq Stragglers(d)
    BY <1>1, NoLimiterAssumption DEF Refuse, Stragglers, TypeOK
  <2>2. Cardinality(Stragglers(d)') <= Cardinality(Stragglers(d))
    BY <2>1, StragglersFinite, FS_Subset
  <2>3. Apart(d)
    BY DEF Refuse, Apart
  <2> QED
    BY <1>1, <2>2, <2>3, ApartKeeps, BudgetDef
<1> QED
  BY <1>2, <1>3, <1>4, BudgetDefNext DEF Accounted

\* The cleanup turns every request in flight into a straggler, and counts it.
LEMMA CleanupKeeps ==
  ASSUME Accounted, Cleanup
  PROVE  Accounted'
<1>1. TypeOK /\ OneOwner /\ Budget
  BY DEF Accounted
<1>2. TypeOK'
  BY <1>1, InFlight, NoLimiterAssumption DEF Cleanup, TypeOK
<1>3. OneOwner'
  BY <1>1 DEF Cleanup, OneOwner
<1>4. ASSUME NEW d \in Clients PROVE Given(d)' <= Granted(d)'
  <2>1. limiters'[d] = None /\ admitted'[d] = 0
    BY DEF Cleanup
  <2>2. Stragglers(d)' = {r \in Requests : client[r] = d}
    BY <1>1, <2>1, NoLimiterAssumption DEF Cleanup, Stragglers, TypeOK
  <2>3. late'[d] = Cardinality({r \in Requests : client[r] = d})
    BY DEF Cleanup
  <2> QED
    BY <2>1, <2>2, <2>3, InFlight DEF Given, Granted
<1> QED
  BY <1>2, <1>3, <1>4, BudgetDefNext DEF Accounted

\* Time fills buckets no faster than the bound grows.
LEMMA TickKeeps ==
  ASSUME Accounted, Tick
  PROVE  Accounted'
<1>1. TypeOK /\ OneOwner /\ Budget
  BY DEF Accounted
<1>2. TypeOK'
  <2>1. \A l \in Limiters : bucket[l].last \in Nat /\ bucket[l].last <= now
    BY <1>1 DEF TypeOK, Bucket
  <2> QED
    BY <1>1, <2>1 DEF Tick, TypeOK
<1>3. OneOwner'
  BY <1>1 DEF Tick, OneOwner
<1>4. ASSUME NEW d \in Clients PROVE Given(d)' <= Granted(d)'
  <2>1. Stragglers(d)' = Stragglers(d) /\ Cardinality(Stragglers(d)) \in Nat
    BY StragglersFinite DEF Tick, Stragglers
  <2>2. admitted[d] \in Nat /\ late[d] \in Nat
    BY <1>1 DEF TypeOK
  <2>3. Given(d) <= Granted(d)
    BY <1>1, BudgetDef
  <2>4. CASE limiters[d] = None
    BY <2>1, <2>3, <2>4 DEF Given, Granted, Tick
  <2>5. CASE limiters[d] # None
    <3>1. PICK l \in Limiters : limiters[d] = l
      BY <1>1, <2>5 DEF TypeOK
    <3>2. Tokens(l) \in Nat /\ Tokens(l)' \in Nat /\ Tokens(l)' <= Tokens(l) + Rate
      BY <1>1, <1>2, TokensTick, TokensType, TokensTypeNext
    <3> DEFINE x == Rate * (now - swept)
    <3>3. x \in Nat /\ x' = x + Rate
      BY <1>1, RefillType, RefillTick
    <3>4. Given(d)' = admitted[d] + Cardinality(Stragglers(d)) + Tokens(l)'
      BY <2>1, <2>5, <3>1 DEF Given, Tick
    <3>5. Given(d) = admitted[d] + Cardinality(Stragglers(d)) + Tokens(l)
      BY <2>5, <3>1 DEF Given
    <3>6. Granted(d)' = late[d] + (Burst + x')
      BY <2>5 DEF Granted, Tick
    <3>7. Granted(d) = late[d] + (Burst + x)
      BY <2>5 DEF Granted
    <3> HIDE DEF x
    <3> QED
      BY <2>1, <2>2, <2>3, <3>2, <3>3, <3>4, <3>5, <3>6, <3>7, RateAssumption
  <2> QED
    BY <2>4, <2>5
<1> QED
  BY <1>2, <1>3, <1>4, BudgetDefNext DEF Accounted

-----------------------------------------------------------------------------

\* NewRateLimiter starts with an empty map.
LEMMA InitAccounted == Init => Accounted
<1> SUFFICES ASSUME Init PROVE Accounted
  OBVIOUS
<1>1. TypeOK
  BY RateAssumption DEF Init, TypeOK, Bucket
<1>2. OneOwner
  BY DEF Init, OneOwner
<1>3. ASSUME NEW c \in Clients PROVE Given(c) <= Granted(c)
  <2>1. Stragglers(c) = {}
    BY NoLimiterAssumption DEF Init, Stragglers
  <2>2. Cardinality(Stragglers(c)) = 0
    BY <2>1, FS_EmptySet
  <2> QED
    BY <2>2 DEF Given, Granted, Init
<1> QED
  BY <1>1, <1>2, <1>3, BudgetDef DEF Accounted

\* Every step keeps the accounts.
LEMMA NextAccounted == Accounted /\ [Next]_vars => Accounted'
<1> SUFFICES ASSUME Accounted, [Next]_vars PROVE Accounted'
  OBVIOUS
<1>1. CASE UNCHANGED vars
  <2>1. TypeOK /\ OneOwner /\ Budget
    BY DEF Accounted
  <2>2. TypeOK' /\ OneOwner'
    BY <1>1, <2>1 DEF vars, TypeOK, OneOwner
  <2>3. ASSUME NEW d \in Clients PROVE Given(d)' <= Granted(d)'
    <3>1. Stragglers(d)' = Stragglers(d) /\ Apart(d)
      BY <1>1 DEF vars, Stragglers, Apart
    <3> QED
      BY <2>1, <3>1, ApartKeeps, BudgetDef, StragglersFinite
  <2> QED
    BY <2>2, <2>3, BudgetDefNext DEF Accounted
<1>2. CASE Next
  BY <1>2, KnownKeeps, NewKeeps, AdmitKeeps, RefuseKeeps, CleanupKeeps, TickKeeps DEF Next
<1> QED
  BY <1>1, <1>2

\* A step that does not touch the bucket of a client, nor what it was let
\* through, keeps what it has.
LEMMA ApartKeepsBurst ==
  ASSUME TypeOK, NEW c \in Clients, Apart(c),
         limiters[c] # None => Tokens(limiters[c]) + admitted[c] >= Burst
  PROVE  (limiters[c] # None => Tokens(limiters[c]) + admitted[c] >= Burst)'
<1>1. limiters[c] # None => Tokens(limiters[c])' = Tokens(limiters[c])
  BY DEF Apart, Tokens
<1> QED
  BY <1>1 DEF Apart

\* No step takes unused burst from a client.
LEMMA NextBurst == Accounted /\ BurstKept /\ [Next]_vars => BurstKept'
<1> SUFFICES ASSUME Accounted, BurstKept, [Next]_vars, NEW d \in Clients
             PROVE  (limiters[d] # None => Tokens(limiters[d]) + admitted[d] >= Burst)'
  BY DEF BurstKept
<1>1. TypeOK /\ OneOwner
  BY DEF Accounted
<1>2. limiters[d] # None => Tokens(limiters[d]) + admitted[d] >= Burst
  BY DEF BurstKept
<1>3. admitted[d] \in Nat
  BY <1>1 DEF TypeOK
<1>4. CASE Apart(d)
  BY <1>1, <1>2, <1>4, ApartKeepsBurst
<1>5. ASSUME NEW r \in Requests, NEW c \in Clients, NEW l \in Limiters, LimiterNew(r, c, l)
      PROVE  Apart(d) \/ (limiters[d] # None => Tokens(limiters[d]) + admitted[d] >= Burst)'
  <2>1. CASE d # c
    BY <1>1, <1>5, <2>1 DEF LimiterNew, Store, Reachable, Apart, TypeOK
  <2>2. CASE d = c
    <3>1. Tokens(l)' = Burst
      BY <1>1, <1>5, TokensNew
    <3>2. limiters'[d] = l /\ admitted'[d] = admitted[d]
      BY <1>1, <1>5, <2>2 DEF LimiterNew, Store, TypeOK
    <3> QED
      BY <1>3, <3>1, <3>2, RateAssumption
  <2> QED
    BY <2>1, <2>2
<1>6. ASSUME NEW r \in Requests, Admit(r)
      PROVE  Apart(d) \/ (limiters[d] # None => Tokens(limiters[d]) + admitted[d] >= Burst)'
  <2>1. PICK c \in Clients, l \in Limiters : client[r] = c /\ held[r] = l
    BY <1>1, <1>6 DEF Admit, TypeOK
  <2>2. CASE d # c
    <3>1. limiters[d] # l
      BY <1>1, <2>1, <2>2, NoLimiterAssumption DEF OneOwner
    <3> QED
      BY <1>1, <1>6, <2>1, <2>2, <3>1 DEF Admit, Apart, TypeOK
  <2>3. CASE d = c /\ limiters[d] = l
    <3>1. Tokens(l)' = Tokens(l) - 1 /\ Tokens(l) \in 0..Burst
      BY <1>1, <1>6, <2>1, TokensAdmit, TokensType
    <3>2. limiters'[d] = l /\ admitted'[d] = admitted[d] + 1
      BY <1>1, <1>6, <2>1, <2>3 DEF Admit, TypeOK
    <3>3. Tokens(l) + admitted[d] >= Burst
      BY <1>2, <2>3, NoLimiterAssumption
    <3> QED
      BY <1>3, <3>1, <3>2, <3>3, RateAssumption
  <2>4. CASE d = c /\ limiters[d] # l
    <3>1. limiters'[d] = limiters[d] /\ admitted'[d] = admitted[d] + 1
      BY <1>1, <1>6, <2>1, <2>4 DEF Admit, TypeOK
    <3>2. limiters[d] # None => /\ Tokens(limiters[d])' = Tokens(limiters[d])
                                /\ Tokens(limiters[d]) \in 0..Burst
      BY <1>1, <1>6, <2>1, <2>4, <3>1, TokensType DEF Admit, Tokens, TypeOK
    <3> QED
      BY <1>2, <1>3, <3>1, <3>2, RateAssumption
  <2> QED
    BY <2>2, <2>3, <2>4
<1>7. ASSUME NEW r \in Requests, NEW c \in Clients, NEW l \in Limiters, LimiterKnown(r, c, l)
      PROVE  Apart(d)
  BY <1>7 DEF LimiterKnown, Apart
<1>r. ASSUME NEW r \in Requests, Refuse(r) PROVE Apart(d)
  BY <1>r DEF Refuse, Apart
<1>8. CASE Cleanup
  BY <1>8 DEF Cleanup
<1>9. CASE Tick
  <2>1. limiters[d] # None => Tokens(limiters[d])' >= Tokens(limiters[d])
    <3>1. limiters'[d] = limiters[d] /\ admitted' = admitted
      BY <1>9 DEF Tick
    <3>2. ASSUME NEW l \in Limiters, limiters[d] = l
          PROVE  Tokens(limiters[d])' >= Tokens(limiters[d])
      <4>1. Tokens(limiters[d])' = Tokens(l)'
        BY <3>1, <3>2 DEF Tokens
      <4> QED
        BY <1>1, <1>9, <3>2, <4>1, TokensGrow
    <3> QED
      BY <1>1, <3>2 DEF TypeOK
  <2>2. limiters'[d] = limiters[d] /\ admitted' = admitted
    BY <1>9 DEF Tick
  <2>3. limiters[d] # None => Tokens(limiters[d]) \in Nat /\ Tokens(limiters[d])' \in Int
    <3>1. Accounted'
      BY NextAccounted
    <3> QED
      BY <1>1, <2>2, <3>1, TokensType, TokensTypeNext, RateAssumption DEF TypeOK, Accounted
  <2> QED
    BY <1>2, <1>3, <2>1, <2>2, <2>3, RateAssumption
<1>10. CASE UNCHANGED vars
  BY <1>4, <1>10 DEF vars, Apart
<1> QED
  BY <1>4, <1>5, <1>6, <1>7, <1>r, <1>8, <1>9, <1>10 DEF Next

\* The map, the buckets and the requests in flight agree on who owns which
\* limiter, and no token is spent twice, however limiterFor, Allow and the
\* cleanup goroutine interleave.
THEOREM AccountedAlways == Spec => []Accounted
  BY InitAccounted, NextAccounted, PTL DEF Spec

\* Between two runs of the cleanup a client is let through no more often than
\* one bucket allows, but for requests caught between limiterFor and Allow.
THEOREM RateAlwaysBounded == Spec => []RateBounded
<1>1. Accounted => RateBounded
  <2> SUFFICES ASSUME Accounted, NEW c \in Clients
               PROVE  admitted[c] <= Burst + Rate * (now - swept) + late[c]
    BY DEF RateBounded
  <2>1. TypeOK /\ Budget
    BY DEF Accounted
  <2> DEFINE x == Rate * (now - swept)
  <2>2. x \in Nat
    BY <2>1, RefillType
  <2>3. admitted[c] \in Nat /\ late[c] \in Nat /\ Cardinality(Stragglers(c)) \in Nat
    BY <2>1, StragglersFinite DEF TypeOK
  <2>4. limiters[c] # None => Tokens(limiters[c]) \in Nat
    BY <2>1, TokensType, RateAssumption DEF TypeOK
  <2>5. admitted[c] + Cardinality(Stragglers(c))
          + (IF limiters[c] = None THEN 0 ELSE Tokens(limiters[c]))
        <= late[c] + (IF limiters[c] = None THEN 0 ELSE Burst + x)
    BY <2>1 DEF Budget
  <2> HIDE DEF x
  <2>6. admitted[c] <= Burst + x + late[c]
    BY <2>2, <2>3, <2>4, <2>5, RateAssumption
  <2> QED
    BY <2>6 DEF x
<1> QED
  BY AccountedAlways, <1>1, PTL

\* Nobody but the client itself uses up its burst: limiterFor hands a limiter
\* to requests of one client only, and the cleanup never takes tokens away.
THEOREM BurstAlwaysKept == Spec => []BurstKept
<1>1. Init => BurstKept
  BY DEF Init, BurstKept
<1> QED
  BY AccountedAlways, NextBurst, <1>1, PTL DEF Spec
=============================================================================
