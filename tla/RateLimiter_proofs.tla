-------------------------- MODULE RateLimiter_proofs --------------------------
(***************************************************************************)
(* Proofs, for any number of clients, any limit and any window, of what    *)
(* keeps a rate-limit key from living for ever.                            *)
(***************************************************************************)
EXTENDS RateLimiter, FiniteSetTheorems, TLAPS

\* A key that does not exist has no TTL.
NoKeyNoTTL == hits = 0 => ttl = NoTTL

\* As long as Redis did not restart, the one request about to send EXPIRE is the one
\* its counter waits for.
SoleArming ==
    restarts = 0 =>
        /\ \A r, q \in Request : call[r] = "expire" /\ call[q] = "expire" => r = q
        /\ \A r \in Request : call[r] = "expire" => hits > 0 /\ ttl = NoTTL

LimiterInv == LimiterTypeOK /\ NoKeyNoTTL /\ ArmedOrArming /\ SoleArming

LEMMA InitLimiterInv == LimiterInit => LimiterInv
  BY LimiterAssumption
     DEF LimiterInit, LimiterInv, LimiterTypeOK, NoKeyNoTTL, ArmedOrArming, SoleArming,
         NoTTL, Stage

LEMMA NextLimiterInv == LimiterInv /\ [LimiterNext]_limiterVars => LimiterInv'
<1> SUFFICES ASSUME LimiterInv, [LimiterNext]_limiterVars PROVE LimiterInv'
    OBVIOUS
<1> USE LimiterAssumption
    DEF LimiterInv, LimiterTypeOK, NoKeyNoTTL, ArmedOrArming, SoleArming, NoTTL, Stage,
        At, Age
<1>1. ASSUME NEW r \in Request, Incr(r)
      PROVE  LimiterInv'
  <2>1. LimiterTypeOK' /\ NoKeyNoTTL'
    BY <1>1 DEF Incr, Admit
  <2>2. CASE hits = 0
    BY <1>1, <2>1, <2>2 DEF Incr, Admit
  <2>3. CASE hits # 0
    <3>1. /\ hits' = hits + 1 /\ UNCHANGED <<ttl, failures, restarts>>
          /\ call'[r] # "expire"
          /\ \A q \in Request \ {r} : call'[q] = call[q]
      BY <1>1, <2>3 DEF Incr, Admit
    <3>2. \A q \in Request : call'[q] = "expire" <=> call[q] = "expire"
      BY <1>1, <3>1 DEF Incr
    <3>3. QED
      BY <2>1, <2>3, <3>1, <3>2
  <2>4. QED
    BY <2>2, <2>3
<1>2. ASSUME NEW r \in Request, Expire(r)
      PROVE  LimiterInv'
  BY <1>2 DEF Expire, Admit
<1>3. ASSUME NEW r \in Request, RefuseWithTTL(r)
      PROVE  LimiterInv'
  BY <1>3 DEF RefuseWithTTL
<1>4. ASSUME NEW r \in Request, Return(r)
      PROVE  LimiterInv'
  BY <1>4 DEF Return
<1>5. ASSUME NEW r \in Request, Fail(r)
      PROVE  LimiterInv'
  BY <1>5 DEF Fail
<1>6. CASE RedisRestart
  BY <1>6 DEF RedisRestart
<1>7. CASE Tick
  BY <1>7 DEF Tick
<1>8. CASE UNCHANGED limiterVars
  BY <1>8 DEF limiterVars
<1>9. QED
  BY <1>1, <1>2, <1>3, <1>4, <1>5, <1>6, <1>7, <1>8 DEF LimiterNext, Command

\* The counter, its TTL and the history keep their types.
THEOREM LimiterTypeCorrect == LimiterSpec => []LimiterTypeOK
<1>1. LimiterInv => LimiterTypeOK
  BY DEF LimiterInv
<1>2. QED
  BY <1>1, InitLimiterInv, NextLimiterInv, PTL DEF LimiterSpec

\* Unless a request failed between INCR and EXPIRE, a key that has no TTL is
\* about to be given one.
THEOREM ArmedOrArmingHolds == LimiterSpec => []ArmedOrArming
<1>1. LimiterInv => ArmedOrArming
  BY DEF LimiterInv
<1>2. QED
  BY <1>1, InitLimiterInv, NextLimiterInv, PTL DEF LimiterSpec

-----------------------------------------------------------------------------
\* How often a window can be set back

Arming == {r \in Request : call[r] = "expire"}
Awaited == IF hits > 0 /\ ttl = NoTTL THEN 1 ELSE 0

LEMMA ArmingFinite == IsFiniteSet(Arming) /\ Cardinality(Arming) \in Nat
  BY LimiterAssumption, FS_Subset, FS_CardinalityType DEF Arming

LEMMA StepsPayForSetBacks ==
  ASSUME LimiterTypeOK, NoKeyNoTTL, [LimiterNext]_limiterVars
  PROVE  Cardinality(Arming') - Awaited' + (IF SetBack THEN 1 ELSE 0)
            <= Cardinality(Arming) - Awaited + (restarts' - restarts)
<1> USE ArmingFinite DEF LimiterTypeOK, NoKeyNoTTL, NoTTL, At
<1>1. ASSUME Arming' = Arming, Awaited <= Awaited', restarts' = restarts, ~SetBack
      PROVE  Cardinality(Arming') - Awaited' + (IF SetBack THEN 1 ELSE 0)
                <= Cardinality(Arming) - Awaited + (restarts' - restarts)
  BY <1>1 DEF Awaited
<1>2. ASSUME NEW r \in Request, r \in Arming
      PROVE  Cardinality(Arming \ {r}) = Cardinality(Arming) - 1
  BY <1>2, FS_RemoveElement
<1>3. ASSUME NEW r \in Request, Incr(r)
      PROVE  Cardinality(Arming') - Awaited' + (IF SetBack THEN 1 ELSE 0)
                <= Cardinality(Arming) - Awaited + (restarts' - restarts)
  <2>1. /\ call[r] = "incr" /\ hits' = hits + 1 /\ ttl' = ttl /\ restarts' = restarts
        /\ \A q \in Request \ {r} : call'[q] = call[q]
        /\ call'[r] = "expire" <=> hits = 0
        /\ ~SetBack
    BY <1>3 DEF Incr, Admit, SetBack
  <2>2. CASE hits = 0
    <3>1. Arming' = Arming \cup {r} /\ r \notin Arming
      BY <2>1, <2>2 DEF Arming
    <3>2. Cardinality(Arming') = Cardinality(Arming) + 1
      BY <3>1, FS_AddElement
    <3>3. Awaited = 0 /\ Awaited' = 1
      BY <2>1, <2>2 DEF Awaited
    <3>4. QED
      BY <2>1, <3>2, <3>3
  <2>3. CASE hits # 0
    <3>1. Arming' = Arming
      BY <2>1, <2>3 DEF Arming
    <3>2. Awaited' = Awaited
      BY <2>1, <2>3 DEF Awaited
    <3>3. QED
      BY <1>1, <2>1, <3>1, <3>2 DEF Awaited
  <2>4. QED
    BY <2>2, <2>3
<1>4. ASSUME NEW r \in Request, Expire(r)
      PROVE  Cardinality(Arming') - Awaited' + (IF SetBack THEN 1 ELSE 0)
                <= Cardinality(Arming) - Awaited + (restarts' - restarts)
  <2>1. Arming' = Arming \ {r} /\ r \in Arming /\ restarts' = restarts /\ hits' = hits
    BY <1>4 DEF Arming, Expire, Admit
  <2>2. Cardinality(Arming') = Cardinality(Arming) - 1
    BY <1>2, <2>1
  <2>3. SetBack => Awaited = 0 /\ Awaited' = 0
    BY <1>4, LimiterAssumption DEF SetBack, Awaited, Expire
  <2>4. Awaited' \in {0, 1} /\ Awaited \in {0, 1} /\ Awaited - Awaited' <= 1
    BY DEF Awaited
  <2>5. QED
    BY <2>1, <2>2, <2>3, <2>4
<1>5. ASSUME NEW r \in Request, Fail(r)
      PROVE  Cardinality(Arming') - Awaited' + (IF SetBack THEN 1 ELSE 0)
                <= Cardinality(Arming) - Awaited + (restarts' - restarts)
  <2>1. /\ Arming' = Arming \ {r} /\ UNCHANGED <<hits, ttl, restarts>> /\ ~SetBack
        /\ Awaited' = Awaited
    BY <1>5 DEF Arming, Fail, SetBack, Awaited
  <2>2. CASE r \in Arming
    BY <1>2, <2>1, <2>2 DEF Awaited
  <2>3. CASE r \notin Arming
    <3>1. Arming' = Arming
      BY <2>1, <2>3
    <3>2. QED
      BY <1>1, <2>1, <3>1 DEF Awaited
  <2>4. QED
    BY <2>2, <2>3
<1>6. ASSUME NEW r \in Request, RefuseWithTTL(r) \/ Return(r)
      PROVE  Cardinality(Arming') - Awaited' + (IF SetBack THEN 1 ELSE 0)
                <= Cardinality(Arming) - Awaited + (restarts' - restarts)
  BY <1>1, <1>6 DEF RefuseWithTTL, Return, Arming, Awaited, SetBack
<1>7. CASE RedisRestart
  <2>1. Arming' = Arming /\ restarts' = restarts + 1 /\ Awaited' = 0 /\ ~SetBack
    BY <1>7 DEF RedisRestart, Arming, Awaited, SetBack
  <2>2. Awaited \in {0, 1}
    BY DEF Awaited
  <2>3. QED
    BY <2>1, <2>2
<1>8. CASE Tick
  BY <1>1, <1>8 DEF Tick, Arming, Awaited, SetBack
<1>9. CASE UNCHANGED limiterVars
  BY <1>1, <1>9 DEF limiterVars, Arming, Awaited, SetBack
<1>10. QED
  BY <1>3, <1>4, <1>5, <1>6, <1>7, <1>8, <1>9 DEF LimiterNext, Command

\* However many clients there are, and however late they send EXPIRE: a restart of
\* Redis is the price of every window that is set back.
THEOREM SetBacksArePaidFor == LimiterSpec => RestartsPayForSetBacks
<1>1. ASSUME LimiterTypeOK, NoKeyNoTTL, [LimiterNext]_limiterVars
      PROVE  LateExpires' + (IF SetBack THEN 1 ELSE 0) <= LateExpires + (restarts' - restarts)
  BY <1>1, StepsPayForSetBacks DEF LateExpires, Arming, Awaited
<1>2. LimiterInv => LimiterTypeOK /\ NoKeyNoTTL
  BY DEF LimiterInv
<1>3. QED
  BY <1>1, <1>2, InitLimiterInv, NextLimiterInv, PTL DEF LimiterSpec, RestartsPayForSetBacks

-----------------------------------------------------------------------------
\* How many requests two windows can let through

\* The hits of the window that are, or may yet be, let through.
Counted == IF hits < Limit THEN hits ELSE Limit

\* A history of what was let through in spans of 1, 2, ... Window ticks.
LongerSpansCountMore == \A j, k \in Age : j <= k => admitted[j] <= admitted[k]

\* Between windows, only the last one is in the history. While one is opened, its
\* creator is counted and not let through; all of this tick is of this window.
\* While one runs, so is all since EXPIRE; before it there is one other at most.
SpansInv ==
    /\ hits = 0 => admitted[0] = 0 /\ admitted[Window - 1] <= Limit
    /\ hits > 0 /\ ttl = NoTTL =>
          admitted[0] < Counted /\ admitted[Window - 1] < Limit + Counted
    /\ ttl > 0 =>
          admitted[Window - ttl] <= Counted /\ admitted[Window - 1] <= Limit + Counted

BurstInv == restarts = 0 => LongerSpansCountMore /\ SpansInv

LEMMA InitBurstInv == LimiterInit => BurstInv
  BY LimiterAssumption
     DEF LimiterInit, BurstInv, LongerSpansCountMore, SpansInv, Counted, Age, NoTTL

LEMMA AdmitCounts ==
  ASSUME LimiterTypeOK, LongerSpansCountMore, NEW r \in Request, Admit(r)
  PROVE  /\ \A k \in Age : admitted'[k] = admitted[k] + 1
         /\ LongerSpansCountMore'
<1>1. admitted' = [k \in Age |-> admitted[k] + 1] /\ admitted \in [Age -> Nat]
  BY DEF Admit, LimiterTypeOK
<1>2. \A k \in Age : admitted[k] \in Nat
  BY <1>1
<1>3. \A k \in Age : admitted'[k] = admitted[k] + 1
  BY <1>1
<1>4. QED
  BY <1>2, <1>3 DEF LongerSpansCountMore, Age

LEMMA NextBurstInv == LimiterInv /\ BurstInv /\ [LimiterNext]_limiterVars => BurstInv'
<1> SUFFICES ASSUME LimiterInv, BurstInv, [LimiterNext]_limiterVars, restarts' = 0
             PROVE  LongerSpansCountMore' /\ SpansInv'
    BY DEF BurstInv
<1>0. restarts = 0 /\ LongerSpansCountMore /\ SpansInv
  <2>1. CASE restarts = 0
    BY <2>1 DEF BurstInv
  <2>2. CASE restarts # 0
    BY <2>2 DEF LimiterInv, LimiterTypeOK, LimiterNext, Command, Incr, Expire, RefuseWithTTL,
                Return, Fail, RedisRestart, Tick, limiterVars
  <2>3. QED
    BY <2>1, <2>2
<1>t. /\ hits \in Nat /\ ttl \in 0 .. Window /\ admitted \in [Age -> Nat]
      /\ Limit \in Nat \ {0} /\ Window \in Nat \ {0} /\ (hits = 0 => ttl = 0)
      /\ \A k \in Age : admitted[k] \in Nat
      /\ 0 \in Age /\ Window - 1 \in Age /\ (ttl > 0 => Window - ttl \in Age)
  BY LimiterAssumption DEF LimiterInv, LimiterTypeOK, NoKeyNoTTL, NoTTL, Age
<1>1. ASSUME NEW r \in Request, Incr(r)
      PROVE  LongerSpansCountMore' /\ SpansInv'
  <2>1. hits' = hits + 1 /\ ttl' = ttl
    BY <1>1 DEF Incr
  <2>2. CASE hits = 0
    <3>1. admitted' = admitted
      BY <1>1, <1>t, <2>2 DEF Incr
    <3>2. QED
      BY <1>0, <1>t, <2>1, <2>2, <3>1 DEF LongerSpansCountMore, SpansInv, Counted, NoTTL
  <2>3. CASE hits # 0 /\ OverLimit(hits + 1)
    <3>1. admitted' = admitted
      BY <1>1, <1>t, <2>3 DEF Incr
    <3>2. QED
      BY <1>0, <1>t, <2>1, <2>3, <3>1
         DEF LongerSpansCountMore, SpansInv, Counted, NoTTL, OverLimit
  <2>4. CASE hits # 0 /\ ~OverLimit(hits + 1)
    <3>1. Admit(r)
      BY <1>1, <1>t, <2>4 DEF Incr
    <3>2. LongerSpansCountMore' /\ \A k \in Age : admitted'[k] = admitted[k] + 1
      BY <1>0, <3>1, AdmitCounts DEF LimiterInv
    <3>3. QED
      BY <1>0, <1>t, <2>1, <2>4, <3>2 DEF SpansInv, Counted, NoTTL, OverLimit
  <2>5. QED
    BY <2>2, <2>3, <2>4
<1>2. ASSUME NEW r \in Request, Expire(r)
      PROVE  LongerSpansCountMore' /\ SpansInv'
  <2>1. hits > 0 /\ ttl = NoTTL
    BY <1>0, <1>2 DEF LimiterInv, SoleArming, Expire
  <2>2. hits' = hits /\ ttl' = Window
    BY <1>2, <2>1 DEF Expire
  <2>3. LongerSpansCountMore' /\ \A k \in Age : admitted'[k] = admitted[k] + 1
    BY <1>0, <1>2, AdmitCounts DEF LimiterInv, Expire
  <2>4. QED
    BY <1>0, <1>t, <2>1, <2>2, <2>3 DEF SpansInv, Counted, NoTTL
<1>3. ASSUME UNCHANGED <<hits, ttl, admitted>>
      PROVE  LongerSpansCountMore' /\ SpansInv'
  BY <1>0, <1>3 DEF LongerSpansCountMore, SpansInv, Counted
<1>4. CASE Tick
  <2>1. /\ hits' = IF ttl = 1 THEN 0 ELSE hits
        /\ ttl' = IF ttl = 0 THEN 0 ELSE ttl - 1
        /\ admitted' = [k \in Age |-> IF k = 0 THEN 0 ELSE admitted[k - 1]]
    BY <1>4 DEF Tick, NoTTL
  <2>2. /\ admitted'[0] = 0
        /\ \A k \in Age \ {0} : k - 1 \in Age /\ admitted'[k] = admitted[k - 1]
    BY <1>t, <2>1 DEF Age
  <2>3. LongerSpansCountMore'
    BY <1>0, <1>t, <2>2 DEF LongerSpansCountMore, Age
  <2>4. admitted'[Window - 1] <= admitted[Window - 1]
    BY <1>0, <1>t, <2>2 DEF LongerSpansCountMore, Age
  <2>5. /\ admitted'[0] = 0 /\ admitted'[Window - 1] \in Nat
        /\ admitted[Window - 1] \in Nat /\ hits \in Nat /\ Limit \in Nat \ {0}
    BY <1>t, <2>2
  <2>6. CASE ttl = 0
    <3>1. hits' = hits /\ ttl' = 0
      BY <2>1, <2>6
    <3>2. hits = 0 => admitted[Window - 1] <= Limit
      BY <1>0 DEF SpansInv
    <3>3. hits > 0 => admitted[Window - 1] < Limit + Counted
      BY <1>0, <2>6 DEF SpansInv, NoTTL
    <3>4. QED
      BY <2>3, <2>4, <2>5, <3>1, <3>2, <3>3 DEF SpansInv, Counted, NoTTL
  <2>7. CASE ttl = 1
    <3>1. hits' = 0 /\ ttl' = 0
      BY <2>1, <2>7
    <3>2. admitted[Window - 1] <= Counted
      BY <1>0, <2>7 DEF SpansInv
    <3>3. QED
      BY <2>3, <2>4, <2>5, <3>1, <3>2 DEF SpansInv, Counted
  <2>8. CASE ttl > 1
    <3>1. hits' = hits /\ ttl' = ttl - 1 /\ ttl > 0 /\ hits > 0
      BY <1>t, <2>1, <2>8
    <3>2. Window - ttl' \in Age \ {0} /\ (Window - ttl') - 1 = Window - ttl
      BY <1>t, <2>8, <3>1 DEF Age
    <3>3. admitted'[Window - ttl'] = admitted[Window - ttl]
      BY <2>2, <3>2
    <3>4. admitted[Window - ttl] <= Counted /\ admitted[Window - 1] <= Limit + Counted
      BY <1>0, <3>1 DEF SpansInv
    <3>5. QED
      BY <2>3, <2>4, <2>5, <2>8, <3>1, <3>3, <3>4 DEF SpansInv, Counted, NoTTL
  <2>9. QED
    BY <1>t, <2>3, <2>6, <2>7, <2>8
<1>5. QED
  <2>1. CASE RedisRestart
    BY <1>0, <2>1 DEF RedisRestart
  <2>2. CASE UNCHANGED limiterVars
    BY <1>3, <2>2 DEF limiterVars
  <2>3. ASSUME NEW r \in Request, RefuseWithTTL(r) \/ Return(r) \/ Fail(r)
        PROVE  UNCHANGED <<hits, ttl, admitted>>
    BY <2>3 DEF RefuseWithTTL, Return, Fail
  <2>4. QED
    BY <1>1, <1>2, <1>3, <1>4, <2>1, <2>2, <2>3 DEF LimiterNext, Command

\* While Redis keeps the counter, no span of Window ticks lets more than twice the
\* limit through, whatever the delay between INCR and EXPIRE and whoever fails there.
THEOREM BurstBoundHolds == LimiterSpec => []BurstBound
<1>1. LimiterInv /\ BurstInv => BurstBound
  BY LimiterAssumption
     DEF LimiterInv, LimiterTypeOK, NoKeyNoTTL, BurstInv, SpansInv, Counted, BurstBound,
         NoTTL, Age
<1>2. QED
  BY <1>1, InitLimiterInv, NextLimiterInv, InitBurstInv, NextBurstInv, PTL DEF LimiterSpec
=============================================================================
