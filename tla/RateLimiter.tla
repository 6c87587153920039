----------------------------- MODULE RateLimiter -----------------------------
(***************************************************************************)
(* check_rate_limit (app/core/rate_limit.py): one fixed-window counter in  *)
(* Redis, used by any number of concurrent requests.                       *)
(*                                                                         *)
(* Redis runs one command at a time, so each command is one action; the    *)
(* limiter needs two to start a window (INCR, then EXPIRE) and a request   *)
(* can be interrupted, or fail, between them. Keys do not interact: one is *)
(* modelled. Time is kept relative (what is left of the window, how long   *)
(* ago a hit landed), so the model runs for ever in finitely many states.  *)
(***************************************************************************)
EXTENDS Integers, FiniteSets

CONSTANTS
    Request,       \* requests at a time
    Limit,         \* limit=
    Window,        \* window_seconds=, in ticks
    MaxHits,       \* bound on the counter
    MaxFailures,   \* bound on requests that fail between two commands
    MaxRestarts    \* bound on restarts of Redis that lose the counter

ASSUME LimiterAssumption ==
    /\ Limit \in Nat \ {0}
    /\ Window \in Nat \ {0}
    /\ MaxHits \in Nat
    /\ MaxFailures \in Nat
    /\ MaxRestarts \in Nat
    /\ IsFiniteSet(Request)

VARIABLES
    hits,       \* the counter, 0 when Redis has no such key
    ttl,        \* ticks until Redis deletes the key, NoTTL when it has none
    call,       \* call[r]: the command request r sends next
    failures,   \* how many requests failed half-way
    restarts,   \* how often Redis lost the counter
    admitted    \* history: admitted[k], requests let through in this tick and the k before it

limiterVars == <<hits, ttl, call, failures, restarts, admitted>>

NoTTL == 0
Age == 0 .. Window - 1

Stage == {"incr", "expire", "ttl", "admitted"}

LimiterTypeOK ==
    /\ hits \in Nat
    /\ ttl \in 0 .. Window
    /\ call \in [Request -> Stage]
    /\ failures \in Nat
    /\ restarts \in Nat
    /\ admitted \in [Age -> Nat]

LimiterInit ==
    /\ hits = 0
    /\ ttl = NoTTL
    /\ call = [r \in Request |-> "incr"]
    /\ failures = 0
    /\ restarts = 0
    /\ admitted = [k \in Age |-> 0]

At(r, stage) == call' = [call EXCEPT ![r] = stage]

\* Mutant: an off-by-one, the limit itself is refused one hit too late.
OverLimitByOne(count) == count > Limit + 1

\* if count > limit: the refusal first asks for the key's TTL.
OverLimit(count) == count > Limit

Admit(r) ==
    /\ At(r, "admitted")
    /\ admitted' = [k \in Age |-> admitted[k] + 1]

\* Mutant: EXPIRE is sent by the hit that reaches the limit.
IncrArmsAtLimit(r) ==
    LET count == hits + 1 IN
    /\ call[r] = "incr"
    /\ hits < MaxHits
    /\ hits' = count
    /\ \/ count = Limit /\ At(r, "expire") /\ UNCHANGED admitted
       \/ OverLimit(count) /\ At(r, "ttl") /\ UNCHANGED admitted
       \/ count < Limit /\ Admit(r)
    /\ UNCHANGED <<ttl, failures, restarts>>

\* Mutant: every hit that is let through sends EXPIRE.
IncrAlwaysArms(r) ==
    LET count == hits + 1 IN
    /\ call[r] = "incr"
    /\ hits < MaxHits
    /\ hits' = count
    /\ At(r, IF OverLimit(count) THEN "ttl" ELSE "expire")
    /\ UNCHANGED <<ttl, failures, restarts, admitted>>

\* INCR creates a missing key without a TTL. Python resumes with the count it
\* answered: the first hit goes on to EXPIRE, the others are decided here.
Incr(r) ==
    LET count == hits + 1 IN
    /\ call[r] = "incr"
    /\ hits < MaxHits
    /\ hits' = count
    /\ \/ count = 1 /\ At(r, "expire") /\ UNCHANGED admitted
       \/ count # 1 /\ OverLimit(count) /\ At(r, "ttl") /\ UNCHANGED admitted
       \/ count # 1 /\ ~OverLimit(count) /\ Admit(r)
    /\ UNCHANGED <<ttl, failures, restarts>>

\* Mutant: EXPIRE is queued in a pipeline nobody executes.
ExpireNotSent(r) ==
    /\ call[r] = "expire"
    /\ Admit(r)
    /\ UNCHANGED <<hits, ttl, failures, restarts>>

\* EXPIRE starts, or restarts, the window; on a missing key it does nothing.
\* The caller's count is 1, and Limit is positive: it is let through.
Expire(r) ==
    /\ call[r] = "expire"
    /\ ttl' = IF hits > 0 THEN Window ELSE NoTTL
    /\ Admit(r)
    /\ UNCHANGED <<hits, failures, restarts>>

\* TTL answers -1 or -2 for a key without TTL or no key; the 429 that follows
\* carries max(ttl, 1) and changes nothing.
RefuseWithTTL(r) ==
    /\ call[r] = "ttl"
    /\ At(r, "incr")
    /\ UNCHANGED <<hits, ttl, failures, restarts, admitted>>

\* The endpoint's own work, and the next request in the slot.
Return(r) ==
    /\ call[r] = "admitted"
    /\ At(r, "incr")
    /\ UNCHANGED <<hits, ttl, failures, restarts, admitted>>

\* The command is never sent, or its answer never read: a dead worker, a lost
\* connection. Nothing in check_rate_limit catches it, the request is a 500.
Fail(r) ==
    /\ failures < MaxFailures
    /\ failures' = failures + 1
    /\ call[r] \in {"expire", "ttl"}
    /\ At(r, "incr")
    /\ UNCHANGED <<hits, ttl, restarts, admitted>>

\* The Redis container comes back without the counter.
RedisRestart ==
    /\ restarts < MaxRestarts
    /\ restarts' = restarts + 1
    /\ hits' = 0
    /\ ttl' = NoTTL
    /\ UNCHANGED <<call, failures, admitted>>

\* Mutant: a key without TTL is counted down as well.
TickAnyKey ==
    /\ hits' = IF ttl = 1 THEN 0 ELSE hits
    /\ ttl' = ttl - 1
    /\ admitted' = [k \in Age |-> IF k = 0 THEN 0 ELSE admitted[k - 1]]
    /\ UNCHANGED <<call, failures, restarts>>

\* One tick: Redis drops the key whose time is up; the history ages.
Tick ==
    /\ hits' = IF ttl = 1 THEN 0 ELSE hits
    /\ ttl' = IF ttl = NoTTL THEN NoTTL ELSE ttl - 1
    /\ admitted' = [k \in Age |-> IF k = 0 THEN 0 ELSE admitted[k - 1]]
    /\ UNCHANGED <<call, failures, restarts>>

Command(r) == Incr(r) \/ Expire(r) \/ RefuseWithTTL(r) \/ Return(r)

LimiterNext ==
    \/ \E r \in Request : Command(r) \/ Fail(r)
    \/ RedisRestart
    \/ Tick

LimiterSpec == LimiterInit /\ [][LimiterNext]_limiterVars

\* Time passes, and a command that was started is carried through: no fairness
\* on INCR, a client need not come back, nor on failures.
LimiterFairSpec ==
    /\ LimiterSpec
    /\ WF_limiterVars(Tick)
    /\ \A r \in Request : WF_limiterVars(Expire(r) \/ RefuseWithTTL(r) \/ Return(r))

-----------------------------------------------------------------------------
\* Properties

\* Two windows can touch one span of Window ticks, never three: whatever the
\* delay between INCR and EXPIRE, no such span lets more than twice the limit
\* through, unless Redis loses the counter.
BurstBound ==
    restarts = 0 => admitted[Window - 1] <= 2 * Limit

\* A key without a TTL is one whose creator is about to set it: the counter
\* cannot be left to count for ever, unless that creator failed.
ArmedOrArming ==
    failures = 0 /\ hits > 0 /\ ttl = NoTTL => \E r \in Request : call[r] = "expire"

\* EXPIREs on their way, less the one that a key without a TTL is waiting for.
LateExpires ==
    Cardinality({r \in Request : call[r] = "expire"})
      - (IF hits > 0 /\ ttl = NoTTL THEN 1 ELSE 0)

\* An EXPIRE that comes when Redis has lost its key sets back the window another
\* hit opened meanwhile, and clients are refused for longer. Only a restart makes
\* an EXPIRE late, and it makes one late at most, each of which sets back one window:
\* in all, windows are set back no more often than Redis restarts.
SetBack == ttl # NoTTL /\ ttl' > ttl
RestartsPayForSetBacks ==
    [][LateExpires' + (IF SetBack THEN 1 ELSE 0)
          <= LateExpires + (restarts' - restarts)]_limiterVars

Refusing == OverLimit(hits + 1)

\* Clients refused now are let in again later, as long as no request fails
\* between INCR and EXPIRE.
RefusalsEnd == Refusing /\ failures = 0 ~> ~Refusing \/ failures > 0

\* check_rate_limit's docstring says that hits are refused once the limit was
\* reached inside one window: refusals end with the window.
RefusalsAlwaysEnd == Refusing ~> ~Refusing
=============================================================================
