--------------------------- MODULE Endpoints_proofs ---------------------------
(***************************************************************************)
(* Proofs, for any number of requests, any routes of the API and any size  *)
(* of the pool: the pool loses nothing and nobody holds a connection or a  *)
(* row while waiting for a connection, what a call holds it holds after    *)
(* its guards, and the counter the calls go through is the one that        *)
(* RateLimiter specifies.                                                  *)
(***************************************************************************)
EXTENDS Endpoints, RateLimiter_proofs

Step == {"limit", "auth", "input", "connect", "lock", "commit", "reply", "mail"}

\* The steps before the j-th.
Before(steps, j) == {steps[k] : k \in 1 .. j - 1}

\* The steps that take something of the database come after input and limiter.
Guarded(t) ==
    \A j \in 1 .. Len(t.steps) :
        t.steps[j] \in {"connect", "lock"} =>
            /\ "input" \in Before(t.steps, j)
            /\ t.scope # "none" => "limit" \in Before(t.steps, j)

\* Of two steps, the second asking for a connection, a commit stands between.
OneAtATime(steps) ==
    \A i, j \in 1 .. Len(steps) :
        /\ i < j /\ steps[i] \in {"connect", "lock"} /\ steps[j] = "connect"
        => \E k \in i .. j - 1 : steps[k] = "commit"

WellFormed(t) == t.steps \in Seq(Step) /\ OneAtATime(t.steps) /\ Guarded(t)

-----------------------------------------------------------------------------
\* The routes

LEMMA ReadsWellFormed == WellFormed(PublicRead) /\ WellFormed(AdminRead) /\ WellFormed(Health)
  BY DEF WellFormed, Step, OneAtATime, Guarded, Before, Route, PublicRead, AdminRead, Health

LEMMA WritesWellFormed ==
  WellFormed(AdminSave) /\ WellFormed(AdminDelete) /\ WellFormed(Logout) /\ WellFormed(Contact)
  BY DEF WellFormed, Step, OneAtATime, Guarded, Before, Route, AdminSave, AdminDelete,
         Logout, Contact

LEMMA TokensWellFormed == WellFormed(Login) /\ WellFormed(Refresh)
  BY DEF WellFormed, Step, OneAtATime, Guarded, Before, Route, Login, Refresh

\* Every route the API has is one of nine.
LEMMA RoutesOfTheApi ==
  Api \subseteq {PublicRead, AdminRead, AdminSave, AdminDelete, Login, Logout, Refresh,
                 Contact, Health}
  BY DEF Api, ApiRouter, ProjectRouter, ArticleRouter, CaseStudyRouter, TeamMemberRouter,
         ServiceRouter, TechnologyRouter, TestimonialRouter, ClientRouter, PartnerRouter,
         ServiceLineRouter, ProductRouter, CompanyRouter, AuthRouter, ContactRouter,
         AdminWrites

LEMMA RoutesWellFormed == \A t \in Api : WellFormed(t)
  BY RoutesOfTheApi, ReadsWellFormed, WritesWellFormed, TokensWellFormed

\* Admin routes read the token before they touch the database.
LEMMA AuthFirst ==
  \A t \in AdminRoutes : \A j \in 1 .. Len(t.steps) :
     t.steps[j] \in {"connect", "lock"} => "auth" \in Before(t.steps, j)
  BY DEF AdminRoutes, Before, Route, AdminRead, AdminSave, AdminDelete, Logout

-----------------------------------------------------------------------------
\* The counter

\* A step of a call is a step of the limiter, or leaves its variables alone.
LEMMA CallsUseTheLimiter == [EndpointsNext]_vars => [LimiterNext]_limiterVars
<1> SUFFICES ASSUME [EndpointsNext]_vars PROVE [LimiterNext]_limiterVars
    OBVIOUS
<1>1. ASSUME NEW r \in Request, Limited(r)
      PROVE  LimiterNext
  BY <1>1 DEF Limited, LimiterNext, Command
<1>2. ASSUME NEW r \in Request, TooMany(r)
      PROVE  LimiterNext
  BY <1>2 DEF TooMany, LimiterNext, Command
<1>3. ASSUME NEW r \in Request, LeaveLimiter(r)
      PROVE  [LimiterNext]_limiterVars
  BY <1>3 DEF LeaveLimiter, LimiterNext, Command
<1>4. ASSUME NEW r \in Request, Close(r) \/ Drop(r)
      PROVE  [LimiterNext]_limiterVars
  BY <1>3, <1>4 DEF Close, Drop, LimiterNext
<1>5. ASSUME NEW r \in Request,
             \/ LimitedElsewhere(r) \/ Authenticate(r) \/ Validate(r) \/ Connect(r)
             \/ Lock(r) \/ LockAnother(r) \/ Commit(r) \/ Reply(r) \/ Mail(r)
      PROVE  UNCHANGED limiterVars
  BY <1>5 DEF LimitedElsewhere, Authenticate, Validate, Connect, Lock, LockAnother, Commit,
              Reply, Mail
<1>6. ASSUME NEW r \in Request, NEW t \in Served, Begin(r, t)
      PROVE  UNCHANGED limiterVars
  BY <1>6 DEF Begin
<1>7. CASE RedisRestart \/ Tick
  BY <1>7 DEF LimiterNext
<1>8. CASE UNCHANGED vars
  BY <1>8 DEF vars
<1>9. QED
  BY <1>1, <1>2, <1>4, <1>5, <1>6, <1>7, <1>8 DEF EndpointsNext, Serve

\* What goes on between the calls and the counter is what RateLimiter specifies:
\* all that holds of it holds of the API.
THEOREM CallsImplementLimiter == EndpointsSpec => LimiterSpec
<1>1. EndpointsInit => LimiterInit
  BY DEF EndpointsInit
<1>2. QED
  BY <1>1, CallsUseTheLimiter, PTL DEF EndpointsSpec, LimiterSpec

\* A limited route lets through no more than two windows' worth in the length of
\* one, while Redis is up; its counter is not forgotten, and a window of it is set
\* back no more often than Redis restarts.
THEOREM CallsAreLimited ==
  EndpointsSpec =>
    [](LimiterTypeOK /\ BurstBound /\ ArmedOrArming) /\ RestartsPayForSetBacks
<1>1. EndpointsSpec => [](LimiterTypeOK /\ BurstBound /\ ArmedOrArming)
  BY CallsImplementLimiter, LimiterTypeCorrect, BurstBoundHolds, ArmedOrArmingHolds, PTL
<1>2. EndpointsSpec => RestartsPayForSetBacks
  BY CallsImplementLimiter, SetBacksArePaidFor
<1>3. QED
  BY <1>1, <1>2

-----------------------------------------------------------------------------
\* What calls hold

Opens(r) ==
    /\ route[r] = NoRoute
    /\ \E t \in Served : route' = [route EXCEPT ![r] = t]
    /\ UNCHANGED <<pos, held, out>>

Walks(r) ==
    /\ pos[r] <= Len(Steps(r)) /\ Steps(r)[pos[r]] # "commit"
    /\ Pass(r)
    /\ UNCHANGED <<held, out>>

\* As far as calls go, a step is one of six.
LEMMA StepKinds ==
  ASSUME [EndpointsNext]_vars
  PROVE  \/ UNCHANGED callVars
         \/ \E r \in Request :
               Opens(r) \/ Walks(r) \/ Connect(r) \/ Lock(r) \/ Commit(r) \/ End(r)
<1>1. ASSUME NEW r \in Request, Limited(r)
      PROVE  Walks(r) \/ UNCHANGED callVars
  BY <1>1 DEF Limited, Walks, Due, callVars
<1>2. ASSUME NEW r \in Request,
             \/ LimitedElsewhere(r) \/ Authenticate(r) \/ Validate(r)
             \/ LockAnother(r) \/ Reply(r) \/ Mail(r)
      PROVE  Walks(r)
  BY <1>2 DEF LimitedElsewhere, Authenticate, Validate, LockAnother, Reply, Mail, Walks, Due
<1>3. ASSUME NEW r \in Request, TooMany(r) \/ Close(r) \/ Drop(r)
      PROVE  End(r)
  BY <1>3 DEF TooMany, Close, Drop
<1>4. ASSUME NEW r \in Request, NEW t \in Served, Begin(r, t)
      PROVE  Opens(r)
  BY <1>4 DEF Begin, Opens
<1>5. CASE (RedisRestart \/ Tick) /\ UNCHANGED callVars
  BY <1>5
<1>6. CASE UNCHANGED vars
  BY <1>6 DEF vars
<1>7. QED
  BY <1>1, <1>2, <1>3, <1>4, <1>5, <1>6 DEF EndpointsNext, Serve

\* A transaction that r began has not been committed.
Pending(r) ==
    \E j \in 1 .. pos[r] - 1 :
        /\ Steps(r)[j] \in {"connect", "lock"}
        /\ \A k \in j .. pos[r] - 1 : Steps(r)[k] # "commit"

HeldInv == \A r \in Request : held[r] # {} => Pending(r)

CallsInv == EndpointsTypeOK /\ HeldInv /\ PoolAccounted

LEMMA RoutesServed == \A t \in Served \cup {NoRoute} : WellFormed(t) /\ Len(t.steps) \in Nat
<1>1. WellFormed(NoRoute)
  BY DEF WellFormed, OneAtATime, Guarded, NoRoute, Route
<1>2. QED
  BY <1>1, RoutesWellFormed, EndpointsAssumption DEF WellFormed

\* The pool's books are read through a set that the type invariant bounds.
Connected == {r \in Request : "connection" \in held[r]}

LEMMA ConnectedFinite == IsFiniteSet(Connected) /\ Cardinality(Connected) \in Nat
  BY LimiterAssumption, FS_Subset, FS_CardinalityType DEF Connected

LEMMA WaitsWithNothing == CallsInv => NoHoldAndWait
<1> SUFFICES ASSUME CallsInv, NEW r \in Request, Due(r, "connect"), held[r] # {}
             PROVE  FALSE
    BY DEF NoHoldAndWait
<1>1. WellFormed(route[r]) /\ Len(Steps(r)) \in Nat
  BY RoutesServed DEF CallsInv, EndpointsTypeOK, Steps
<1>2. PICK j \in 1 .. pos[r] - 1 :
        /\ Steps(r)[j] \in {"connect", "lock"}
        /\ \A k \in j .. pos[r] - 1 : Steps(r)[k] # "commit"
  BY DEF CallsInv, HeldInv, Pending
<1>3. pos[r] \in 1 .. Len(Steps(r)) /\ Steps(r)[pos[r]] = "connect" /\ j \in 1 .. Len(Steps(r))
  BY <1>1, <1>2 DEF Due, CallsInv, EndpointsTypeOK
<1>4. QED
  BY <1>1, <1>2, <1>3 DEF WellFormed, OneAtATime, Steps

LEMMA InitCallsInv == EndpointsInit => CallsInv
<1> SUFFICES ASSUME EndpointsInit PROVE CallsInv
    OBVIOUS
<1>1. EndpointsTypeOK
  BY EndpointsAssumption DEF EndpointsInit, EndpointsTypeOK, Steps, NoRoute, Route
<1>2. HeldInv
  BY DEF EndpointsInit, HeldInv
<1>3. PoolAccounted
  <2>1. {r \in Request : "connection" \in held[r]} = {}
    BY DEF EndpointsInit
  <2>2. QED
    BY <2>1, FS_EmptySet DEF EndpointsInit, PoolAccounted
<1>4. QED
  BY <1>1, <1>2, <1>3 DEF CallsInv

LEMMA OpensKeepsCallsInv ==
  ASSUME CallsInv, NEW r \in Request, Opens(r)
  PROVE  CallsInv'
<1>1. PICK t \in Served : route' = [route EXCEPT ![r] = t]
  BY DEF Opens
<1>2. Len(t.steps) \in Nat
  BY RoutesServed
<1>3. pos[r] = 1 /\ held[r] = {}
  <2>1. pos[r] = 1
    BY DEF Opens, CallsInv, EndpointsTypeOK, Steps, NoRoute, Route
  <2>2. QED
    BY <2>1 DEF CallsInv, HeldInv, Pending
<1>4. EndpointsTypeOK'
  BY <1>1, <1>2, <1>3 DEF CallsInv, EndpointsTypeOK, Opens, Steps
<1>5. ASSUME NEW q \in Request, held'[q] # {}
      PROVE  Pending(q)'
  <2>1. q # r /\ held[q] # {}
    BY <1>3, <1>5 DEF Opens
  <2>2. Steps(q)' = Steps(q) /\ pos'[q] = pos[q]
    BY <1>1, <2>1 DEF CallsInv, EndpointsTypeOK, Opens, Steps
  <2>3. QED
    BY <2>1, <2>2 DEF CallsInv, HeldInv, Pending
<1>6. PoolAccounted'
  BY DEF CallsInv, PoolAccounted, Opens
<1>7. QED
  BY <1>4, <1>5, <1>6 DEF CallsInv, HeldInv

\* One step further, what was pending is still pending, unless it was the commit.
LEMMA PassKeepsPending ==
  ASSUME EndpointsTypeOK, NEW r \in Request, Pass(r),
         pos[r] <= Len(Steps(r)), Steps(r)[pos[r]] # "commit",
         NEW q \in Request, Pending(q)
  PROVE  Pending(q)'
<1>1. PICK j \in 1 .. pos[q] - 1 :
        /\ Steps(q)[j] \in {"connect", "lock"}
        /\ \A k \in j .. pos[q] - 1 : Steps(q)[k] # "commit"
  BY DEF Pending
<1>2. pos[q] \in Nat /\ pos[q] <= pos'[q] /\ Steps(q)' = Steps(q) /\ pos'[q] \in Nat
  BY DEF EndpointsTypeOK, Pass, Steps
<1>3. \A k \in j .. pos'[q] - 1 : Steps(q)[k] # "commit"
  BY <1>1 DEF EndpointsTypeOK, Pass
<1>4. QED
  BY <1>1, <1>2, <1>3 DEF Pending

LEMMA PassKeepsPlaces ==
  ASSUME EndpointsTypeOK, NEW r \in Request, Pass(r), pos[r] <= Len(Steps(r))
  PROVE  /\ route' \in [Request -> Served \cup {NoRoute}]
         /\ pos' \in [Request -> Nat]
         /\ \A q \in Request : pos'[q] \in 1 .. Len(Steps(q))' + 1
<1>1. \A q \in Request : Len(Steps(q)) \in Nat
  BY RoutesServed DEF EndpointsTypeOK, Steps
<1>2. QED
  BY <1>1 DEF EndpointsTypeOK, Pass, Steps

LEMMA WalksKeepsCallsInv ==
  ASSUME CallsInv, NEW r \in Request, Walks(r)
  PROVE  CallsInv'
<1>1. EndpointsTypeOK'
  BY PassKeepsPlaces DEF CallsInv, EndpointsTypeOK, Walks
<1>2. HeldInv'
  BY PassKeepsPending DEF CallsInv, HeldInv, Walks
<1>3. PoolAccounted'
  BY DEF CallsInv, PoolAccounted, Walks
<1>4. QED
  BY <1>1, <1>2, <1>3 DEF CallsInv

\* The pool had no connection out for r, which NoHoldAndWait says: the set of
\* those that have one grows as much as the count.
LEMMA ConnectKeepsCallsInv ==
  ASSUME CallsInv, NEW r \in Request, Connect(r)
  PROVE  CallsInv'
<1>1. held[r] = {}
  BY WaitsWithNothing DEF NoHoldAndWait, Connect
<1>2. EndpointsTypeOK'
  BY PassKeepsPlaces, EndpointsAssumption
     DEF CallsInv, EndpointsTypeOK, Connect, Due, Take
<1>3. HeldInv'
  <2>1. Pending(r)'
    <3>1. pos[r] \in Nat /\ pos'[r] = pos[r] + 1 /\ Steps(r)' = Steps(r)
      BY DEF CallsInv, EndpointsTypeOK, Connect, Pass, Steps
    <3>2. pos[r] \in 1 .. pos'[r] - 1 /\ Steps(r)[pos[r]] = "connect"
      BY <3>1 DEF CallsInv, EndpointsTypeOK, Connect, Due
    <3>3. QED
      BY <3>1, <3>2 DEF Pending
  <2>2. ASSUME NEW q \in Request \ {r}, held'[q] # {}
        PROVE  Pending(q)'
    BY <2>2, PassKeepsPending
       DEF CallsInv, HeldInv, EndpointsTypeOK, Connect, Take, Due
  <2>3. QED
    BY <2>1, <2>2 DEF HeldInv
<1>4. PoolAccounted'
  <2>1. {q \in Request : "connection" \in held'[q]} = Connected \cup {r}
    BY DEF Connected, CallsInv, EndpointsTypeOK, Connect, Take
  <2>2. r \notin Connected
    BY <1>1 DEF Connected
  <2>3. Cardinality(Connected \cup {r}) = Cardinality(Connected) + 1
    BY <2>2, ConnectedFinite, FS_AddElement
  <2>4. QED
    BY <2>1, <2>3 DEF CallsInv, PoolAccounted, Connected, Connect
<1>5. QED
  BY <1>2, <1>3, <1>4 DEF CallsInv

LEMMA LockKeepsCallsInv ==
  ASSUME CallsInv, NEW r \in Request, Lock(r)
  PROVE  CallsInv'
<1>1. EndpointsTypeOK'
  BY PassKeepsPlaces DEF CallsInv, EndpointsTypeOK, Lock, Due, Take
<1>2. HeldInv'
  <2>1. Pending(r)'
    <3>1. pos[r] \in Nat /\ pos'[r] = pos[r] + 1 /\ Steps(r)' = Steps(r)
      BY DEF CallsInv, EndpointsTypeOK, Lock, Pass, Steps
    <3>2. pos[r] \in 1 .. pos'[r] - 1 /\ Steps(r)[pos[r]] = "lock"
      BY <3>1 DEF CallsInv, EndpointsTypeOK, Lock, Due
    <3>3. QED
      BY <3>1, <3>2 DEF Pending
  <2>2. ASSUME NEW q \in Request \ {r}, held'[q] # {}
        PROVE  Pending(q)'
    BY <2>2, PassKeepsPending DEF CallsInv, HeldInv, EndpointsTypeOK, Lock, Take, Due
  <2>3. QED
    BY <2>1, <2>2 DEF HeldInv
<1>3. PoolAccounted'
  <2>1. \A q \in Request : "connection" \in held'[q] <=> "connection" \in held[q]
    BY DEF CallsInv, EndpointsTypeOK, Lock, Take
  <2>2. QED
    BY <2>1 DEF CallsInv, PoolAccounted, Lock
<1>4. QED
  BY <1>1, <1>2, <1>3 DEF CallsInv

\* What is given back was counted: the count stays above zero, and right.
LEMMA ReleaseKeepsAccounts ==
  ASSUME CallsInv, NEW r \in Request, Release(r)
  PROVE  /\ PoolAccounted'
         /\ out' \in 0 .. PoolSize
         /\ held' \in [Request -> SUBSET {"connection", "row"}]
<1> USE DEF CallsInv, EndpointsTypeOK, Release
<1>1. {q \in Request : "connection" \in held'[q]} = Connected \ {r}
  BY DEF Connected
<1>2. /\ Cardinality(Connected \ {r}) \in Nat
      /\ Cardinality(Connected \ {r}) =
           IF r \in Connected THEN Cardinality(Connected) - 1 ELSE Cardinality(Connected)
  BY ConnectedFinite, FS_RemoveElement, FS_CardinalityType
<1>3. out = Cardinality(Connected)
  BY DEF PoolAccounted, Connected
<1>4. out' = Cardinality(Connected \ {r})
  BY <1>2, <1>3 DEF Connected
<1>5. PoolAccounted'
  BY <1>1, <1>4 DEF PoolAccounted
<1>6. out' \in 0 .. PoolSize
  BY <1>2, <1>4, EndpointsAssumption
<1>7. held' \in [Request -> SUBSET {"connection", "row"}]
  OBVIOUS
<1>8. QED
  BY <1>5, <1>6, <1>7

LEMMA CommitKeepsCallsInv ==
  ASSUME CallsInv, NEW r \in Request, Commit(r)
  PROVE  CallsInv'
<1>1. EndpointsTypeOK'
  BY PassKeepsPlaces, ReleaseKeepsAccounts DEF CallsInv, EndpointsTypeOK, Commit, Due
<1>2. ASSUME NEW q \in Request, held'[q] # {}
      PROVE  Pending(q)'
  <2>1. q # r /\ held[q] # {}
    BY <1>2 DEF CallsInv, EndpointsTypeOK, Commit, Release
  <2>2. Steps(q)' = Steps(q) /\ pos'[q] = pos[q]
    BY <2>1 DEF CallsInv, EndpointsTypeOK, Commit, Pass, Steps
  <2>3. QED
    BY <2>1, <2>2 DEF CallsInv, HeldInv, Pending
<1>3. PoolAccounted'
  BY ReleaseKeepsAccounts DEF Commit
<1>4. QED
  BY <1>1, <1>2, <1>3 DEF CallsInv, HeldInv

LEMMA EndKeepsCallsInv ==
  ASSUME CallsInv, NEW r \in Request, End(r)
  PROVE  CallsInv'
<1>1. \A q \in Request \ {r} : Steps(q)' = Steps(q) /\ pos'[q] = pos[q] /\ held'[q] = held[q]
  BY DEF CallsInv, EndpointsTypeOK, End, Forget, Release, Steps
<1>2. pos'[r] = 1 /\ Len(Steps(r))' = 0 /\ held'[r] = {}
  BY DEF CallsInv, EndpointsTypeOK, End, Forget, Release, Steps, NoRoute, Route
<1>3. EndpointsTypeOK'
  <2>1. route' \in [Request -> Served \cup {NoRoute}] /\ pos' \in [Request -> Nat]
    BY DEF CallsInv, EndpointsTypeOK, End, Forget
  <2>2. \A q \in Request : pos'[q] \in 1 .. Len(Steps(q))' + 1
    BY <1>1, <1>2 DEF CallsInv, EndpointsTypeOK
  <2>3. QED
    BY <2>1, <2>2, ReleaseKeepsAccounts DEF EndpointsTypeOK, End
<1>4. HeldInv'
  BY <1>1, <1>2 DEF CallsInv, HeldInv, Pending
<1>5. PoolAccounted'
  BY ReleaseKeepsAccounts DEF End
<1>6. QED
  BY <1>3, <1>4, <1>5 DEF CallsInv

LEMMA NextCallsInv == CallsInv /\ [EndpointsNext]_vars => CallsInv'
<1> SUFFICES ASSUME CallsInv, [EndpointsNext]_vars PROVE CallsInv'
    OBVIOUS
<1>1. CASE UNCHANGED callVars
  BY <1>1 DEF callVars, CallsInv, EndpointsTypeOK, HeldInv, Pending, PoolAccounted, Steps
<1>2. QED
  BY <1>1, StepKinds, OpensKeepsCallsInv, WalksKeepsCallsInv, ConnectKeepsCallsInv,
     LockKeepsCallsInv, CommitKeepsCallsInv, EndKeepsCallsInv

\* The routes, the places in them and what is held keep their types, and no more
\* connections are out than the pool has.
THEOREM EndpointsTypeCorrect == EndpointsSpec => []EndpointsTypeOK
<1>1. CallsInv => EndpointsTypeOK
  BY DEF CallsInv
<1>2. QED
  BY <1>1, InitCallsInv, NextCallsInv, PTL DEF EndpointsSpec

\* The pool gets back every connection it handed out, once.
THEOREM PoolAccountedHolds == EndpointsSpec => []PoolAccounted
<1>1. CallsInv => PoolAccounted
  BY DEF CallsInv
<1>2. QED
  BY <1>1, InitCallsInv, NextCallsInv, PTL DEF EndpointsSpec

\* No call of any route waits for a connection with another one, or with a row,
\* in hand: a full pool is not a deadlock, whatever its size.
THEOREM NoHoldAndWaitHolds == EndpointsSpec => []NoHoldAndWait
  BY WaitsWithNothing, InitCallsInv, NextCallsInv, PTL DEF EndpointsSpec

-----------------------------------------------------------------------------
\* What calls went through before they hold anything

\* A call whose limiter is behind it is in the limiter's books as admitted.
AdmittedInv ==
    \A r \in Request : route[r].scope = Scope /\ "limit" \in Passed(r) => call[r] = "admitted"

LEMMA InitAdmittedInv == EndpointsInit => AdmittedInv
  BY DEF EndpointsInit, AdmittedInv, Passed

\* Who stands where he stood, and whom the limiter knows as it knew him.
Still(q) == /\ route'[q] = route[q] /\ pos'[q] = pos[q] /\ call'[q] = call[q]

LEMMA PassKeepsAdmitted ==
  ASSUME EndpointsTypeOK, AdmittedInv, call \in [Request -> Stage], NEW r \in Request,
         Pass(r), pos[r] <= Len(Steps(r)), UNCHANGED call,
         Steps(r)[pos[r]] # "limit" \/ route[r].scope # Scope
  PROVE  AdmittedInv'
<1> SUFFICES ASSUME NEW q \in Request, route'[q].scope = Scope, "limit" \in Passed(q)'
             PROVE  call[q] = "admitted"
    BY DEF AdmittedInv
<1>1. route'[q] = route[q] /\ Steps(q)' = Steps(q)
  BY DEF Pass, Steps
<1>2. PICK k \in 1 .. pos'[q] - 1 : Steps(q)[k] = "limit"
  BY <1>1 DEF Passed
<1>3. k \in 1 .. pos[q] - 1
  BY <1>1, <1>2 DEF EndpointsTypeOK, Pass
<1>4. QED
  BY <1>1, <1>2, <1>3 DEF AdmittedInv, Passed

LEMMA EndKeepsAdmitted ==
  ASSUME EndpointsTypeOK, AdmittedInv, NEW r \in Request, End(r),
         \A q \in Request \ {r} : call'[q] = call[q]
  PROVE  AdmittedInv'
<1>1. "limit" \notin Passed(r)'
  BY DEF EndpointsTypeOK, End, Forget, Passed
<1>2. \A q \in Request \ {r} : Still(q) /\ Passed(q)' = Passed(q)
  BY DEF EndpointsTypeOK, End, Forget, Still, Passed, Steps
<1>3. QED
  BY <1>1, <1>2 DEF AdmittedInv, Still

\* A second INCR of one call is out of the question: it is not at "incr" again
\* before it ends.
LEMMA LimitedKeepsAdmitted ==
  ASSUME EndpointsTypeOK, AdmittedInv, call \in [Request -> Stage], NEW r \in Request,
         Limited(r)
  PROVE  AdmittedInv'
<1>1. \A q \in Request \ {r} : call'[q] = call[q]
  BY DEF Limited, Incr, Expire, Admit, At
<1>2. call[r] # "admitted"
  BY DEF Limited, Incr, Expire
<1>3. CASE call'[r] = "admitted"
  <2>1. \A q \in Request \ {r} : Still(q) /\ Passed(q)' = Passed(q)
    BY <1>1, <1>3 DEF EndpointsTypeOK, Limited, Pass, Still, Passed, Steps
  <2>2. QED
    BY <2>1, <1>3 DEF AdmittedInv, Still
<1>4. CASE call'[r] # "admitted"
  <2>1. \A q \in Request : route'[q] = route[q] /\ Passed(q)' = Passed(q)
    BY <1>4 DEF Limited, Passed, Steps
  <2>2. QED
    BY <2>1, <1>1, <1>2 DEF AdmittedInv, Limited
<1>5. QED
  BY <1>3, <1>4

LEMMA NextAdmittedInv ==
  EndpointsTypeOK /\ LimiterTypeOK /\ AdmittedInv /\ [EndpointsNext]_vars => AdmittedInv'
<1> SUFFICES ASSUME EndpointsTypeOK, LimiterTypeOK, AdmittedInv, [EndpointsNext]_vars
             PROVE  AdmittedInv'
    OBVIOUS
<1>1. call \in [Request -> Stage]
  BY DEF LimiterTypeOK
<1>2. ASSUME NEW r \in Request, Limited(r)
      PROVE  AdmittedInv'
  BY <1>1, <1>2, LimitedKeepsAdmitted
<1>3. ASSUME NEW r \in Request,
             \/ LimitedElsewhere(r) \/ Authenticate(r) \/ Validate(r) \/ Connect(r)
             \/ Lock(r) \/ LockAnother(r) \/ Commit(r) \/ Reply(r) \/ Mail(r)
      PROVE  AdmittedInv'
  <2>1. /\ Pass(r) /\ UNCHANGED call /\ pos[r] <= Len(Steps(r))
        /\ Steps(r)[pos[r]] # "limit" \/ route[r].scope # Scope
    BY <1>3 DEF LimitedElsewhere, Authenticate, Validate, Connect, Lock, LockAnother, Commit,
                Reply, Mail, Due, limiterVars
  <2>2. QED
    BY <1>1, <2>1, PassKeepsAdmitted
<1>4. ASSUME NEW r \in Request, TooMany(r) \/ Close(r) \/ Drop(r)
      PROVE  AdmittedInv'
  <2>1. End(r)
    BY <1>4 DEF TooMany, Close, Drop
  <2>2. \A q \in Request \ {r} : call'[q] = call[q]
    BY <1>1, <1>4
       DEF TooMany, Close, Drop, RefuseWithTTL, LeaveLimiter, Return, Fail, At, limiterVars
  <2>3. QED
    BY <2>1, <2>2, EndKeepsAdmitted
<1>5. ASSUME NEW r \in Request, NEW t \in Served, Begin(r, t)
      PROVE  AdmittedInv'
  <2>1. pos[r] = 1
    BY <1>5 DEF Begin, EndpointsTypeOK, Steps, NoRoute, Route
  <2>2. "limit" \notin Passed(r)'
    BY <1>5, <2>1 DEF Begin, Passed
  <2>3. \A q \in Request \ {r} : Still(q) /\ Passed(q)' = Passed(q)
    BY <1>5 DEF EndpointsTypeOK, Begin, Still, Passed, Steps, limiterVars
  <2>4. QED
    BY <2>2, <2>3 DEF AdmittedInv, Still
<1>6. CASE (RedisRestart \/ Tick) /\ UNCHANGED callVars
  BY <1>6 DEF RedisRestart, Tick, callVars, AdmittedInv, Passed, Steps
<1>7. CASE UNCHANGED vars
  BY <1>7 DEF vars, limiterVars, callVars, AdmittedInv, Passed, Steps
<1>8. QED
  BY <1>2, <1>3, <1>4, <1>5, <1>6, <1>7 DEF EndpointsNext, Serve

\* What has been passed holds all that stands before any step that was.
LEMMA BeforeIsPassed ==
  ASSUME EndpointsTypeOK, NEW r \in Request, NEW j \in 1 .. pos[r]
  PROVE  Before(Steps(r), j) \subseteq Passed(r)
  BY DEF EndpointsTypeOK, Before, Passed

LEMMA HeldIsGuarded == CallsInv /\ AdmittedInv => GuardsFirst
<1> SUFFICES ASSUME CallsInv, AdmittedInv, NEW r \in Request, held[r] # {}
             PROVE  /\ route[r].scope = Scope => call[r] = "admitted"
                    /\ route[r].scope # "none" => "limit" \in Passed(r)
                    /\ route[r] \in AdminRoutes => "auth" \in Passed(r)
                    /\ "input" \in Passed(r)
    BY DEF GuardsFirst
<1>1. WellFormed(route[r]) /\ Len(Steps(r)) \in Nat
  BY RoutesServed DEF CallsInv, EndpointsTypeOK, Steps
<1>2. PICK j \in 1 .. pos[r] - 1 : Steps(r)[j] \in {"connect", "lock"}
  BY DEF CallsInv, HeldInv, Pending
<1>3. j \in 1 .. Len(Steps(r)) /\ Before(Steps(r), j) \subseteq Passed(r)
  BY <1>1, <1>2, BeforeIsPassed DEF CallsInv, EndpointsTypeOK
<1>4. "input" \in Passed(r) /\ (route[r].scope # "none" => "limit" \in Passed(r))
  BY <1>1, <1>2, <1>3 DEF WellFormed, Guarded, Steps
<1>5. route[r] \in AdminRoutes => "auth" \in Passed(r)
  BY <1>2, <1>3, AuthFirst DEF Steps
<1>6. QED
  BY <1>4, <1>5, EndpointsAssumption DEF AdmittedInv

\* Whatever route it is of, a call holds something of the database only after its
\* counter let it in, its token was read and its input was valid.
THEOREM GuardsFirstHolds == EndpointsSpec => []GuardsFirst
<1>1. CallsInv => EndpointsTypeOK
  BY DEF CallsInv
<1>2. EndpointsSpec => []LimiterTypeOK
  BY CallsImplementLimiter, LimiterTypeCorrect, PTL
<1>3. EndpointsSpec => []CallsInv
  BY InitCallsInv, NextCallsInv, PTL DEF EndpointsSpec
<1>4. EndpointsSpec => []AdmittedInv
  BY <1>1, <1>2, <1>3, InitAdmittedInv, NextAdmittedInv, PTL DEF EndpointsSpec
<1>5. QED
  BY <1>3, <1>4, HeldIsGuarded, PTL
=============================================================================
