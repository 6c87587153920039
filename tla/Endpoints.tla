------------------------------ MODULE Endpoints ------------------------------
(***************************************************************************)
(* What every request goes through (app/api): the rate limiter of its      *)
(* scope, the access token, the validation of its input, transactions over *)
(* a bounded pool of connections, its answer and what follows the answer.  *)
(*                                                                         *)
(* A route is a scope and the steps of a call of it, in the order FastAPI  *)
(* and the handler take them; one action is one step. Of the counters, one *)
(* is followed command by command (RateLimiter): that of Scope, for one    *)
(* address, or one e-mail in the case of the login. Calls of other scopes  *)
(* are let through or refused by counters of their own. What transactions  *)
(* read and write is left to the other modules: here a transaction takes a *)
(* connection, perhaps a row that others want too, and gives both back.    *)
(***************************************************************************)
EXTENDS RateLimiter, Sequences

CONSTANTS
    Served,      \* the routes called in this instance
    Scope,       \* the scope whose counter is followed
    PoolSize     \* pool_size + max_overflow

-----------------------------------------------------------------------------
\* The steps of the routes. A transaction is "connect", its first SELECT or
\* INSERT, "lock", and "commit", which returns the connection; a "connect" after
\* it is refresh(), or the next SELECT, and the session keeps that connection.

Route(scope, steps) == [scope |-> scope, steps |-> steps]

PublicRead == Route("public-api", <<"limit", "input", "connect", "reply">>)

AdminRead == Route("none", <<"auth", "input", "connect", "reply">>)

\* Mutant: the handler asks for the user after the use case has run.
AdminSaveAuthLast ==
    Route("admin-write",
          <<"limit", "input", "connect", "lock", "commit", "auth", "connect", "reply">>)

\* POST and PUT: dependencies=[limit] is solved before the parameters.
AdminSave ==
    Route("admin-write",
          <<"limit", "auth", "input", "connect", "lock", "commit", "connect", "reply">>)

AdminDelete ==
    Route("admin-write", <<"limit", "auth", "input", "connect", "lock", "commit", "reply">>)

\* The key holds the e-mail of the body, so the body comes first. record_login
\* and the new token are committed apart, and the token's row is read again.
Login ==
    Route("login",
          <<"input", "limit", "connect", "lock", "commit", "connect", "lock", "commit",
            "connect", "reply">>)

Logout == Route("none", <<"auth", "input", "connect", "lock", "commit", "reply">>)

Refresh ==
    Route("refresh",
          <<"limit", "input", "connect", "lock", "commit", "connect", "lock", "commit",
            "connect", "reply">>)

\* The e-mail is a background task: it runs after the answer was sent and, like
\* the answer, before the session is closed.
Contact ==
    Route("contact",
          <<"limit", "input", "connect", "lock", "commit", "connect", "reply", "mail">>)

Health == Route("none", <<"reply">>)

\* What the API asks a token for.
AdminRoutes == {AdminRead, AdminSave, AdminDelete, Logout}

-----------------------------------------------------------------------------
\* The routers

AdminWrites == {AdminSave, AdminDelete}

ProjectRouter == {PublicRead, AdminRead} \cup AdminWrites
ArticleRouter == {PublicRead, AdminRead} \cup AdminWrites
CaseStudyRouter == {PublicRead, AdminRead} \cup AdminWrites
TeamMemberRouter == {PublicRead, AdminRead} \cup AdminWrites
ServiceRouter == {PublicRead, AdminRead} \cup AdminWrites
TechnologyRouter == {PublicRead} \cup AdminWrites
TestimonialRouter == {PublicRead} \cup AdminWrites
ClientRouter == {PublicRead} \cup AdminWrites
PartnerRouter == {PublicRead} \cup AdminWrites
ServiceLineRouter == {PublicRead} \cup AdminWrites
ProductRouter == {PublicRead} \cup AdminWrites
CompanyRouter == {PublicRead, AdminSave}
AuthRouter == {Login, Logout, Refresh}
ContactRouter == {Contact}

ApiRouter ==
    ProjectRouter \cup ArticleRouter \cup CaseStudyRouter \cup TeamMemberRouter
    \cup ServiceRouter \cup TechnologyRouter \cup TestimonialRouter \cup ClientRouter
    \cup PartnerRouter \cup ServiceLineRouter \cup ProductRouter \cup CompanyRouter
    \cup AuthRouter \cup ContactRouter

Api == ApiRouter \cup {Health}

ASSUME EndpointsAssumption ==
    /\ Served \subseteq Api
    /\ Scope # "none"
    /\ PoolSize \in Nat \ {0}

-----------------------------------------------------------------------------
VARIABLES
    route,   \* the route of the call r is in, NoRoute between two calls
    pos,     \* the place in its steps of the one r takes next
    held,    \* what its session holds: a connection, a row lock
    out      \* connections the pool has handed out

callVars == <<route, pos, held, out>>
vars == <<limiterVars, callVars>>

NoRoute == Route("none", <<>>)
Steps(r) == route[r].steps

EndpointsTypeOK ==
    /\ route \in [Request -> Served \cup {NoRoute}]
    /\ pos \in [Request -> Nat]
    /\ \A r \in Request : pos[r] \in 1 .. Len(Steps(r)) + 1
    /\ held \in [Request -> SUBSET {"connection", "row"}]
    /\ out \in 0 .. PoolSize

EndpointsInit ==
    /\ LimiterInit
    /\ route = [r \in Request |-> NoRoute]
    /\ pos = [r \in Request |-> 1]
    /\ held = [r \in Request |-> {}]
    /\ out = 0

Due(r, step) == pos[r] <= Len(Steps(r)) /\ Steps(r)[pos[r]] = step
Passed(r) == {Steps(r)[k] : k \in 1 .. pos[r] - 1}

Pass(r) == pos' = [pos EXCEPT ![r] = @ + 1] /\ UNCHANGED route

Take(r, thing) == held' = [held EXCEPT ![r] = @ \cup {thing}]

\* What the transaction locked is unlocked, its connection goes back.
Release(r) ==
    /\ held' = [held EXCEPT ![r] = {}]
    /\ out' = IF "connection" \in held[r] THEN out - 1 ELSE out

\* Bound: a call that will hit the counter starts only while there is room.
Arriving ==
    {q \in Request : route[q].scope = Scope /\ call[q] = "incr" /\ "limit" \notin Passed(q)}
RoomFor(t) == t.scope = Scope => hits + Cardinality(Arriving) < MaxHits

Begin(r, t) ==
    /\ route[r] = NoRoute
    /\ RoomFor(t)
    /\ route' = [route EXCEPT ![r] = t]
    /\ UNCHANGED <<limiterVars, pos, held, out>>

-----------------------------------------------------------------------------
\* The steps

Limited(r) ==
    /\ Due(r, "limit") /\ route[r].scope = Scope
    /\ Incr(r) \/ Expire(r)
    /\ IF call'[r] = "admitted" THEN Pass(r) ELSE UNCHANGED <<route, pos>>
    /\ UNCHANGED <<held, out>>

LimitedElsewhere(r) ==
    /\ Due(r, "limit") /\ route[r].scope # Scope
    /\ Pass(r)
    /\ UNCHANGED <<limiterVars, held, out>>

\* get_current_user_id reads the token alone: it does not touch the database.
Authenticate(r) ==
    /\ Due(r, "auth")
    /\ Pass(r)
    /\ UNCHANGED <<limiterVars, held, out>>

\* Path, query and body against their schemas.
Validate(r) ==
    /\ Due(r, "input")
    /\ Pass(r)
    /\ UNCHANGED <<limiterVars, held, out>>

\* Mutant: max_overflow=-1.
ConnectUnbounded(r) ==
    /\ Due(r, "connect")
    /\ Take(r, "connection")
    /\ out' = out + 1
    /\ Pass(r)
    /\ UNCHANGED limiterVars

\* A session asks the pool for a connection when it first needs one.
Connect(r) ==
    /\ Due(r, "connect")
    /\ out < PoolSize
    /\ Take(r, "connection")
    /\ out' = out + 1
    /\ Pass(r)
    /\ UNCHANGED limiterVars

\* FOR UPDATE, UPDATE or DELETE of the one row that every call may want.
Lock(r) ==
    /\ Due(r, "lock")
    /\ \A q \in Request : "row" \notin held[q]
    /\ Take(r, "row")
    /\ Pass(r)
    /\ UNCHANGED <<limiterVars, out>>

\* The same for a row that nobody else wants, or a new one.
LockAnother(r) ==
    /\ Due(r, "lock")
    /\ Pass(r)
    /\ UNCHANGED <<limiterVars, held, out>>

\* Mutant: the session keeps its connection between two transactions.
CommitKeepsConnection(r) ==
    /\ Due(r, "commit")
    /\ held' = [held EXCEPT ![r] = @ \ {"row"}]
    /\ Pass(r)
    /\ UNCHANGED <<limiterVars, out>>

\* Mutant: the row lock outlives the transaction.
CommitKeepsRow(r) ==
    /\ Due(r, "commit")
    /\ held' = [held EXCEPT ![r] = @ \ {"connection"}]
    /\ out' = out - 1
    /\ Pass(r)
    /\ UNCHANGED limiterVars

Commit(r) ==
    /\ Due(r, "commit")
    /\ Release(r)
    /\ Pass(r)
    /\ UNCHANGED limiterVars

Reply(r) ==
    /\ Due(r, "reply")
    /\ Pass(r)
    /\ UNCHANGED <<limiterVars, held, out>>

\* Resend is asked to send it: whether it does or not, the call goes on.
Mail(r) ==
    /\ Due(r, "mail")
    /\ Pass(r)
    /\ UNCHANGED <<limiterVars, held, out>>

-----------------------------------------------------------------------------
\* The end of a call

Forget(r) ==
    /\ route' = [route EXCEPT ![r] = NoRoute]
    /\ pos' = [pos EXCEPT ![r] = 1]

\* Mutant: a session that nobody closes.
EndLeaks(r) ==
    /\ Forget(r)
    /\ held' = [held EXCEPT ![r] = {}]
    /\ UNCHANGED out

\* get_db closes the session, and a transaction left open is rolled back.
End(r) == Forget(r) /\ Release(r)

\* Mutant: a call that ends gives its hit back.
LeaveLimiterRefunds(r) ==
    IF call[r] = "admitted"
      THEN /\ At(r, "incr")
           /\ hits' = hits - 1
           /\ UNCHANGED <<ttl, failures, restarts, admitted>>
      ELSE UNCHANGED limiterVars

\* The counter keeps its hit, however the call ends.
LeaveLimiter(r) == IF call[r] = "admitted" THEN Return(r) ELSE UNCHANGED limiterVars

Close(r) ==
    /\ route[r] # NoRoute /\ pos[r] > Len(Steps(r))
    /\ End(r)
    /\ LeaveLimiter(r)

\* 429, after the counter's TTL was read.
TooMany(r) == Due(r, "limit") /\ RefuseWithTTL(r) /\ End(r)

\* Any other end: a 429 of another counter, 401, 422, 404, 409 or 500, no
\* connection within the pool's timeout, a lock wait that timed out, a client
\* or a worker that is gone.
Drop(r) ==
    /\ route[r] # NoRoute
    /\ End(r)
    /\ IF call[r] \in {"expire", "ttl"} THEN Fail(r) ELSE LeaveLimiter(r)

Serve(r) ==
    \/ Limited(r) \/ LimitedElsewhere(r) \/ TooMany(r) \/ Authenticate(r) \/ Validate(r)
    \/ Connect(r) \/ Lock(r) \/ Commit(r) \/ Reply(r) \/ Mail(r) \/ Close(r)

EndpointsNext ==
    \/ \E r \in Request : Serve(r) \/ LockAnother(r) \/ Drop(r)
    \/ \E r \in Request, t \in Served : Begin(r, t)
    \/ RedisRestart /\ UNCHANGED callVars
    \/ Tick /\ UNCHANGED callVars

EndpointsSpec == EndpointsInit /\ [][EndpointsNext]_vars

\* Time passes, the event loop runs every ready coroutine, and both the pool and
\* InnoDB grant what is waited for in the order it was asked for. No fairness on
\* clients, failures, nor on the timeouts of the pool and of lock waits.
EndpointsFairSpec ==
    /\ EndpointsSpec
    /\ WF_vars(Tick /\ UNCHANGED callVars)
    /\ \A r \in Request : SF_vars(Serve(r))

-----------------------------------------------------------------------------
\* Properties

\* The pool gets back every connection it handed out, however the call that had
\* it ends: none is lost, none returned twice.
PoolAccounted == out = Cardinality({r \in Request : "connection" \in held[r]})

\* Nobody waits for a connection while others may wait for what he holds: a full
\* pool cannot be a deadlock.
NoHoldAndWait == \A r \in Request : Due(r, "connect") => held[r] = {}

\* What a call holds of the database it holds after its counter let it through,
\* its token was accepted and its input was valid.
GuardsFirst ==
    \A r \in Request :
        held[r] # {} =>
            /\ route[r].scope = Scope => call[r] = "admitted"
            /\ route[r].scope # "none" => "limit" \in Passed(r)
            /\ route[r] \in AdminRoutes => "auth" \in Passed(r)
            /\ "input" \in Passed(r)

\* Every call ends, without any timeout's help, though calls wait for the pool, for
\* each other's rows with a connection in hand, and for the e-mail provider.
EveryCallEnds == \A r \in Request : route[r] # NoRoute ~> route[r] = NoRoute
=============================================================================
