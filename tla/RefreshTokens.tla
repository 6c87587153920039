---------------------------- MODULE RefreshTokens ----------------------------
(***************************************************************************)
(* Login, refresh, logout and purge over the refresh_tokens table          *)
(* (app/application/use_cases/auth.py and its SQLAlchemy adapters).        *)
(*                                                                         *)
(* Every HTTP request, and every run of the purge job, is a process that   *)
(* is interrupted wherever the code awaits the database: one action is one *)
(* statement or commit together with the Python that runs until the next.  *)
(* Python that runs before an await captures the clock there, so a request *)
(* may act on a `now` that has passed.                                     *)
(*                                                                         *)
(* Token hashes, user agents and addresses are left out: a token is a      *)
(* model value, and a request that presents a token nobody was given       *)
(* behaves as one presenting a token whose row was purged.                 *)
(***************************************************************************)
EXTENDS Integers, FiniteSets

CONSTANTS
    User, Token, Request,
    NoUser, NoToken,
    AccessTTL,     \* ACCESS_TOKEN_EXPIRE_MINUTES
    RefreshTTL,    \* REFRESH_TOKEN_EXPIRE_DAYS
    Retention,     \* REFRESH_TOKEN_RETENTION_DAYS
    MaxTime        \* bound: the clock stops here

ASSUME LifetimesAssumption ==
    /\ AccessTTL \in Nat \ {0}
    /\ RefreshTTL \in Nat \ {0}
    /\ Retention \in Nat
    /\ MaxTime \in Nat

ASSUME NoneAssumption == NoToken \notin Token /\ NoUser \notin User

VARIABLES
    now,          \* the clock every process reads
    isActive,     \* users.is_active
    lastLogin,    \* users.last_login
    stored,       \* the primary keys present in refresh_tokens
    row,          \* row[t]: the columns of t, meaningful while t \in stored
    req,          \* req[r]: where request r is and the locals it holds
    accessUntil,  \* when the last access token given to each user expires
    known,        \* refresh tokens some client received
    \* history, read by properties only
    minted,       \* refresh tokens ever inserted
    parent,       \* parent[t]: the token whose redemption produced t
    session,      \* session[t]: the login token t descends from
    loggedOut     \* tokens whose logout was answered 204

tableVars == <<stored, row>>
userVars  == <<isActive, lastLogin>>
history   == <<minted, parent, session>>
clients   == <<accessUntil, known, loggedOut>>
vars == <<now, userVars, tableVars, req, clients, history>>

-----------------------------------------------------------------------------
\* Types

NULL == -1

Row == [user : User \cup {NoUser}, expiresAt : Nat, revokedAt : Nat \cup {NULL}]

Place == {"idle", "record", "lock", "revoke", "reload", "issue", "respond",
          "save", "delete"}

\* tok is the token presented, or the one just issued; at is a captured clock.
Local == [pc : Place, user : User \cup {NoUser}, tok : Token \cup {NoToken},
          at : Nat, ids : SUBSET Token]

TypeOK ==
    /\ now \in Nat
    /\ isActive \in [User -> BOOLEAN]
    /\ lastLogin \in [User -> Nat \cup {NULL}]
    /\ stored \subseteq Token
    /\ row \in [Token -> Row]
    /\ req \in [Request -> Local]
    /\ accessUntil \in [User -> Nat]
    /\ known \subseteq Token
    /\ minted \subseteq Token
    /\ parent \in [Token -> Token \cup {NoToken}]
    /\ session \in [Token -> Token]
    /\ loggedOut \subseteq Token

-----------------------------------------------------------------------------
\* Helper formulae

At(pc, u, t, at) == [pc |-> pc, user |-> u, tok |-> t, at |-> at, ids |-> {}]
Idle == At("idle", NoUser, NoToken, 0)

Goto(r, local) == req' = [req EXCEPT ![r] = local]
Finish(r) == Goto(r, Idle)

Unrevoked(t) == t \in stored /\ row[t].revokedAt = NULL

\* Mutant: the expiry is checked and revoked_at is not.
ActiveUnlessExpired(t, at) == t \in stored /\ row[t].expiresAt > at

\* The WHERE clause of revoke_if_active, is_active in the domain.
Active(t, at) == Unrevoked(t) /\ row[t].expiresAt > at

\* Mutant: `revoked_at < cutoff` counts a NULL as old.
PastRetentionOrNever(t, cutoff) ==
    row[t].expiresAt < cutoff \/ row[t].revokedAt < cutoff

\* The WHERE clause of purge_older_than.
PastRetention(t, cutoff) ==
    \/ row[t].expiresAt < cutoff
    \/ row[t].revokedAt # NULL /\ row[t].revokedAt < cutoff

\* Mutant: the SELECT without FOR UPDATE.
NoRowLock(t) == TRUE

\* SELECT ... FOR UPDATE holds the row lock until its transaction ends.
RowUnlocked(t) == \A q \in Request : ~(req[q].pc = "revoke" /\ req[q].tok = t)

Revoke(t, at) == row' = [row EXCEPT ![t].revokedAt = at]

\* Bound: a request starts only when a token is left for it to issue. Of the
\* refreshes waiting for one row, at most one will need a token.
Waiting == {req[q].tok : q \in {p \in Request : req[p].pc = "lock"}}
Issuing == {q \in Request : req[q].pc \in {"record", "revoke", "reload", "issue"}}
TokenToSpare ==
    Cardinality(Issuing) + Cardinality(Waiting) < Cardinality(Token \ minted)

-----------------------------------------------------------------------------
Init ==
    /\ now = 0
    /\ isActive = [u \in User |-> TRUE]
    /\ lastLogin = [u \in User |-> NULL]
    /\ stored = {}
    /\ row = [t \in Token |->
                [user |-> NoUser, expiresAt |-> 0, revokedAt |-> NULL]]
    /\ req = [r \in Request |-> Idle]
    /\ accessUntil = [u \in User |-> 0]
    /\ known = {}
    /\ minted = {}
    /\ parent = [t \in Token |-> NoToken]
    /\ session = [t \in Token |-> t]
    /\ loggedOut = {}

-----------------------------------------------------------------------------
\* POST /auth/login

\* get_by_email and the checks that follow it; a 401 changes nothing.
LoginCheck(r, u) ==
    /\ req[r].pc = "idle"
    /\ TokenToSpare
    /\ isActive[u]
    /\ Goto(r, At("record", u, NoToken, now))
    /\ UNCHANGED <<now, userVars, tableVars, clients, history>>

\* record_login commits on its own, before any token exists.
LoginRecord(r) ==
    /\ req[r].pc = "record"
    /\ lastLogin' = [lastLogin EXCEPT ![req[r].user] = req[r].at]
    /\ Goto(r, At("issue", req[r].user, NoToken, now))
    /\ UNCHANGED <<now, isActive, tableVars, clients, history>>

-----------------------------------------------------------------------------
\* POST /auth/refresh

\* The clock is read here, before the statement that may wait for the row.
RefreshStart(r, t) ==
    /\ req[r].pc = "idle"
    /\ t \in Waiting \/ TokenToSpare
    /\ t \in known
    /\ Goto(r, At("lock", NoUser, t, now))
    /\ UNCHANGED <<now, userVars, tableVars, clients, history>>

\* SELECT ... FOR UPDATE: a locking read of the latest committed row.
RefreshLock(r) ==
    LET t == req[r].tok IN
    /\ req[r].pc = "lock"
    /\ RowUnlocked(t)
    /\ IF Active(t, req[r].at)
         THEN Goto(r, At("revoke", row[t].user, t, req[r].at))
         ELSE Finish(r)
    /\ UNCHANGED <<now, userVars, tableVars, clients, history>>

\* Mutant: the commit is there, the assignment is not.
RefreshForgetsRevoke(r) ==
    /\ req[r].pc = "revoke"
    /\ Goto(r, At("reload", req[r].user, req[r].tok, now))
    /\ UNCHANGED <<now, userVars, tableVars, clients, history>>

\* model.revoked_at = at and the commit that releases the row.
RefreshRevoke(r) ==
    LET t == req[r].tok IN
    /\ req[r].pc = "revoke"
    /\ Revoke(t, req[r].at)
    /\ Goto(r, At("reload", req[r].user, t, now))
    /\ UNCHANGED <<now, userVars, stored, clients, history>>

\* Mutant: the user is loaded and is_active is not looked at.
RefreshReloadAnyUser(r) ==
    LET t == req[r].tok  u == req[r].user IN
    /\ req[r].pc = "reload"
    /\ IF t \in stored THEN Goto(r, At("issue", u, t, now)) ELSE Finish(r)
    /\ UNCHANGED <<now, userVars, tableVars, clients, history>>

\* refresh(model) and get_by_id read one snapshot; a missing row is a 500,
\* a deactivated user a 401, and the presented token stays revoked in both.
RefreshReload(r) ==
    LET t == req[r].tok  u == req[r].user IN
    /\ req[r].pc = "reload"
    /\ IF t \in stored /\ isActive[u]
         THEN Goto(r, At("issue", u, t, now))
         ELSE Finish(r)
    /\ UNCHANGED <<now, userVars, tableVars, clients, history>>

-----------------------------------------------------------------------------
\* What login and refresh share

\* Mutant: the successor's row is a copy of its parent's, revoked_at included.
IssueCopy(r, n) ==
    LET t == req[r].tok  u == req[r].user IN
    /\ req[r].pc = "issue"
    /\ n \notin minted
    /\ stored' = stored \cup {n}
    /\ row' = [row EXCEPT ![n] = [user |-> u,
                                  expiresAt |-> req[r].at + RefreshTTL,
                                  revokedAt |-> IF t = NoToken THEN NULL
                                                ELSE row[t].revokedAt]]
    /\ minted' = minted \cup {n}
    /\ parent' = [parent EXCEPT ![n] = t]
    /\ session' = [session EXCEPT ![n] = IF t = NoToken THEN n ELSE session[t]]
    /\ Goto(r, At("respond", u, n, now))
    /\ UNCHANGED <<now, userVars, clients>>

\* _issue_refresh_token: insert a row under a fresh random token and commit.
Issue(r, n) ==
    LET t == req[r].tok  u == req[r].user IN
    /\ req[r].pc = "issue"
    /\ n \notin minted
    /\ stored' = stored \cup {n}
    /\ row' = [row EXCEPT ![n] = [user |-> u,
                                  expiresAt |-> req[r].at + RefreshTTL,
                                  revokedAt |-> NULL]]
    /\ minted' = minted \cup {n}
    /\ parent' = [parent EXCEPT ![n] = t]
    /\ session' = [session EXCEPT ![n] = IF t = NoToken THEN n ELSE session[t]]
    /\ Goto(r, At("respond", u, n, now))
    /\ UNCHANGED <<now, userVars, clients>>

\* The reload after create's commit, create_access_token, the 200.
Respond(r) ==
    LET n == req[r].tok  u == req[r].user IN
    /\ req[r].pc = "respond"
    /\ IF n \in stored
         THEN /\ known' = known \cup {n}
              /\ accessUntil' = [accessUntil EXCEPT ![u] = now + AccessTTL]
         ELSE UNCHANGED <<known, accessUntil>>
    /\ Finish(r)
    /\ UNCHANGED <<now, userVars, tableVars, loggedOut, history>>

-----------------------------------------------------------------------------
\* POST /auth/logout

\* Mutant: the 204 is sent first and save() left to a background task.
LogoutAnswersFirst(r, u, t) ==
    /\ req[r].pc = "idle"
    /\ accessUntil[u] > now
    /\ t \in known \cap stored
    /\ row[t].user = u
    /\ loggedOut' = loggedOut \cup {t}
    /\ IF row[t].revokedAt = NULL THEN Goto(r, At("save", u, t, now)) ELSE UNCHANGED req
    /\ UNCHANGED <<now, userVars, tableVars, accessUntil, known, history>>

\* Mutant: the copy is saved without revoke() having set its revoked_at.
LogoutWithoutRevoke(r, u, t) ==
    /\ req[r].pc = "idle"
    /\ accessUntil[u] > now
    /\ t \in known \cap stored
    /\ row[t].user = u
    /\ Goto(r, At("save", u, t, row[t].revokedAt))
    /\ UNCHANGED <<now, userVars, tableVars, clients, history>>

\* get_by_token_hash under a valid access token of u. A row already revoked
\* in this snapshot leaves save() nothing to write: the 204 follows.
LogoutRead(r, u, t) ==
    /\ req[r].pc = "idle"
    /\ accessUntil[u] > now
    /\ t \in known \cap stored
    /\ row[t].user = u
    /\ IF row[t].revokedAt = NULL
         THEN Goto(r, At("save", u, t, now)) /\ UNCHANGED loggedOut
         ELSE loggedOut' = loggedOut \cup {t} /\ UNCHANGED req
    /\ UNCHANGED <<now, userVars, tableVars, accessUntil, known, history>>

\* Mutant: save() writes every column of the copy as it was read.
LogoutSaveStale(r) ==
    LET t == req[r].tok IN
    /\ req[r].pc = "save"
    /\ RowUnlocked(t)
    /\ row' = IF t \in stored THEN [row EXCEPT ![t].revokedAt = NULL] ELSE row
    /\ Finish(r)
    /\ UNCHANGED <<now, userVars, stored, clients, history>>

\* Mutant: an UPDATE that matches no row is tried again.
LogoutSaveRetries(r) ==
    LET t == req[r].tok IN
    /\ req[r].pc = "save"
    /\ RowUnlocked(t)
    /\ t \in stored
    /\ Revoke(t, req[r].at)
    /\ loggedOut' = loggedOut \cup {t}
    /\ Finish(r)
    /\ UNCHANGED <<now, userVars, stored, accessUntil, known, history>>

\* save() writes the copy's revoked_at whatever the row holds by now; an
\* UPDATE that matches no row is a StaleDataError, a 500.
LogoutSave(r) ==
    LET t == req[r].tok IN
    /\ req[r].pc = "save"
    /\ RowUnlocked(t)
    /\ IF t \in stored
         THEN Revoke(t, req[r].at) /\ loggedOut' = loggedOut \cup {t}
         ELSE UNCHANGED <<row, loggedOut>>
    /\ Finish(r)
    /\ UNCHANGED <<now, userVars, stored, accessUntil, known, history>>

-----------------------------------------------------------------------------
\* app.db.purge_refresh_tokens: the ids are read first, deleted later

PurgeSelect(r) ==
    LET ids == {t \in stored : PastRetention(t, now - Retention)} IN
    /\ req[r].pc = "idle"
    /\ ids # {}
    /\ Goto(r, [Idle EXCEPT !.pc = "delete", !.ids = ids])
    /\ UNCHANGED <<now, userVars, tableVars, clients, history>>

PurgeDelete(r) ==
    /\ req[r].pc = "delete"
    /\ \A t \in req[r].ids : RowUnlocked(t)
    /\ stored' = stored \ req[r].ids
    /\ Finish(r)
    /\ UNCHANGED <<now, userVars, row, clients, history>>

-----------------------------------------------------------------------------
\* Environment

\* A worker dies, a connection drops, a lock wait times out, the response is
\* lost: what was committed stays, the rest is rolled back, locks are freed.
Abort(r) ==
    /\ req[r].pc # "idle"
    /\ Finish(r)
    /\ UNCHANGED <<now, userVars, tableVars, clients, history>>

\* is_active is changed by operators directly: no route writes it.
SetActive(u) ==
    /\ isActive' = [isActive EXCEPT ![u] = ~isActive[u]]
    /\ UNCHANGED <<now, lastLogin, tableVars, req, clients, history>>

Tick ==
    /\ now < MaxTime
    /\ now' = now + 1
    /\ UNCHANGED <<userVars, tableVars, req, clients, history>>

-----------------------------------------------------------------------------
\* One step of the server on behalf of r, once r is under way.
Advance(r) ==
    \/ LoginRecord(r)
    \/ RefreshLock(r)
    \/ RefreshRevoke(r)
    \/ RefreshReload(r)
    \/ \E n \in Token : Issue(r, n)
    \/ Respond(r)
    \/ LogoutSave(r)
    \/ PurgeDelete(r)

Begin(r) ==
    \/ \E u \in User : LoginCheck(r, u)
    \/ \E t \in Token : RefreshStart(r, t)
    \/ \E u \in User, t \in Token : LogoutRead(r, u, t)
    \/ PurgeSelect(r)

Next ==
    \/ \E r \in Request : Begin(r) \/ Advance(r) \/ Abort(r)
    \/ \E u \in User : SetActive(u)
    \/ Tick

Spec == Init /\ [][Next]_vars

\* The event loop runs every ready coroutine, and InnoDB grants a row lock in
\* the order it was asked for, so a waiter is not overtaken for ever. No
\* fairness on clients, operators, failures or the clock.
FairSpec == Spec /\ \A r \in Request : SF_vars(Advance(r))

-----------------------------------------------------------------------------
\* Properties

\* revoke_if_active under its row lock: two requests presenting one token
\* never both obtain a successor, however they and the purge interleave.
SingleUse ==
    \A a, b \in minted : parent[a] = parent[b] /\ parent[a] # NoToken => a = b

\* Rotation leaves a session with at most one row that can still be redeemed,
\* whatever crashes between the revoke's commit and the successor's insert.
OneLivePerSession ==
    \A a, b \in stored :
        Unrevoked(a) /\ Unrevoked(b) /\ session[a] = session[b] => a = b

\* A logout answered 204 is final: a refresh, another logout or a purge under
\* way at the same time never leaves the token usable.
LogoutSticks == \A t \in loggedOut : ~Unrevoked(t)

\* API.md says that a logout closes the current session. A logout that finds its
\* token active, is overtaken by a refresh of it and answers 204 should leave no
\* live row in the session.
LogoutEndsSession ==
    [][\A r \in Request, t \in loggedOut' :
          /\ req[r].pc = "save" /\ req[r].tok = t
          /\ req'[r].pc = "idle" /\ row'[t].revokedAt = req[r].at
          => \A a \in stored' : session'[a] = session'[t]
                                 => row'[a].revokedAt # NULL]_vars

\* Until its holder has received a token nobody can have revoked it.
UndeliveredUntouched == \A t \in minted \ known : row[t].revokedAt = NULL

\* Clearing revoked_at, as a write back of a stale copy would, never happens.
RevocationOneWay ==
    [][\A t \in stored \cap stored' :
          row[t].revokedAt # NULL => row'[t].revokedAt # NULL]_vars

\* The purge selects, then deletes by id: in between a row may change, yet no
\* row that could still be redeemed is ever deleted.
PurgeSparesLive == [][\A t \in stored \ stored' : ~Active(t, now)]_vars

\* The checks of is_active are made before the token is issued. Once a user is
\* deactivated, the live rows and the requests already past the check are all
\* the exposure there will be: the sum never grows.
Redeemable(u) == {t \in stored : row[t].user = u /\ Active(t, now)}
PastCheck(u) == {r \in Request : req[r].user = u /\ req[r].pc \in {"record", "issue"}}
Exposure(u) == Cardinality(Redeemable(u)) + Cardinality(PastCheck(u))

DeactivationDrains ==
    [][\A u \in User : ~isActive[u] /\ ~isActive'[u]
                          => Exposure(u)' <= Exposure(u)]_vars

\* A JWT is not looked up: the access tokens of a deactivated user live to their
\* exp. But new ones go only to the requests that were already past the check of
\* is_active, one to each, and no other request joins these.
Granted(u) ==
    {r \in Request : req[r].user = u /\ req[r].pc \in {"record", "issue", "respond"}}

DeactivationEndsAccess ==
    [][\A u \in User : ~isActive[u] /\ ~isActive'[u] =>
          /\ Granted(u)' \subseteq Granted(u)
          /\ accessUntil'[u] # accessUntil[u] => Granted(u)' # Granted(u)]_vars

\* No request waits for ever, though refreshes, logouts and the purge wait for
\* each other's row locks and a lock holder may fail.
EveryRequestEnds == \A r \in Request : req[r].pc # "idle" ~> req[r].pc = "idle"
-----------------------------------------------------------------------------
\* The inductive invariant behind the safety properties

\* Requests that have consumed their token and not issued its successor yet.
Redeeming(r) == req[r].pc \in {"reload", "issue"} /\ req[r].tok # NoToken

\* Only tokens that were inserted are stored, known, named as a session or a
\* parent, logged out, or held by a request.
Provenance ==
    /\ stored \subseteq minted /\ known \subseteq minted
    /\ loggedOut \subseteq known
    /\ \A a \in minted : session[a] \in minted
    /\ \A a \in minted : parent[a] \in minted \cup {NoToken}
    /\ \A r \in Request :
          /\ req[r].pc \in {"lock", "revoke", "reload", "save"} => req[r].tok \in known
          /\ req[r].pc = "issue" => req[r].tok \in known \cup {NoToken}
          /\ req[r].pc = "respond" => req[r].tok \in minted
          /\ req[r].ids \subseteq minted

\* A row lock has one holder, and its row cannot change under the holder.
LockInv ==
    /\ \A r \in Request : req[r].pc = "revoke" => Unrevoked(req[r].tok)
    /\ \A r, q \in Request :
          req[r].pc = "revoke" /\ req[q].pc = "revoke" /\ req[r].tok = req[q].tok
          => r = q

\* A token that has a successor, or is being exchanged for one, is spent.
SpentInv ==
    /\ \A a \in minted : parent[a] # NoToken => ~Unrevoked(parent[a])
    /\ \A r \in Request : Redeeming(r) =>
          /\ ~Unrevoked(req[r].tok)
          /\ \A a \in minted : parent[a] # req[r].tok

\* A session is a live row, or one exchange under way, and never two of these.
SessionInv ==
    /\ OneLivePerSession
    /\ \A r \in Request, a \in stored :
          Redeeming(r) /\ Unrevoked(a) => session[a] # session[req[r].tok]
    /\ \A r, q \in Request :
          Redeeming(r) /\ Redeeming(q) /\ session[req[r].tok] = session[req[q].tok]
          => r = q

\* What a purge has selected stays dead until it is deleted.
PurgeInv ==
    \A r \in Request : req[r].pc = "delete" =>
        \A t \in req[r].ids : ~Active(t, now)

\* Every safety property of this module follows from this conjunction, which
\* each step of the handlers preserves.
RotationInv ==
    TypeOK /\ Provenance /\ LockInv /\ SpentInv /\ SessionInv /\ PurgeInv
    /\ SingleUse /\ LogoutSticks /\ UndeliveredUntouched
=============================================================================
