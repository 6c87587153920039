# Verification of the CH-TECH landing-page backend

TLA+ modules, TLC configurations and TLAPS proofs for the FastAPI backend under
`src/app`. Paths below are relative to that directory unless they start with
`docs/` or `tests/`.

## 1. The system

A FastAPI application, one event loop per Uvicorn worker and several workers,
over MySQL (InnoDB, REPEATABLE READ, SQLAlchemy's async ORM) and Redis. Handlers
are coroutines: between two `await`s a handler runs alone in its worker, and
across workers nothing is excluded but what MySQL and Redis exclude. Every
request has one database session, rolled back when it closes uncommitted.

| component | state | operations | talks to |
|---|---|---|---|
| **Sessions** (`application/use_cases/auth.py`, `refresh_token_repository.py`, `user_repository.py`) | `refresh_tokens`, `users.is_active`, `users.last_login`; access tokens held by clients | login, refresh (rotation), logout, purge (cron job) | MySQL; the limiter before it |
| **Rate limiter** (`core/rate_limit.py`) | one Redis counter with a TTL per key | `check_rate_limit` | Redis; every route |
| **Company profile and seed** (`company_repository.py`, `db/seed.py`) | `companies`, the admin, the baseline technologies, the founder | GET, PUT, the seed job run by every container at start | MySQL |
| **Catalogue writes** (eleven `*_repository.py`, their use cases) | projects, articles, technologies and their link tables, case studies, testimonials, clients, partners, team, service lines, services, products | POST, PUT, DELETE | MySQL; use cases look up parents of other kinds |
| **Catalogue reads** | the same tables | lists with filters and pages, details by id or slug, public or admin | MySQL |
| **Contact form** (`api/v1/contact.py`, `core/email.py`) | `contact_requests` | POST; an e-mail from a background task | limiter, MySQL, Resend |
| **Routers and access tokens** (`api/`, `core/security.py`) | none | fourteen routers and /health: limiter, token, validation, handler | all |
| **Session, pool, column types** (`db/`) | connection pool | `get_db` | MySQL |
| **Error envelope, health, logging, settings** | none | formatting and reporting | – |
| **Migrations, start of a container** (`alembic/`, `docker/backend/`) | the schema, `alembic_version` | `alembic upgrade head && python -m app.db.seed && uvicorn` | MySQL; every other component lives on its tables |

What makes each of them correct, and what makes that hard:

* **Sessions.** A refresh token is single-use; a session has at most one token
  that works; logout is final; the purge only removes what is dead. Rotation is
  *two* commits (revoke, then insert) with awaits between, logout is a read and
  an unconditional write, the purge is a select and a delete, and each of them
  captures `now` before it waits. Workers die at any await; responses get lost.
* **Rate limiter.** Opening a window takes two commands, and a request may fail,
  be slow, or be overtaken by a restart of Redis between them.
* **Company and seed.** The singleton is kept by looking before inserting, in
  snapshots that do not see each other, and what the seed checks for is edited by
  admins meanwhile.
* **Catalogue.** Checks are made in a snapshot, statements act on the rows as
  they are at the commit, and the unit of work writes differences only.
* **Reads.** A list is one request per page over a table that changes between the
  pages; what the public may see depends on a row's flag, or on another row's; and
  one row that cannot be built into an entity fails the whole list.
* **Calls.** What a route does is given by decorators, parameters and `Depends`, in
  an order nobody wrote down: the limiter of the scope, the token, the input,
  then transactions over at most 30 connections, the answer, and for the contact
  form an e-mail after the answer and before the session is closed. Calls wait
  for the pool, for rows and for the e-mail provider; a worker may die anywhere.
* **Start.** MySQL commits every CREATE TABLE by itself, the version is written
  last and nothing keeps two containers from migrating at once.

The hazards, each at its line, are in `PROJECT.json`.

## 2. Modules

| module | models | proofs |
|---|---|---|
| `SessionChain` | abstract: a session accepts one token at a time and exchanges it for a fresh one | |
| `RefreshTokens` | login, refresh, logout, purge, crashes, deactivation, clock | `RefreshTokens_proofs` |
| `RefreshTokensChain` | the refinement mapping from `RefreshTokens` to `SessionChain` | `RefreshTokensChain_proofs` |
| `MCRefreshTokens` | symmetry for TLC | |
| `RateLimiter` | one limiter key, command by command | `RateLimiter_proofs` |
| `Endpoints` | the calls of every route, composed with `RateLimiter` (EXTENDS), over a pool | `Endpoints_proofs` |
| `MCEndpoints` | the routes that are called, for TLC | |
| `Schema` | the migration's tables, unique columns, foreign keys, and the order of upgrade and downgrade | |
| `CompanyProfile` | PUT /admin/company, the seed job, and edits of what the seed inserts | `CompanyProfile_proofs` |
| `Startup` | containers that migrate, seed and serve, composed with `CompanyProfile` and `Schema` (EXTENDS) | `Startup_proofs` |
| `MCStartup` | symmetry for TLC | |
| `Catalogue` | POST, PUT, DELETE of all eleven kinds, over `Schema` (EXTENDS) | `Catalogue_proofs` |
| `MCCatalogue` | which rows may exist, and in which table, for TLC | |
| `Listing` | GET lists and details of all eleven kinds, composed with `Catalogue` (EXTENDS) | `Listing_proofs` |
| `MCListing` | which rows may exist, for TLC | |

Operators whose comment begins with `Mutant:` are not part of a specification:
each is the body that a plausible mistake would give the definition after it, and
is named in `PROJECT.json` with the property that detects it.

### 2.1 `RefreshTokens`

`req[r]` is a request, or a run of the purge, with its place in the handler (`pc`)
and the locals it holds across the next await. One action is one statement or
commit, plus the Python up to the next await:

| action | code |
|---|---|
| `LoginCheck`, `LoginRecord`, `Issue`, `Respond` | `Login.execute`: checks; `record_login`; `_issue_refresh_token`; reload, access token, 200 |
| `RefreshStart`, `RefreshLock`, `RefreshRevoke`, `RefreshReload`, `Issue`, `Respond` | `RefreshAccessToken.execute`: clock; `SELECT ... FOR UPDATE`; revoke and commit; reload and user check; insert; 200 |
| `LogoutRead`, `LogoutSave` | `Logout.execute`: `get_by_token_hash` and `revoke()`; `save()` |
| `PurgeSelect`, `PurgeDelete` | `purge_older_than`: its SELECT; its DELETE and commit |
| `Abort`, `SetActive`, `Tick` | a crash, lost connection or lost response at any await; an operator; time |

A row lock is a guard on the other requests' places (`RowUnlocked`), released by
the commit or by `Abort`. `at` is the `now` the code captured, which may be older
than the clock. `minted`, `parent`, `session` and `loggedOut` are history: they
are written along with the code's own state and read by properties only.
A token that nobody received is not presented: 256 random bits are not guessed,
and a request that presents rubbish behaves as one whose row was purged.

`DeactivationEndsAccess` is about access tokens: nobody looks them up, so those of
a deactivated user work to their `exp`; the property says that more are issued
only to the requests that had passed the check of `is_active`, one to each.

*Bounds.* `Token` is finite, so `LoginCheck` and `RefreshStart` start only when a
token is left for the request to issue (`TokenToSpare`): no request is stuck half-way
for lack of one. `MaxTime` stops the clock. Both cut executions short and change
no step of those that remain.

### 2.2 `RateLimiter`

`call[r]` is the command request `r` sends next. INCR creates the key without a
TTL; the caller that got 1 sends EXPIRE; a caller over the limit asks for the TTL
and is refused. `Fail` is a request whose connection or worker dies between two
commands, `RedisRestart` a Redis that comes back without the counter. After one, an
EXPIRE may reach a key that another hit created and armed meanwhile, and sets its
window back: the code does that, and `RestartsPayForSetBacks` bounds how often, by a
credit of one EXPIRE that a restart makes late (`LateExpires`). Time is
relative, so the state space is finite with no end to time: `admitted[k]` is history,
the requests let through in this tick and the `k` before it. *Bounds:* `MaxHits` on the
counter, `MaxFailures`, `MaxRestarts`.

### 2.3 `Endpoints`

A route is a scope and the sequence of steps of a call: what FastAPI solves before
the handler (`"limit"`, `"auth"`, `"input"`: route dependencies first, then parameters,
then the body), the handler's transactions (`"connect"` at the first statement,
`"lock"`, `"commit"`), `"reply"`, and `"mail"` for a background task. The login
reads its body first, because its key is the e-mail, and /health has the answer
alone. `ProjectRouter` ... `ContactRouter` say which of them each router has. One
action is one step:

| action | code |
|---|---|
| `Limited`, `TooMany` | `check_rate_limit` as `RateLimiter` has it, for the one scope that is followed |
| `LimitedElsewhere` | the same against another scope's counter, let through; refused in `Drop` |
| `Authenticate`, `Validate` | `get_current_user_id`; the schemas |
| `Connect`, `Lock`, `LockAnother`, `Commit` | what a session takes from the pool and from InnoDB, and gives back; one row is wanted by every call |
| `Reply`, `Mail`, `Close` | the answer; `send_contact_notification_email`; the end of `get_db` |
| `Drop` | any other end: a refusal, an error, a timeout, a dead worker; the session is rolled back |

A session takes a connection when it first needs one and gives it back at each
commit; `refresh()` takes one again, which stays with the session until `get_db`
ends, after the answer and after the background task: a contact call keeps its
connection while the provider is asked, up to httpx's 10 seconds.

*Bounds:* `MaxHits` also stops calls from beginning (`RoomFor`), so none is stuck
half-way for lack of room.

In production the workers are behind nginx, and `request.client.host` is the
address nginx connects from unless Uvicorn is told to trust its headers, which
neither Dockerfile does: the counters that `docs/API.md:655-667` gives as per IP are
then shared by all visitors. For the model an address is an address, shared or not.

### 2.4 `CompanyProfile` and `Startup`

Each PUT and each run of the seed is a transaction with the snapshot of its first
SELECT. `SeedInsert` flushes admin and technologies: it waits for another seed
that holds one of these unique keys and dies on one that was committed since its
snapshot. `SeedCommit` adds profile and founder if its snapshot had none. Random
UUID primary keys are `Row`, ordered because `LIMIT 1` walks the primary key.

Admins edit what the seed inserts: `EditTechnology` and `EditTeam` are the commits of
POST, PUT and DELETE of technologies and team members, as far as the seed can tell:
a name of the baseline comes, goes or becomes another. (How such a request gets to its
commit is in `Catalogue`; there is no API for users, so the admin stays.) `taken` is
history: what an admin took away and nobody put back. `Baseline` says that nothing
else is missing, and that the admin and a profile are there. The next run of the
seed puts back what admins took away, in the program as in the model. *Bounds:*
`Row`, and `MaxFounders`, the founders that edits of the team make.

`Startup` puts the seed where it runs: `docker/backend/Dockerfile.dev` chains
`alembic upgrade head`, the seed and the server with `&&`. `Boot` reads the version
once; `CreateTable` is one statement, committed by MySQL, and ends the container
if the table is there already or a parent is not; `Stamp` records the version;
`AfterSeed` is the `&&` after the seed; `Kill` may come between any two
statements. Containers race: Alembic takes no lock. PUTs come from servers that run
wherever the schema is complete, as the production image does (`Dockerfile.prod` runs
Uvicorn alone, the upgrade is a step of `release.yml`). A table and its indexes are one step,
and the `alembic_version` table comes with its row. The migration's five business
lines are rows the API may change at once, and no property is about them.

### 2.5 `Schema` and `Catalogue`

`Schema` is the migration, not the models: per table the unique columns and the foreign
keys, in the order of `upgrade()` and of `downgrade()`. Three assumptions, which TLC
evaluates, say that the orders are ones MySQL accepts and that each has all 17
tables. `Catalogue` is one module for eleven kinds: they share one structure and differ
in `RuleOf`, one record per kind (its table, its flags, the foreign keys a body
sets, whether it carries technologies, which operations turn an `IntegrityError`
into a 409). A request is `Create`, `Update` or `Delete` (the first snapshot: use-case
look-ups, and the copy the unit of work will compare with), then one of
`CommitCreate`, `CommitUpdate`, `CommitDelete` or `RollBack` (flush, constraints,
commit), then `Reply` (refresh, and the entity built from the row). `Merged` is
the unit of work: columns equal in copy and body keep the table's value.
`UpdateFails` keeps the order of the statements, in which the SELECT of
`_get_technologies` flushes the UPDATE before the `try`. Technologies are a
collection of their project or article: a PUT compares the body with the links of the
row it loaded (`OwnLinks`), a DELETE also loads those in which the row is the technology
(`LinksOf`), and a PUT of a technology touches no link. A malformed slug
is stored and makes every later entity of that row a 500 (`Readable`).

Left out: columns under no constraint, foreign keys the API never writes
(`projects.client_id`, `services.service_line_id`, ...), users (never deleted).

### 2.6 `Listing`

`Listing` extends `Catalogue`: a step is a step of an admin's request there
(`Write`), or one GET. `ReadsOf` has one record per kind, taken from the
repositories' `list` and `get_*` methods (which rows `public_only`, `active_only`
or `published_only` mean, the ORDER BY, whether there are pages), and `RoutesOf`
which of them each router offers to the public and to admins. `walk[v]` is a
reader's way through a list, or the last answer it got.

| action | code |
|---|---|
| `FirstPage`, `NextPage` | `list_*`, `List*.execute`, the repository's `list` |
| `GetBySlug`, `GetById` | `get_*`, the repository's `get_by_slug` and `get_by_id` |
| `Write` | an action of `Catalogue`, and what it does to the order by `created_at` |

`Page` is the set of answers that LIMIT and OFFSET allow over one ORDER BY column:
rows that compare equal may come in any order. `created` is the order of
`created_at`, as the set of pairs of an earlier and a later row. It is drawn when a POST
starts, so two of them may commit the other way
round; two equal values of it are not modelled. `start` and `steady` are history:
the rows a list had when its reader began, and whether since then none of them
left the list or got another date, and none tied with another.

Left out: the filters of GET /projects and GET /technologies and `sort=title`;
GETs of `companies` (one row, in `CompanyProfile`).

## 3. Runs

| run | instance | shows |
|---|---|---|
| `Rotation` | 3 requests, 3 tokens, clock to 1 | `TypeOK`, `SingleUse`, `OneLivePerSession`, `LogoutSticks`, `UndeliveredUntouched`; `RotationInv`, the inductive invariant; `RevocationOneWay`, `PurgeSparesLive`, `DeactivationDrains`, `DeactivationEndsAccess`; `ImplementsChain`, the refinement of `SessionChain` |
| `RequestsEnd` | 3 requests, 2 tokens, fairness | `EveryRequestEnds` |
| `Endpoints` | 2 calls at a time, of the contact form or of an admin's write; a pool of one; limit 2, window 2, 1 failure, 1 restart, 5 hits | of the counter: `LimiterTypeOK`, `BurstBound`, `ArmedOrArming`, `RestartsPayForSetBacks`, `RefusalsEnd`; of the calls: `EndpointsTypeOK`, `PoolAccounted`, `NoHoldAndWait`, `GuardsFirst`; `LimiterSpec`, the refinement of `RateLimiter` |
| `CallsEnd` | 3 calls, of the contact form, of an admin's write or of the login; a pool of two; fairness | `EveryCallEnds` |
| `Profile` | 2 containers, 2 PUTs, 3 primary keys, edits, a new or an old database | `StartupTypeOK`, `SeedIsAtomic`, `ServesWholeDatabase`, `SeedKeepsEdits`, `RowsSettle` |
| `References` | 2 admins; a project, a technology, a case study; a good and a malformed slug | `CatalogueTypeOK`, `ReferencesHold`, `GoneForGood`, `TagsStay` |
| `Publishing` | 2 admins; two articles and a technology; one slug | `PublishedHasDate`, `KeysUnique`, `UnpublishSticks` |
| `Reading` | 1 admin, 1 reader; two projects and a case study; pages of one row | `ListingTypeOK`, `WalkMissesNothing`, `PublicSeesSite` |

Four runs end in a violation, each of a sentence the repository says of itself:

| run | property | what happens |
|---|---|---|
| `LogoutRace` | `LogoutEndsSession` | a refresh commits between a logout's read and its save: 204, and the successor lives (`docs/API.md:229`) |
| `Lockout` | `RefusalsAlwaysEnd` | a request dies between INCR and EXPIRE: the key counts for ever (`core/rate_limit.py:23-25`) |
| `TwoCompanies` | `AtMostOneCompany` | two PUTs find the table empty (`docs/DATABASE_SCHEMA.md:531`) |
| `PoisonedList` | `ListsAnswer` | a slug of the wrong form is stored, and GET /projects is a 500 from then on (`docs/API.md:269`, `schemas/project.py:54`) |

Six more departures are part of the models and are no run's subject: an upgrade
killed half-way leaves some tables and no version, after which every container stops at
its first CREATE TABLE until somebody drops them (`docs/DATABASE_MIGRATIONS.md:38` asks
for migrations that are "Atómicas"; `ServesWholeDatabase` says that nothing serves
over the remains); a logout
that read its token before another request revoked it writes its own `revoked_at`
over the first one (`LogoutSave`, `refresh_token_repository.py:65`); a PUT, which
`schemas/project.py:51` calls a full replace, writes the columns that differ from its
copy, so that two of them may end in a mixture of both (`Merged`); a PUT
that names technologies and a taken slug is a 500 and not a 409 (`UpdateFails`,
`article_repository.py:154`); a second team member with the founder's name makes
every later run of the seed raise `MultipleResultsFound`, and with it every start of a
container, of which `docker/backend/Dockerfile.dev:16-18` says that "it's safe to re-run on
every restart" (`SeedCommit`); and while the e-mail provider is slow, calls that were
answered keep their connections, so that other visitors' answers may wait for it after all
(`Connect` and `Mail`; `contact.py:44` promises it of the call's own response).

*Why the bounds are enough.* The races of the sessions need two requests on one
token; the third is there so that a logout, a refresh and the purge, or three
refreshes, meet on one row. Three tokens give a session with a rotation and a
second session, or a rotation of a rotation. With lifetimes of one tick and a clock
to 1 these tokens expire, and spent ones pass their retention. The purge's other branch,
a row that expired before the cutoff, needs a clock beyond the lifetime and is not
reached; `PurgeSparesLiveHolds` and `RotationInvHolds` cover it. The proofs of
section 5 remove the bounds from all of these properties. A limit of 2 tells "first",
"last allowed" and "refused" apart, and a window of 2 lets two windows touch one span.
Between them the contact form and an admin's write take every step a route can have; `Endpoints` runs them over a pool of one, so that a second call meets an
exhausted pool at once. A row, however, is waited for with a connection in hand, which
takes two connections, and a third call to want one meanwhile: that is `CallsEnd`,
in which one call waits for the row that another holds and a third waits for the pool,
or two wait while the third has a connection at the provider. The other properties of the calls
are proved for every set of routes and every pool. Two containers are enough for one to
overtake the other in every statement, and a third kill or start is a second of the
same container. Of two seeds and two PUTs, three may insert a profile: a third insert
is a second of somebody who saw none, and the proofs have no bound. Edits make one
founder at a time and each seed may add one, so a seed can meet two. In
the catalogue every race is between a check and a commit, so between two
requests; the two sets of rows hold each kind of constraint (unique key,
CHECK, foreign key, link table) and each shape of error handling. For the reads,
pages of one row over two rows are the smallest list in which a row can slip
from one page to the other, and one admin suffices because a GET is one snapshot:
what it can meet half-done by two admins it can meet half-done by one. The
instance has a list ordered by `created_at` and one whose visibility is another row's;
that lists by publication date, with undated rows, ties and re-dating, miss nothing
either is `WalkMissesNothingHolds`, whose argument does not depend on the order.

*Symmetry* is used in runs of invariants and action properties only.

## 4. Fairness

`RefreshTokens!FairSpec`: strong fairness of each request's own next step. The
event loop runs every coroutine that is ready, and InnoDB grants a row lock in the order of
requests, so a waiter whose row becomes free again and again gets it. Nothing is
assumed of clients (a request need not start), operators, failures or the clock.

`LimiterFairSpec`: time passes and a command that was begun is finished.
A refused client need not come back, so INCR has no fairness. `RefusalsEnd` is
stated of runs in which no request has failed half-way; `Lockout` shows why.

`EndpointsFairSpec`: time passes, and each call's own next step is strongly fair:
SQLAlchemy's pool and InnoDB serve waiters in the order they came, and the provider
is waited for no longer than its timeout. Clients need not call, nothing need
fail, and the timeouts of the pool and of lock waits are possible (`Drop`) and never
counted on: `EveryCallEnds` needs `NoHoldAndWait`, not a timeout. A call waits for a
row while it holds a connection, but who holds the row has its connection too and needs
nothing more to commit.

## 5. Proofs

`tlapm` checks every theorem from nothing. They hold for any number of users,
tokens and requests, any lifetimes and any clock, any pool, any rows, kinds and readers;
the only assumptions are the modules' named ones (lifetimes, a limit, a window, a pool
and a page are positive, `NoToken`, `NoRow` and `None` are no value, calls, primary keys and
transactions are finite sets, and those of `Schema`, which are evaluated).

* `RefreshTokens_proofs`. `SingleUse` is not inductive: that a token has no second
  successor depends on the requests under way. `RotationInv` adds, as named parts,
  `Provenance` (what is held was issued), `LockInv` (a row lock has one holder and
  its row is unrevoked until the holder writes), `SpentInv` (a token with a successor, or
  being exchanged, is revoked), `SessionInv` (a session is one live row or one
  exchange under way, never two of these) and `PurgeInv` (what a purge selected
  stays dead). One lemma per handler step; steps that only move a request to a
  harmless place share `HarmlessStep`. From it: `TypeCorrect`, `SingleUseHolds`,
  `OneLivePerSessionHolds`, `LogoutSticksHolds`, `UndeliveredUntouchedHolds`, and
  the action properties `PurgeSparesLiveHolds` and `RevocationOneWayHolds`.
  `DeactivationDrainsHolds` compares two cardinalities: rows and requests under way are
  finitely many in every state (`FiniteInv`, an invariant and no assumption on the
  constants), while a user is inactive nobody joins those past the check
  (`NobodyPassesTheCheck`), and a request that adds a row leaves them (`RowsAreIssued`).
  `DeactivationEndsAccessHolds` needs the second of these only.
* `RefreshTokensChain_proofs`. `ImplementsChainHolds`: with `RotationInv`, what a
  session accepts is determined (`AcceptsIsWhatStands`), and a step either
  loses rows and exchanges (`End`), turns a row into its exchange (`Redeem`) or
  inserts a row (`Open`, `Replace`).
* `RateLimiter_proofs`. `LimiterTypeCorrect` and `ArmedOrArmingHolds`, by the
  invariant that a missing key has no TTL. `SetBacksArePaidFor` counts the EXPIREs on
  their way, one action at a time: only a restart adds a late one, and a late one that
  arrives is gone. `BurstBoundHolds` by `SoleArming` (until Redis restarts at most one
  EXPIRE is on its way, and its counter is unarmed) and `BurstInv`, while Redis stays
  up: with no window open the history holds at most one limit's worth; while a window runs, what was let through since its EXPIRE is what its
  counter shows and all that is older is at most one limit's worth; and while
  it is not armed yet its creator is counted and not let through (`SpansInv`). Of the
  history itself only `LongerSpansCountMore` is needed.
* `Endpoints_proofs`. `CallsImplementLimiter`: every step of a call is a step of the
  limiter or none, so what is proved of the limiter holds of the calls (`CallsAreLimited`).
  `PoolAccounted` is inductive only with `HeldInv` (who holds something
  took it in a transaction that is not committed); together they give `NoHoldAndWaitHolds`, since
  no route has a `"connect"` while something is held. `GuardsFirstHolds` adds
  `AdmittedInv` (who passed the followed limiter was admitted by it) and reads the rest
  off the order of the routes' steps.
* `CompanyProfile_proofs`. `SnapshotsHold`: a row and the admin that a snapshot saw are
  there, and what else it saw is there or was taken away by an admin (`Holds`); every
  step keeps that, edits included (`Keeps`), and it keeps a `Baseline`. A seed's commit
  adds what its snapshot did not see, so it makes one. From it `SeedIsAtomicHolds`,
  `SeedKeepsEditsHolds`, and `RowsSettleHolds` by counting: a commit that adds a row ends
  a transaction that had seen none.
* `Startup_proofs`. `StartupImplementsProfile` brings the theorems above to containers.
  `ServesWholeDatabaseHolds`: whoever is at the n-th table has the tables before it,
  the version stands over all of them, and a seed that committed leaves a `Baseline`,
  which every later step keeps.
* `Catalogue_proofs`. The constraints are checked by the statement that could break
  them, so what has to be carried from the first snapshot to the commit is little:
  a body still satisfies its schema (`BodiesChecked`), and a key being inserted was
  never another row's, nor is it another request's (`FreshKeys`). Steps are sorted into answers,
  loads and commits; `Writes` is what a POST and a PUT have in common. From it
  `PublishedHasDateHolds`, `KeysUniqueHolds`, `ReferencesHoldAlways`, and of steps
  `GoneForGoodHolds`, `UnpublishSticksHolds` and `TagsStayHolds`; the last needs that the
  links in a copy are the row's own, or those of a row to be deleted (`CopiesInv`).
* `Listing_proofs`. `ListingImplementsCatalogue`: readers change nothing, so the
  catalogue's theorems hold while it is read (`CatalogueHoldsWhileRead`).
  `PublicSeesSiteHolds` needs that a reader in the middle of a list has a page of it
  (`WalkInv`), and that every page is cut from the list as it is now.
  `WalkMissesNothingHolds` counts: while a walk is steady, a row it began with and has
  not seen yet has at least as many rows ahead of it as LIMIT and OFFSET have skipped
  (`Follows`). Additions only put more rows ahead of it (`GrowingIsFollowed`); a page
  that does not contain it is full and lies ahead of it as a whole
  (`PageReachesOrPrecedes`), so the walk goes on and the next offset is still within
  bounds. That a full page was cut out of existing rows (`FullPageFits`) bounds the
  length of a walk, and with it `ListingTypeCorrect`. That a date or `created_at` is
  before itself for no row (`CreatedInv`) is needed; that it is a linear order is not.

Only model-checked: liveness (`EveryRequestEnds`, `RefusalsEnd`, `EveryCallEnds`),
because the prover has no ENABLED. Every invariant and action property that a passing run
checks is also proved. No module uses a RECURSIVE operator.

## 6. Not modelled

* The conversion of columns (UUIDs, UTC times), URLs, images, Markdown, e-mail
  addresses, logs, envelopes, settings: formatting, no property depends on it.
* Bcrypt, JWT signatures and SHA-256 are taken as doing their job.
* Of the schema, the CHECKs on enumerations and ratings; `downgrade()` beyond its
  order (a killed one leaves the version over missing tables); Alembic's offline mode and
  `scripts/migration_to_sql.py`, which print SQL.
* That an e-mail arrives, or that a form is stored once when it is submitted twice: nothing
  in the code or the docs promises either.
* What differs between the routes of one shape, the filters of lists, the clocks of
  several hosts.

## 7. What is left

1. `downgrade()` as steps, and an upgrade over what a killed one left, once there is a
   second migration that makes either matter.
2. Two counters followed at once, for routes of one address in different scopes; today
   all scopes but one are a free choice.
3. An abstract catalogue, in which a write is one atomic step, as the specification
   that `Catalogue` implements.
