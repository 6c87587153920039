------------------------------- MODULE Startup -------------------------------
(***************************************************************************)
(* Containers that start (docker/backend/Dockerfile.dev): `alembic upgrade *)
(* head && python -m app.db.seed && uvicorn`, each over the database the   *)
(* others are migrating, seeding and serving, and each may be killed.      *)
(*                                                                         *)
(* MySQL commits every CREATE TABLE by itself, and with it what was        *)
(* inserted before (the five business lines). The version is recorded      *)
(* last. Alembic takes no lock: of two that began without a version, one   *)
(* fails on a table the other has made. A table comes with its indexes,    *)
(* whose statements follow its own.                                        *)
(***************************************************************************)
EXTENDS CompanyProfile, Schema

VARIABLES
    tables,    \* the tables that exist
    version,   \* alembic_version has the row "0001"
    job        \* job[s]: what container s runs, and the place of its next table

startVars == <<tables, version, job, vars>>

AllTables == DOMAIN TableOf
Phase == {"down", "upgrade", "seed", "serve"}

StartupTypeOK ==
    /\ TypeOK
    /\ tables \subseteq AllTables
    /\ version \in BOOLEAN
    /\ job \in [Seeder -> [phase : Phase, next : 1 .. Len(UpgradeOrder) + 1]]

Down == [phase |-> "down", next |-> 1]
Fresh == tables = {} /\ ~version /\ uniques = {}
Migrated == tables = AllTables /\ version

\* A new database, or one that was set up before.
StartupInit ==
    /\ Init
    /\ tables \in {{}, AllTables} /\ version \in BOOLEAN
    /\ Fresh \/ Migrated
    /\ job = [s \in Seeder |-> Down]

GoTo(s, phase) == job' = [job EXCEPT ![s] = [Down EXCEPT !.phase = phase]]

-----------------------------------------------------------------------------
\* alembic upgrade head

\* The version is read once: with it there is nothing to run.
Boot(s) ==
    /\ job[s].phase = "down"
    /\ GoTo(s, IF version THEN "seed" ELSE "upgrade")
    /\ UNCHANGED <<tables, version, vars>>

Creatable(t) == t \notin tables /\ ParentTables(t) \subseteq tables

\* A statement that MySQL refuses ends the upgrade, and the container with it.
CreateTable(s) ==
    /\ job[s].phase = "upgrade" /\ job[s].next <= Len(UpgradeOrder)
    /\ LET t == UpgradeOrder[job[s].next] IN
       IF Creatable(t)
         THEN tables' = tables \cup {t} /\ job' = [job EXCEPT ![s].next = @ + 1]
         ELSE GoTo(s, "down") /\ UNCHANGED tables
    /\ UNCHANGED <<version, vars>>

\* Mutant: an upgrade that failed at its first table takes the schema for done.
StampWhateverIsThere(s) ==
    /\ job[s].phase = "upgrade"
    /\ job[s].next > Len(UpgradeOrder) \/ UpgradeOrder[job[s].next] \in tables
    /\ version' = TRUE
    /\ GoTo(s, "seed")
    /\ UNCHANGED <<tables, vars>>

Stamp(s) ==
    /\ job[s].phase = "upgrade" /\ job[s].next > Len(UpgradeOrder)
    /\ version' = TRUE
    /\ GoTo(s, "seed")
    /\ UNCHANGED <<tables, vars>>

-----------------------------------------------------------------------------
\* python -m app.db.seed, then uvicorn

\* Mutant: `;` in place of `&&`.
AfterSeedAnyway(s, done) == IF tx'[s].pc = "idle" THEN GoTo(s, "serve") ELSE UNCHANGED job

\* `&&`: a seed that was rolled back ends the container, one that was committed
\* is followed by the server.
AfterSeed(s, done) ==
    IF tx'[s].pc = "idle" THEN GoTo(s, IF done THEN "serve" ELSE "down") ELSE UNCHANGED job

Seed(s) ==
    /\ job[s].phase = "seed"
    /\ \/ (SeedRead(s) \/ SeedInsert(s)) /\ AfterSeed(s, FALSE)
       \/ SeedCommit(s) /\ AfterSeed(s, TRUE)
       \/ Rollback(s) /\ AfterSeed(s, FALSE)
    /\ UNCHANGED <<tables, version>>

\* Killed outside a transaction of the seed, which Rollback ends otherwise.
Kill(s) ==
    /\ job[s].phase # "down" /\ tx[s].pc = "idle"
    /\ GoTo(s, "down")
    /\ UNCHANGED <<tables, version, vars>>

\* Servers that were not started this way need the tables only: in production the
\* image runs uvicorn alone, and the upgrade is a step of the release.
Put(w) ==
    /\ version
    /\ PutRead(w) \/ PutCommit(w) \/ Rollback(w)
    /\ UNCHANGED <<tables, version, job>>

Edit ==
    /\ version
    /\ EditTechnology \/ EditTeam
    /\ UNCHANGED <<tables, version, job>>

StartupNext ==
    \/ \E s \in Seeder : Boot(s) \/ CreateTable(s) \/ Stamp(s) \/ Seed(s) \/ Kill(s)
    \/ \E w \in Writer : Put(w)
    \/ Edit

StartupSpec == StartupInit /\ [][StartupNext]_startVars

-----------------------------------------------------------------------------
\* Properties

\* Dockerfile.dev: "a fresh clone gets a working admin login". Whoever was killed
\* in whatever statement, and whoever else was starting, a server that was started
\* this way has all of the schema, the admin and a profile under it, and of the
\* technologies and the founder all that no admin took away.
ServesWholeDatabase ==
    (\E s \in Seeder : job[s].phase = "serve") => tables = AllTables /\ Baseline
=============================================================================
