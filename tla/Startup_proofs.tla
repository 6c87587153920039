---------------------------- MODULE Startup_proofs ----------------------------
(***************************************************************************)
(* Proofs, for any number of containers: a server that was started by      *)
(* `alembic upgrade head && python -m app.db.seed && uvicorn` has all of   *)
(* the schema under it, and all of the baseline but for what admins took   *)
(* away; and what is proved of the profile is so whatever starts and dies. *)
(***************************************************************************)
EXTENDS Startup, CompanyProfile_proofs

\* A start-up is a PUT, an edit, a step of the seed or nothing to the profile.
LEMMA StartupStepsTheProfile == [StartupNext]_startVars => [Next]_vars
  BY DEF StartupNext, startVars, Boot, CreateTable, Stamp, Seed, Kill, Put, Edit, Next, Actor

THEOREM StartupImplementsProfile == StartupSpec => Spec
<1>1. StartupInit => Init
  BY DEF StartupInit
<1>2. QED
  BY <1>1, StartupStepsTheProfile, PTL DEF StartupSpec, Spec

-----------------------------------------------------------------------------
\* Every table before the one that is next was created, by whoever records the
\* version; after it there is nothing to create.
UpgradeInv ==
    /\ version => tables = AllTables
    /\ \A s \in Seeder :
          /\ job[s].phase \in {"seed", "serve"} => version
          /\ job[s].phase = "upgrade" =>
                \A i \in 1 .. job[s].next - 1 : UpgradeOrder[i] \in tables

StartupInv == StartupTypeOK /\ UpgradeInv

LEMMA OrderOfAll ==
  /\ Len(UpgradeOrder) = 17 /\ DOMAIN UpgradeOrder = 1 .. 17
  /\ \A i \in 1 .. 17 : UpgradeOrder[i] \in AllTables
  /\ \A t \in AllTables : \E i \in 1 .. 17 : UpgradeOrder[i] = t
<1>1. Len(UpgradeOrder) = 17 /\ DOMAIN UpgradeOrder = 1 .. 17
  BY DEF UpgradeOrder
<1>2. {UpgradeOrder[i] : i \in DOMAIN UpgradeOrder} = AllTables
  BY OrdersAssumption DEF AllTables
<1>3. QED
  BY <1>1, <1>2

LEMMA InitStartupInv == StartupInit => StartupInv
<1> SUFFICES ASSUME StartupInit PROVE StartupInv
    OBVIOUS
<1>1. TypeOK
  BY InitProfileInv DEF StartupInit, ProfileInv
<1>2. QED
  BY <1>1, OrderOfAll
     DEF StartupInit, StartupInv, StartupTypeOK, UpgradeInv, Fresh, Migrated, Down, Phase

\* A container goes on to another phase; no table is dropped.
LEMMA GoToKeepsStartupInv ==
  ASSUME StartupInv, TypeOK', NEW s \in Seeder, NEW phase \in Phase, GoTo(s, phase),
         UNCHANGED tables, version' \in BOOLEAN, version => version',
         version' => tables = AllTables, phase \in {"seed", "serve"} => version'
  PROVE  StartupInv'
<1>1. StartupTypeOK'
  BY OrderOfAll DEF StartupInv, StartupTypeOK, GoTo, Down
<1>2. UpgradeInv'
  BY DEF StartupInv, StartupTypeOK, UpgradeInv, GoTo, Down
<1>3. QED
  BY <1>1, <1>2 DEF StartupInv

LEMMA NextStartupInv == StartupInv /\ TypeOK' /\ [StartupNext]_startVars => StartupInv'
<1> SUFFICES ASSUME StartupInv, TypeOK', [StartupNext]_startVars PROVE StartupInv'
    OBVIOUS
<1> USE DEF Phase
<1>1. ASSUME NEW s \in Seeder, Boot(s)
      PROVE  StartupInv'
  BY <1>1, GoToKeepsStartupInv DEF Boot, StartupInv, StartupTypeOK, UpgradeInv
<1>2. ASSUME NEW s \in Seeder, CreateTable(s)
      PROVE  StartupInv'
  <2> DEFINE t == UpgradeOrder[job[s].next]
  <2>1. job[s].next \in 1 .. 17 /\ t \in AllTables
    BY <1>2, OrderOfAll DEF StartupInv, StartupTypeOK, CreateTable
  <2>2. CASE Creatable(t)
    <3>1. tables' = tables \cup {t} /\ job' = [job EXCEPT ![s].next = @ + 1]
      BY <1>2, <2>2 DEF CreateTable
    <3>2. StartupTypeOK'
      BY <1>2, <2>1, <3>1, OrderOfAll DEF StartupInv, StartupTypeOK, CreateTable
    <3>3. UpgradeInv'
      BY <1>2, <2>1, <3>1 DEF StartupInv, StartupTypeOK, UpgradeInv, CreateTable
    <3>4. QED
      BY <3>2, <3>3 DEF StartupInv
  <2>3. CASE ~Creatable(t)
    BY <1>2, <2>3, GoToKeepsStartupInv DEF CreateTable, StartupInv, StartupTypeOK, UpgradeInv
  <2>4. QED
    BY <2>2, <2>3
<1>3. ASSUME NEW s \in Seeder, Stamp(s)
      PROVE  StartupInv'
  <2>1. \A i \in 1 .. 17 : UpgradeOrder[i] \in tables
    BY <1>3, OrderOfAll DEF Stamp, StartupInv, StartupTypeOK, UpgradeInv
  <2>2. tables = AllTables
    BY <2>1, OrderOfAll DEF StartupInv, StartupTypeOK
  <2>3. QED
    BY <1>3, <2>2, GoToKeepsStartupInv DEF Stamp
<1>4. ASSUME NEW s \in Seeder, Seed(s)
      PROVE  StartupInv'
  <2>1. /\ version /\ UNCHANGED <<tables, version>>
        /\ UNCHANGED job \/ \E phase \in {"serve", "down"} : GoTo(s, phase)
    BY <1>4 DEF Seed, AfterSeed, StartupInv, UpgradeInv
  <2>2. CASE UNCHANGED job
    BY <2>1, <2>2 DEF StartupInv, StartupTypeOK, UpgradeInv
  <2>3. QED
    BY <2>1, <2>2, GoToKeepsStartupInv DEF StartupInv, StartupTypeOK, UpgradeInv
<1>5. ASSUME NEW s \in Seeder, Kill(s)
      PROVE  StartupInv'
  BY <1>5, GoToKeepsStartupInv DEF Kill, StartupInv, StartupTypeOK, UpgradeInv
<1>6. ASSUME NEW w \in Writer, Put(w)
      PROVE  StartupInv'
  BY <1>6 DEF Put, StartupInv, StartupTypeOK, UpgradeInv
<1>7. CASE Edit
  BY <1>7 DEF Edit, StartupInv, StartupTypeOK, UpgradeInv
<1>8. CASE UNCHANGED startVars
  BY <1>8 DEF startVars, StartupInv, StartupTypeOK, UpgradeInv
<1>9. QED
  BY <1>1, <1>2, <1>3, <1>4, <1>5, <1>6, <1>7, <1>8 DEF StartupNext

\* Tables, version and containers keep their types, and so does the profile.
THEOREM StartupTypeCorrect == StartupSpec => []StartupTypeOK
<1>1. StartupInv => StartupTypeOK
  BY DEF StartupInv
<1>2. QED
  BY <1>1, StartupImplementsProfile, ProfileTypeCorrect, InitStartupInv, NextStartupInv, PTL
     DEF StartupSpec

-----------------------------------------------------------------------------
ServingInv == (\E s \in Seeder : job[s].phase = "serve") => Baseline

LEMMA NextServingInv ==
  StartupInv /\ ProfileInv /\ ServingInv /\ [StartupNext]_startVars => ServingInv'
<1> SUFFICES ASSUME StartupInv, ProfileInv, ServingInv, [StartupNext]_startVars,
                    NEW q \in Seeder, job'[q].phase = "serve"
             PROVE  Baseline'
    BY DEF ServingInv
<1>1. CASE job[q].phase = "serve"
  BY <1>1, StartupStepsTheProfile, TypeKept, StepsKeep, KeepsBaseline DEF ServingInv, ProfileInv
<1>2. ASSUME NEW s \in Seeder, Boot(s) \/ CreateTable(s) \/ Stamp(s) \/ Kill(s)
      PROVE  job[q].phase = "serve"
  BY <1>2 DEF Boot, CreateTable, Stamp, Kill, GoTo, Down, StartupInv, StartupTypeOK
<1>3. ASSUME NEW s \in Seeder, Seed(s), job[q].phase # "serve"
      PROVE  Baseline'
  <2>1. SeedCommit(s)
    BY <1>3 DEF Seed, AfterSeed, GoTo, Down, StartupInv, StartupTypeOK
  <2>2. QED
    BY <2>1, SeedCommitCompletes
<1>4. ASSUME (\E w \in Writer : Put(w)) \/ Edit \/ UNCHANGED startVars
      PROVE  job[q].phase = "serve"
  BY <1>4 DEF Put, Edit, startVars
<1>5. QED
  BY <1>1, <1>2, <1>3, <1>4 DEF StartupNext

\* Whoever was killed, in whatever statement: a server that was started this way
\* has all tables, the admin and a profile, and of the rest of the baseline all
\* that no admin took away.
THEOREM ServesWholeDatabaseHolds == StartupSpec => []ServesWholeDatabase
<1>1. StartupSpec => []ProfileInv
  BY StartupImplementsProfile, InitProfileInv, NextProfileInv, PTL DEF Spec
<1>2. ProfileInv => TypeOK
  BY DEF ProfileInv
<1>3. StartupSpec => []StartupInv
  BY <1>1, <1>2, InitStartupInv, NextStartupInv, PTL DEF StartupSpec
<1>4. StartupInit => ServingInv
  BY DEF StartupInit, ServingInv, Down
<1>5. StartupSpec => []ServingInv
  BY <1>1, <1>3, <1>4, NextServingInv, PTL DEF StartupSpec
<1>6. StartupInv /\ ServingInv => ServesWholeDatabase
  BY DEF StartupInv, UpgradeInv, ServingInv, ServesWholeDatabase
<1>7. QED
  BY <1>3, <1>5, <1>6, PTL
=============================================================================
