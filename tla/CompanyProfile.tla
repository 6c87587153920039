---------------------------- MODULE CompanyProfile ----------------------------
(***************************************************************************)
(* The company profile, a singleton kept by the application and not by the *)
(* schema: PUT /admin/company (infrastructure/repositories/                *)
(* company_repository.py) and the seed job (db/seed.py), which also        *)
(* inserts the admin user, the technology catalogue and the founder.       *)
(*                                                                         *)
(* Each is one transaction at InnoDB's default REPEATABLE READ: its first  *)
(* SELECT fixes the snapshot all its later ones see, its own inserts are   *)
(* seen by others at its commit, and an insert under a unique key waits    *)
(* for an uncommitted one under the same key. Admins edit the technologies *)
(* and the team at any time; an edit is one step here, its commit (how it  *)
(* gets there is the business of Catalogue). Users have no API.            *)
(***************************************************************************)
EXTENDS Integers, FiniteSets

CONSTANTS
    Writer, Seeder,  \* PUT requests, runs of the seed job
    Row,             \* primary keys a companies row may get, ordered: the bound
    UniqueKey,       \* the admin's email and the technologies' names
    Admin, Founder,  \* the first of them; the seed's team member
    MaxFounders,     \* bound on the founders that edits of the team make
    SeedValues,      \* the baseline profile
    NoRow

ASSUME RowAssumption ==
    /\ Row \subseteq Nat
    /\ NoRow \notin Row \cup Writer \cup {SeedValues}
    /\ SeedValues \notin Writer
    /\ Admin \in UniqueKey /\ Founder \notin UniqueKey /\ MaxFounders \in Nat
    /\ IsFiniteSet(Row) /\ IsFiniteSet(Writer \cup Seeder)

VARIABLES
    profile,    \* profile[c]: whose values row c of companies holds, or NoRow
    uniques,    \* the unique keys present in users and technologies
    founders,   \* team_members named like the founder
    taken,      \* history: of these, the ones an admin took away, until they are back
    tx          \* tx[a]: where the transaction of a is, and its snapshot

vars == <<profile, uniques, founders, taken, tx>>

Actor == Writer \cup Seeder
Present(p) == {c \in Row : p[c] # NoRow}

\* select(Company).limit(1) walks the primary key: the least one present.
First(p) == IF Present(p) = {} THEN NoRow
            ELSE CHOOSE c \in Present(p) : \A d \in Present(p) : c <= d

Snapshot == [first : Row \cup {NoRow}, uniques : SUBSET UniqueKey, founders : Nat]
TxState == {"idle", "read", "inserted"}

TypeOK ==
    /\ profile \in [Row -> Writer \cup {SeedValues, NoRow}]
    /\ uniques \subseteq UniqueKey
    /\ founders \in Nat
    /\ taken \subseteq UniqueKey \cup {Founder}
    /\ tx \in [Actor -> [pc : TxState, snap : Snapshot]]

EmptySnapshot == [first |-> NoRow, uniques |-> {}, founders |-> 0]
NoTx == [pc |-> "idle", snap |-> EmptySnapshot]
Now == [first |-> First(profile), uniques |-> uniques, founders |-> founders]

Init ==
    /\ profile = [c \in Row |-> NoRow]
    /\ uniques \in {{}, UniqueKey}
    /\ founders = 0
    /\ taken = {}
    /\ tx = [a \in Actor |-> NoTx]

End(a) == tx' = [tx EXCEPT ![a] = NoTx]

-----------------------------------------------------------------------------
\* PUT /admin/company: look for the row, then insert or update, then commit

\* Of its snapshot a PUT uses this row.
PutRead(w) ==
    LET snap == [EmptySnapshot EXCEPT !.first = First(profile)] IN
    /\ tx[w].pc = "idle"
    /\ tx' = [tx EXCEPT ![w] = [pc |-> "read", snap |-> snap]]
    /\ UNCHANGED <<profile, uniques, founders, taken>>

\* Mutant: the row that was read is written back in place of the body.
PutWritesBack(w) ==
    /\ tx[w].pc = "read"
    /\ \E c \in IF tx[w].snap.first = NoRow THEN Row \ Present(profile)
                                            ELSE {tx[w].snap.first} :
          profile' = [profile EXCEPT ![c] = tx[w].snap.first]
    /\ End(w)
    /\ UNCHANGED <<uniques, founders, taken>>

\* Mutant: PUT inserts without looking for the row.
PutAlwaysInserts(w) ==
    /\ tx[w].pc = "read"
    /\ \E c \in Row \ Present(profile) : profile' = [profile EXCEPT ![c] = w]
    /\ End(w)
    /\ UNCHANGED <<uniques, founders, taken>>

\* A new row gets a random UUID.
PutCommit(w) ==
    /\ tx[w].pc = "read"
    /\ \E c \in IF tx[w].snap.first = NoRow THEN Row \ Present(profile)
                                            ELSE {tx[w].snap.first} :
          profile' = [profile EXCEPT ![c] = w]
    /\ End(w)
    /\ UNCHANGED <<uniques, founders, taken>>

-----------------------------------------------------------------------------
\* python -m app.db.seed: four checks and one commit

\* seed_admin_user's SELECT fixes the snapshot.
SeedRead(s) ==
    /\ tx[s].pc = "idle"
    /\ tx' = [tx EXCEPT ![s] = [pc |-> "read", snap |-> Now]]
    /\ UNCHANGED <<profile, uniques, founders, taken>>

Missing(s) == UniqueKey \ tx[s].snap.uniques

\* The keys its snapshot lacks, and the founder if it lacks one.
AddBaseline(s) ==
    LET none == tx[s].snap.founders = 0 IN
    /\ uniques' = uniques \cup Missing(s)
    /\ founders' = IF none THEN founders + 1 ELSE founders
    /\ taken' = taken \ (Missing(s) \cup IF none THEN {Founder} ELSE {})

\* Mutant: the profile is committed on its own, before the rest.
SeedInsertCommitsProfile(s) ==
    /\ tx[s].pc = "read"
    /\ tx' = [tx EXCEPT ![s].pc = "inserted"]
    /\ \/ /\ tx[s].snap.first = NoRow
          /\ \E c \in Row \ Present(profile) : profile' = [profile EXCEPT ![c] = SeedValues]
       \/ tx[s].snap.first # NoRow /\ UNCHANGED profile
    /\ UNCHANGED <<uniques, founders, taken>>

\* The session flushes the missing admin and technologies: it waits for the
\* transaction holding one of these keys, and a key that was committed after
\* the snapshot is an IntegrityError that ends the whole run.
SeedInsert(s) ==
    /\ tx[s].pc = "read"
    /\ \A a \in Seeder : tx[a].pc = "inserted" => Missing(a) \cap Missing(s) = {}
    /\ IF Missing(s) \cap uniques = {}
         THEN tx' = [tx EXCEPT ![s].pc = "inserted"]
         ELSE End(s)
    /\ UNCHANGED <<profile, uniques, founders, taken>>

\* Mutant: seed_company restores its baseline into the row it finds.
SeedCommitResets(s) ==
    LET snap == tx[s].snap IN
    /\ tx[s].pc = "inserted"
    /\ snap.founders <= 1
    /\ AddBaseline(s)
    /\ \E c \in IF snap.first = NoRow THEN Row \ Present(profile) ELSE {snap.first} :
          profile' = [profile EXCEPT ![c] = SeedValues]
    /\ End(s)

\* seed_company, seed_team and the commit. Two founders in the snapshot are a
\* MultipleResultsFound: nothing of the run is kept.
SeedCommit(s) ==
    LET snap == tx[s].snap IN
    /\ tx[s].pc = "inserted"
    /\ snap.founders <= 1
    /\ AddBaseline(s)
    /\ \/ /\ snap.first = NoRow
          /\ \E c \in Row \ Present(profile) : profile' = [profile EXCEPT ![c] = SeedValues]
       \/ snap.first # NoRow /\ UNCHANGED profile
    /\ End(s)

\* MultipleResultsFound, a crash, a lost connection, a lock wait timed out.
Rollback(a) ==
    /\ tx[a].pc # "idle"
    /\ End(a)
    /\ UNCHANGED <<profile, uniques, founders, taken>>

-----------------------------------------------------------------------------
\* The seeded rows in the catalogue

\* POST, PUT and DELETE of a technology: a name of the baseline comes, goes, or
\* becomes another. A name that a seed has inserted is waited for, as in SeedInsert.
EditTechnology ==
    \E gone, added \in {{}} \cup {{k} : k \in UniqueKey \ {Admin}} :
        /\ gone \subseteq uniques /\ added \cap uniques = {}
        /\ \A s \in Seeder : tx[s].pc = "inserted" => Missing(s) \cap added = {}
        /\ uniques' = (uniques \ gone) \cup added
        /\ taken' = (taken \cup gone) \ added
        /\ UNCHANGED <<profile, founders, tx>>

\* POST, PUT and DELETE of a team member: names are not unique.
EditTeam ==
    /\ \/ /\ founders > 0
          /\ founders' = founders - 1
          /\ taken' = IF founders = 1 THEN taken \cup {Founder} ELSE taken
       \/ /\ founders < MaxFounders
          /\ founders' = founders + 1
          /\ taken' = taken \ {Founder}
    /\ UNCHANGED <<profile, uniques, tx>>

Next ==
    \/ \E w \in Writer : PutRead(w) \/ PutCommit(w)
    \/ \E s \in Seeder : SeedRead(s) \/ SeedInsert(s) \/ SeedCommit(s)
    \/ \E a \in Actor : Rollback(a)
    \/ EditTechnology \/ EditTeam

Spec == Init /\ [][Next]_vars

-----------------------------------------------------------------------------
\* Properties

\* DATABASE_SCHEMA.md: "La tabla companies nunca tiene mas de un registro".
AtMostOneCompany == Cardinality(Present(profile)) <= 1

\* What an admin did not take away of the baseline.
Baseline ==
    /\ Present(profile) # {}
    /\ Admin \in uniques /\ UniqueKey \ uniques \subseteq taken
    /\ founders = 0 => Founder \in taken

\* A run of the seed is kept whole or not at all, also when another run, a PUT or an
\* edit of what it found commits between its checks and its inserts: where there is
\* a profile it wrote, all else it stands for is there, or was and an admin took it.
SeedIsAtomic == (\E c \in Row : profile[c] = SeedValues) => Baseline

\* Running the seed again never puts its baseline over values an admin wrote.
SeedKeepsEdits ==
    [][\A c \in Present(profile) : profile'[c] # profile[c] => profile'[c] \in Writer]_vars

\* A second row needs a second transaction that began while there was none:
\* once every transaction that saw an empty table is over, rows stop growing.
Unaware == {a \in Actor : tx[a].pc # "idle" /\ tx[a].snap.first = NoRow}
RowsSettle ==
    [][Present(profile) # {} =>
          Cardinality(Present(profile)') + Cardinality(Unaware')
             <= Cardinality(Present(profile)) + Cardinality(Unaware)]_vars
=============================================================================
