------------------------ MODULE CompanyProfile_proofs ------------------------
(***************************************************************************)
(* Proofs, for any number of admins and of runs of the seed: a run of the  *)
(* seed is kept whole or not at all, it overwrites no edit, and the table  *)
(* that was to hold one row stops growing.                                 *)
(*                                                                         *)
(* All of it rests on what a snapshot still says when it is used: a row    *)
(* and the admin it saw are there, and what else it saw is there or was    *)
(* taken away by an admin; only what it did not see may have come since.   *)
(***************************************************************************)
EXTENDS CompanyProfile, FiniteSetTheorems, WellFoundedInduction, TLAPS

Holds(snap) ==
    /\ snap.first # NoRow => snap.first \in Present(profile)
    /\ Admin \in snap.uniques => Admin \in uniques
    /\ snap.uniques \subseteq uniques \cup taken
    /\ snap.founders > 0 => founders > 0 \/ Founder \in taken

SnapshotsHold == \A a \in Actor : tx[a].pc # "idle" => Holds(tx[a].snap)

ProfileInv == TypeOK /\ SeedIsAtomic /\ SnapshotsHold

-----------------------------------------------------------------------------
\* The row a SELECT with LIMIT 1 finds

LEMMA LeastOfNat ==
  ASSUME NEW S, S \subseteq Nat, S # {}
  PROVE  \E c \in S : \A d \in S : c <= d
<1>1. PICK c \in S : \A d \in S : ~(<<d, c>> \in OpToRel(<, Nat))
  BY NatLessThanWellFounded, WFMin
<1>2. c \in Nat /\ \A d \in S : d \in Nat
  OBVIOUS
<1>3. \A d \in S : ~(d < c)
  BY <1>1, <1>2 DEF OpToRel
<1>4. QED
  BY <1>2, <1>3

LEMMA FirstIsPresent ==
  ASSUME NEW p
  PROVE  IF Present(p) = {} THEN First(p) = NoRow ELSE First(p) \in Present(p)
<1>1. Present(p) \subseteq Nat
  BY RowAssumption DEF Present
<1>2. CASE Present(p) # {}
  BY <1>1, <1>2, LeastOfNat DEF First
<1>3. QED
  BY <1>2 DEF First

-----------------------------------------------------------------------------
\* What no step undoes

\* Rows are added or changed, never removed.
Adds == \E c \in Row, v \in Writer \cup {SeedValues} : profile' = [profile EXCEPT ![c] = v]

LEMMA AddsKeeps ==
  ASSUME TypeOK, Adds
  PROVE  /\ profile' \in [Row -> Writer \cup {SeedValues, NoRow}]
         /\ Present(profile) \subseteq Present(profile')
         /\ Present(profile') # {}
  BY RowAssumption DEF TypeOK, Adds, Present

\* Rows and the admin stay; technologies and the founder go, as far as the history
\* knows, by an admin's hand.
Keeps ==
    /\ Present(profile) \subseteq Present(profile')
    /\ Admin \in uniques => Admin \in uniques'
    /\ uniques \cup (taken \cap UniqueKey) \subseteq uniques' \cup taken'
    /\ founders > 0 \/ Founder \in taken => founders' > 0 \/ Founder \in taken'

LEMMA AddBaselineKeeps ==
  ASSUME TypeOK, NEW s \in Seeder, tx[s].snap \in Snapshot, AddBaseline(s)
  PROVE  /\ uniques \subseteq uniques' /\ Missing(s) \subseteq uniques'
         /\ uniques' \subseteq UniqueKey /\ founders' \in Nat /\ founders <= founders'
         /\ taken' \subseteq UniqueKey \cup {Founder}
         /\ taken \cap UniqueKey \subseteq uniques' \cup taken'
         /\ founders > 0 \/ Founder \in taken => founders' > 0 \/ Founder \in taken'
         /\ tx[s].snap.founders = 0 => founders' > 0
  BY RowAssumption DEF TypeOK, AddBaseline, Missing, Snapshot

LEMMA SeedCommitAdds ==
  ASSUME TypeOK, NEW s \in Seeder, SeedCommit(s)
  PROVE  (tx[s].snap.first = NoRow /\ Adds) \/ (tx[s].snap.first # NoRow /\ UNCHANGED profile)
  BY DEF SeedCommit, Adds

LEMMA PutCommitAdds ==
  ASSUME TypeOK, NEW w \in Writer, PutCommit(w)
  PROVE  Adds
<1>1. tx[w].snap.first \in Row \cup {NoRow}
  BY DEF Actor, TypeOK, Snapshot
<1>2. PICK c \in IF tx[w].snap.first = NoRow THEN Row \ Present(profile)
                                            ELSE {tx[w].snap.first} :
        profile' = [profile EXCEPT ![c] = w]
  BY DEF PutCommit
<1>3. c \in Row
  BY <1>1, <1>2
<1>4. QED
  BY <1>2, <1>3 DEF Adds

LEMMA StepsKeep ==
  ASSUME TypeOK, [Next]_vars
  PROVE  Keeps
<1>1. ASSUME UNCHANGED <<profile, uniques, founders, taken>>
      PROVE  Keeps
  BY <1>1 DEF Keeps
<1>2. ASSUME NEW w \in Writer, PutCommit(w)
      PROVE  Keeps
  BY <1>2, PutCommitAdds, AddsKeeps DEF PutCommit, Keeps
<1>3. ASSUME NEW s \in Seeder, SeedCommit(s)
      PROVE  Keeps
  <2>1. AddBaseline(s) /\ tx[s].snap \in Snapshot
    BY <1>3 DEF SeedCommit, TypeOK, Actor
  <2>2. Present(profile) \subseteq Present(profile')
    BY <1>3, SeedCommitAdds, AddsKeeps
  <2>3. QED
    BY <2>1, <2>2, AddBaselineKeeps DEF Keeps
<1>4. CASE EditTechnology
  <2>1. PICK gone, added \in {{}} \cup {{k} : k \in UniqueKey \ {Admin}} :
          /\ uniques' = (uniques \ gone) \cup added
          /\ taken' = (taken \cup gone) \ added
          /\ UNCHANGED <<profile, founders>>
    BY <1>4 DEF EditTechnology
  <2>2. Admin \notin gone /\ Founder \notin added
    BY <2>1, RowAssumption
  <2>3. QED
    BY <2>1, <2>2 DEF Keeps
<1>5. CASE EditTeam
  BY <1>5, RowAssumption DEF EditTeam, Keeps, TypeOK
<1>6. ASSUME NEW a \in Actor, PutRead(a) \/ SeedRead(a) \/ SeedInsert(a) \/ Rollback(a)
      PROVE  Keeps
  BY <1>1, <1>6 DEF PutRead, SeedRead, SeedInsert, Rollback
<1>7. CASE UNCHANGED vars
  BY <1>1, <1>7 DEF vars
<1>8. QED
  BY <1>2, <1>3, <1>4, <1>5, <1>6, <1>7 DEF Next, Actor

LEMMA KeepsBaseline ==
  ASSUME TypeOK, TypeOK', Keeps, Baseline
  PROVE  Baseline'
  BY DEF TypeOK, Keeps, Baseline

\* Whoever is still in a transaction was in it before, with the snapshot it has.
LEMMA KeepsSnapshots ==
  ASSUME TypeOK, SnapshotsHold, Keeps,
         \A b \in Actor : tx'[b].pc # "idle" => tx[b].pc # "idle" /\ tx'[b].snap = tx[b].snap
  PROVE  SnapshotsHold'
<1>1. ASSUME NEW b \in Actor, tx'[b].pc # "idle"
      PROVE  /\ tx[b].snap.first # NoRow => tx[b].snap.first \in Present(profile')
             /\ Admin \in tx[b].snap.uniques => Admin \in uniques'
             /\ tx[b].snap.uniques \subseteq uniques' \cup taken'
             /\ tx[b].snap.founders > 0 => founders' > 0 \/ Founder \in taken'
  <2>1. Holds(tx[b].snap) /\ tx[b].snap.uniques \subseteq UniqueKey
    BY <1>1 DEF SnapshotsHold, TypeOK, Snapshot
  <2>2. QED
    BY <2>1 DEF Holds, Keeps
<1>2. QED
  BY <1>1 DEF SnapshotsHold, Holds

-----------------------------------------------------------------------------
\* The inductive invariant

LEMMA InitProfileInv == Init => ProfileInv
<1> SUFFICES ASSUME Init PROVE ProfileInv
    OBVIOUS
<1>1. NoTx \in [pc : TxState, snap : Snapshot] /\ NoTx.pc = "idle"
  BY DEF NoTx, TxState, Snapshot, EmptySnapshot
<1>2. TypeOK
  BY <1>1 DEF Init, TypeOK
<1>3. SeedIsAtomic /\ SnapshotsHold
  BY <1>1, RowAssumption DEF Init, SeedIsAtomic, SnapshotsHold, Actor
<1>4. QED
  BY <1>2, <1>3 DEF ProfileInv

\* The transaction of a reads: its snapshot says what is so.
Begins(a) ==
    \E snap \in Snapshot :
        /\ snap.first = First(profile)
        /\ snap.uniques \subseteq uniques /\ snap.founders <= founders
        /\ tx' = [tx EXCEPT ![a] = [pc |-> "read", snap |-> snap]]

LEMMA ReadsBegin ==
  ASSUME TypeOK, NEW a \in Actor, PutRead(a) \/ SeedRead(a)
  PROVE  Begins(a)
<1>1. First(profile) \in Row \cup {NoRow}
  BY FirstIsPresent DEF Present
<1>2. CASE PutRead(a)
  <2> DEFINE snap == [EmptySnapshot EXCEPT !.first = First(profile)]
  <2>1. /\ snap \in Snapshot /\ snap.first = First(profile)
        /\ snap.uniques = {} /\ snap.founders = 0
    BY <1>1 DEF Snapshot, EmptySnapshot
  <2>2. snap.uniques \subseteq uniques /\ snap.founders <= founders
    BY <2>1 DEF TypeOK
  <2>3. tx' = [tx EXCEPT ![a] = [pc |-> "read", snap |-> snap]]
    BY <1>2 DEF PutRead
  <2> HIDE DEF snap
  <2>4. QED
    BY <2>1, <2>2, <2>3 DEF Begins
<1>3. CASE SeedRead(a)
  <2>1. Now \in Snapshot /\ Now.first = First(profile) /\ Now.uniques = uniques
        /\ Now.founders = founders
    BY <1>1 DEF Snapshot, Now, TypeOK
  <2>2. Now.uniques \subseteq uniques /\ Now.founders <= founders
    BY <2>1 DEF TypeOK
  <2>3. QED
    BY <1>3, <2>1, <2>2 DEF SeedRead, Begins
<1>4. QED
  BY <1>2, <1>3

LEMMA TypeKept == TypeOK /\ [Next]_vars => TypeOK'
<1> SUFFICES ASSUME TypeOK, [Next]_vars PROVE TypeOK'
    OBVIOUS
<1>0. NoTx \in [pc : TxState, snap : Snapshot]
  BY DEF NoTx, TxState, Snapshot, EmptySnapshot
<1>1. ASSUME NEW a \in Actor, PutRead(a) \/ SeedRead(a)
      PROVE  TypeOK'
  BY <1>1, ReadsBegin DEF Begins, PutRead, SeedRead, TypeOK, TxState
<1>2. ASSUME NEW w \in Writer, PutCommit(w)
      PROVE  TypeOK'
  BY <1>0, <1>2, PutCommitAdds, AddsKeeps DEF PutCommit, End, TypeOK
<1>3. ASSUME NEW s \in Seeder, SeedCommit(s)
      PROVE  TypeOK'
  <2>1. AddBaseline(s) /\ tx[s].snap \in Snapshot
    BY <1>3 DEF SeedCommit, TypeOK, Actor
  <2>2. profile' \in [Row -> Writer \cup {SeedValues, NoRow}]
    BY <1>3, SeedCommitAdds, AddsKeeps DEF TypeOK
  <2>3. tx' \in [Actor -> [pc : TxState, snap : Snapshot]]
    BY <1>0, <1>3 DEF SeedCommit, End, TypeOK
  <2>4. QED
    BY <2>1, <2>2, <2>3, AddBaselineKeeps DEF TypeOK
<1>4. ASSUME NEW s \in Seeder, SeedInsert(s)
      PROVE  TypeOK'
  BY <1>0, <1>4 DEF SeedInsert, End, TypeOK, TxState, Actor
<1>5. ASSUME NEW a \in Actor, Rollback(a)
      PROVE  TypeOK'
  BY <1>0, <1>5 DEF Rollback, End, TypeOK
<1>6. CASE EditTechnology
  BY <1>6 DEF EditTechnology, TypeOK
<1>7. CASE EditTeam
  BY <1>7 DEF EditTeam, TypeOK
<1>8. CASE UNCHANGED vars
  BY <1>8 DEF vars, TypeOK
<1>9. QED
  BY <1>1, <1>2, <1>3, <1>4, <1>5, <1>6, <1>7, <1>8 DEF Next, Actor

\* What SeedCommit leaves: whatever of the baseline was not there, is.
LEMMA SeedCommitCompletes ==
  ASSUME ProfileInv, NEW s \in Seeder, SeedCommit(s)
  PROVE  Baseline'
<1>1. /\ TypeOK /\ Holds(tx[s].snap) /\ tx[s].snap \in Snapshot /\ AddBaseline(s)
      /\ TypeOK' /\ Keeps
  BY TypeKept, StepsKeep DEF Actor, ProfileInv, SnapshotsHold, TypeOK, SeedCommit, Next
<1>2. Present(profile)' # {}
  BY <1>1, SeedCommitAdds, AddsKeeps DEF Holds, Keeps
<1>3. Admin \in uniques' /\ UniqueKey \ uniques' \subseteq taken'
  <2>1. uniques \subseteq uniques' /\ Missing(s) \subseteq uniques'
    BY <1>1, AddBaselineKeeps
  <2>2. tx[s].snap.uniques \subseteq uniques' \cup taken'
    BY <1>1 DEF Holds, Keeps, Snapshot
  <2>3. QED
    BY <1>1, <2>1, <2>2, RowAssumption DEF Holds, Missing
<1>4. founders' = 0 => Founder \in taken'
  <2>1. tx[s].snap.founders \in Nat /\ founders' \in Nat
    BY <1>1 DEF Snapshot, TypeOK
  <2>2. CASE tx[s].snap.founders = 0
    BY <1>1, <2>1, <2>2, AddBaselineKeeps
  <2>3. CASE tx[s].snap.founders > 0
    BY <1>1, <2>1, <2>3 DEF Holds, Keeps
  <2>4. QED
    BY <2>1, <2>2, <2>3
<1>5. QED
  BY <1>2, <1>3, <1>4 DEF Baseline

\* A profile of the seed's that was not there is a seed's commit.
LEMMA SeedsAlone ==
  ASSUME TypeOK, [Next]_vars, ~\E s \in Seeder : SeedCommit(s),
         NEW c \in Row, profile'[c] = SeedValues
  PROVE  profile[c] = SeedValues
<1>1. ASSUME NEW w \in Writer, PutCommit(w)
      PROVE  profile[c] = SeedValues
  BY <1>1, RowAssumption DEF PutCommit, TypeOK
<1>2. ASSUME NEW a \in Actor, PutRead(a) \/ SeedRead(a) \/ SeedInsert(a) \/ Rollback(a)
      PROVE  UNCHANGED profile
  BY <1>2 DEF PutRead, SeedRead, SeedInsert, Rollback
<1>3. CASE EditTechnology \/ EditTeam
  BY <1>3 DEF EditTechnology, EditTeam
<1>4. QED
  BY <1>1, <1>2, <1>3 DEF Next, vars, Actor

LEMMA NextProfileInv == ProfileInv /\ [Next]_vars => ProfileInv'
<1> SUFFICES ASSUME ProfileInv, [Next]_vars PROVE ProfileInv'
    OBVIOUS
<1>1. TypeOK /\ TypeOK' /\ Keeps /\ SnapshotsHold
  BY TypeKept, StepsKeep DEF ProfileInv
<1>2. SeedIsAtomic'
  <2>1. CASE \E s \in Seeder : SeedCommit(s)
    BY <2>1, SeedCommitCompletes DEF SeedIsAtomic
  <2>2. CASE ~\E s \in Seeder : SeedCommit(s)
    BY <1>1, <2>2, SeedsAlone, KeepsBaseline DEF ProfileInv, SeedIsAtomic
  <2>3. QED
    BY <2>1, <2>2
<1>3. ASSUME NEW a \in Actor, Begins(a), UNCHANGED <<profile, uniques, founders, taken>>
      PROVE  SnapshotsHold'
  <2>1. PICK snap \in Snapshot :
          /\ snap.first = First(profile)
          /\ snap.uniques \subseteq uniques /\ snap.founders <= founders
          /\ tx' = [tx EXCEPT ![a] = [pc |-> "read", snap |-> snap]]
    BY <1>3 DEF Begins
  <2>2. Holds(snap)
    BY <1>1, <2>1, FirstIsPresent DEF Holds, Snapshot, TypeOK
  <2>3. ASSUME NEW b \in Actor, tx'[b].pc # "idle"
        PROVE  Holds(tx'[b].snap)
    BY <1>1, <2>1, <2>2, <2>3 DEF SnapshotsHold, TypeOK
  <2>4. QED
    BY <1>3, <2>3 DEF SnapshotsHold, Holds, Present
<1>4. ASSUME \A b \in Actor : tx'[b].pc # "idle" => tx[b].pc # "idle" /\ tx'[b].snap = tx[b].snap
      PROVE  SnapshotsHold'
  BY <1>1, <1>4, KeepsSnapshots
<1>5. ASSUME NEW a \in Actor, End(a)
      PROVE  SnapshotsHold'
  BY <1>1, <1>4, <1>5 DEF End, NoTx, TypeOK
<1>6. ASSUME NEW s \in Seeder, SeedInsert(s)
      PROVE  SnapshotsHold'
  <2>1. CASE tx' = [tx EXCEPT ![s].pc = "inserted"]
    BY <1>1, <1>4, <1>6, <2>1 DEF SeedInsert, TypeOK
  <2>2. QED
    BY <1>5, <1>6, <2>1 DEF SeedInsert, Actor
<1>7. ASSUME EditTechnology \/ EditTeam \/ UNCHANGED vars
      PROVE  SnapshotsHold'
  <2>1. tx' = tx
    BY <1>7 DEF EditTechnology, EditTeam, vars
  <2>2. QED
    BY <1>4, <2>1
<1>8. ASSUME NEW a \in Actor, PutRead(a) \/ SeedRead(a)
      PROVE  SnapshotsHold'
  BY <1>1, <1>3, <1>8, ReadsBegin DEF PutRead, SeedRead
<1>9. ASSUME NEW a \in Actor, PutCommit(a) \/ SeedCommit(a) \/ Rollback(a)
      PROVE  SnapshotsHold'
  BY <1>5, <1>9 DEF PutCommit, SeedCommit, Rollback
<1>10. SnapshotsHold'
  <2>1. \/ \E a \in Actor : PutRead(a) \/ SeedRead(a)
        \/ \E a \in Actor : PutCommit(a) \/ SeedCommit(a) \/ Rollback(a)
        \/ \E s \in Seeder : SeedInsert(s)
        \/ EditTechnology \/ EditTeam \/ UNCHANGED vars
    BY DEF Next, Actor
  <2>2. QED
    BY <1>6, <1>7, <1>8, <1>9, <2>1
<1>11. QED
  BY <1>1, <1>2, <1>10 DEF ProfileInv

\* The profile, the unique keys, the founders and the snapshots keep their types.
THEOREM ProfileTypeCorrect == Spec => []TypeOK
<1>1. ProfileInv => TypeOK
  BY DEF ProfileInv
<1>2. QED
  BY <1>1, InitProfileInv, NextProfileInv, PTL DEF Spec

\* However runs of the seed, PUTs and edits interleave: where there is a profile of
\* the seed's, of the rest of the baseline only what admins took away is missing.
THEOREM SeedIsAtomicHolds == Spec => []SeedIsAtomic
<1>1. ProfileInv => SeedIsAtomic
  BY DEF ProfileInv
<1>2. QED
  BY <1>1, InitProfileInv, NextProfileInv, PTL DEF Spec

-----------------------------------------------------------------------------
\* Action properties

LEMMA StepsKeepEdits ==
  ASSUME TypeOK, [Next]_vars
  PROVE  \A c \in Present(profile) : profile'[c] # profile[c] => profile'[c] \in Writer
<1>1. ASSUME NEW w \in Writer, PutCommit(w)
      PROVE  \A c \in Present(profile) : profile'[c] # profile[c] => profile'[c] \in Writer
  BY <1>1 DEF PutCommit, Present
<1>2. ASSUME NEW s \in Seeder, SeedCommit(s)
      PROVE  \A c \in Present(profile) : profile'[c] = profile[c]
  BY <1>2 DEF TypeOK, SeedCommit, Present
<1>3. ASSUME NEW a \in Actor, PutRead(a) \/ SeedRead(a) \/ SeedInsert(a) \/ Rollback(a)
      PROVE  UNCHANGED profile
  BY <1>3 DEF PutRead, SeedRead, SeedInsert, Rollback
<1>4. CASE EditTechnology \/ EditTeam
  BY <1>4 DEF EditTechnology, EditTeam
<1>5. QED
  BY <1>1, <1>2, <1>3, <1>4 DEF Next, vars, Actor

\* The seed writes no row that is there.
THEOREM SeedKeepsEditsHolds == Spec => SeedKeepsEdits
  BY StepsKeepEdits, ProfileTypeCorrect, PTL DEF Spec, SeedKeepsEdits

LEMMA RowsAndUnawareFinite ==
  /\ IsFiniteSet(Present(profile)) /\ Cardinality(Present(profile)) \in Nat
  /\ IsFiniteSet(Unaware) /\ Cardinality(Unaware) \in Nat
<1>1. Present(profile) \subseteq Row /\ Unaware \subseteq Writer \cup Seeder
  BY DEF Present, Unaware, Actor
<1>2. QED
  BY <1>1, RowAssumption, FS_Subset, FS_CardinalityType

\* Fewer transactions are unaware, and no row is new.
LEMMA FewerUnaware ==
  ASSUME Unaware' \subseteq Unaware, Present(profile)' = Present(profile)
  PROVE  Cardinality(Present(profile)') + Cardinality(Unaware')
            <= Cardinality(Present(profile)) + Cardinality(Unaware)
<1>1. Cardinality(Unaware') <= Cardinality(Unaware) /\ Cardinality(Unaware') \in Nat
  BY RowsAndUnawareFinite, FS_Subset, FS_CardinalityType
<1>2. QED
  BY <1>1, RowsAndUnawareFinite

\* A commit that adds a row ends a transaction that was unaware.
LEMMA CommitSettles ==
  ASSUME ProfileInv, NEW a \in Actor, tx[a].pc # "idle", End(a),
         NEW v \in Writer \cup {SeedValues},
         NEW c \in IF tx[a].snap.first = NoRow THEN Row \ Present(profile)
                                               ELSE {tx[a].snap.first},
         profile' = [profile EXCEPT ![c] = v]
  PROVE  Cardinality(Present(profile)') + Cardinality(Unaware')
            <= Cardinality(Present(profile)) + Cardinality(Unaware)
<1>1. Unaware' = Unaware \ {a}
  BY DEF ProfileInv, TypeOK, End, NoTx, Unaware
<1>2. CASE tx[a].snap.first # NoRow
  <2>1. c \in Present(profile)
    BY <1>2 DEF ProfileInv, SnapshotsHold, Holds
  <2>2. Present(profile)' = Present(profile)
    BY <2>1, RowAssumption DEF ProfileInv, TypeOK, Present
  <2>3. QED
    BY <1>1, <2>2, FewerUnaware
<1>3. CASE tx[a].snap.first = NoRow
  <2>1. Present(profile)' = Present(profile) \cup {c} /\ c \notin Present(profile)
    BY <1>3, RowAssumption DEF ProfileInv, TypeOK, Present
  <2>2. Cardinality(Present(profile)') = Cardinality(Present(profile)) + 1
    BY <2>1, RowsAndUnawareFinite, FS_AddElement
  <2>3. a \in Unaware
    BY <1>3 DEF Unaware
  <2>4. Cardinality(Unaware') = Cardinality(Unaware) - 1
    BY <1>1, <2>3, RowsAndUnawareFinite, FS_RemoveElement
  <2>5. QED
    BY <2>2, <2>4, RowsAndUnawareFinite
<1>4. QED
  BY <1>2, <1>3

LEMMA StepsSettle ==
  ASSUME ProfileInv, [Next]_vars, Present(profile) # {}
  PROVE  Cardinality(Present(profile)') + Cardinality(Unaware')
            <= Cardinality(Present(profile)) + Cardinality(Unaware)
<1>1. ASSUME NEW a \in Actor, Begins(a), UNCHANGED profile
      PROVE  Unaware' \subseteq Unaware /\ Present(profile)' = Present(profile)
  <2>1. First(profile) # NoRow
    BY FirstIsPresent, RowAssumption DEF Present
  <2>2. Unaware' \subseteq Unaware
    BY <1>1, <2>1 DEF ProfileInv, TypeOK, Begins, Unaware
  <2>3. QED
    BY <1>1, <2>2 DEF Present
<1>2. ASSUME NEW a \in Actor, End(a), UNCHANGED profile
      PROVE  Unaware' \subseteq Unaware /\ Present(profile)' = Present(profile)
  BY <1>2 DEF ProfileInv, TypeOK, End, NoTx, Unaware, Present
<1>3. ASSUME NEW w \in Writer, PutCommit(w)
      PROVE  Cardinality(Present(profile)') + Cardinality(Unaware')
                <= Cardinality(Present(profile)) + Cardinality(Unaware)
  <2>1. w \in Actor /\ tx[w].pc # "idle" /\ End(w)
    BY <1>3 DEF PutCommit, Actor
  <2>2. PICK c \in IF tx[w].snap.first = NoRow THEN Row \ Present(profile)
                                              ELSE {tx[w].snap.first} :
          profile' = [profile EXCEPT ![c] = w]
    BY <1>3 DEF PutCommit
  <2>3. QED
    BY <2>1, <2>2, CommitSettles
<1>4. ASSUME NEW s \in Seeder, SeedCommit(s)
      PROVE  Cardinality(Present(profile)') + Cardinality(Unaware')
                <= Cardinality(Present(profile)) + Cardinality(Unaware)
  <2>1. s \in Actor /\ tx[s].pc # "idle" /\ End(s)
    BY <1>4 DEF SeedCommit, Actor
  <2>2. CASE tx[s].snap.first # NoRow
    BY <1>2, <1>4, <2>1, <2>2, FewerUnaware DEF SeedCommit
  <2>3. CASE tx[s].snap.first = NoRow
    <3>1. PICK c \in Row \ Present(profile) : profile' = [profile EXCEPT ![c] = SeedValues]
      BY <1>4, <2>3 DEF SeedCommit
    <3>2. QED
      BY <2>1, <2>3, <3>1, CommitSettles
  <2>4. QED
    BY <2>2, <2>3
<1>5. ASSUME NEW s \in Seeder, SeedInsert(s)
      PROVE  Unaware' \subseteq Unaware /\ Present(profile)' = Present(profile)
  <2>1. CASE tx' = [tx EXCEPT ![s].pc = "inserted"]
    BY <1>5, <2>1 DEF SeedInsert, ProfileInv, TypeOK, Unaware, Present
  <2>2. QED
    BY <1>2, <1>5, <2>1 DEF SeedInsert, Actor
<1>6. ASSUME UNCHANGED vars
      PROVE  Unaware' \subseteq Unaware /\ Present(profile)' = Present(profile)
  BY <1>6 DEF vars, Unaware, Present
<1>e. CASE EditTechnology \/ EditTeam
  <2>1. Unaware' \subseteq Unaware /\ Present(profile)' = Present(profile)
    BY <1>e DEF EditTechnology, EditTeam, Unaware, Present
  <2>2. QED
    BY <2>1, FewerUnaware
<1>7. ASSUME NEW a \in Actor, PutRead(a) \/ SeedRead(a) \/ Rollback(a)
      PROVE  Unaware' \subseteq Unaware /\ Present(profile)' = Present(profile)
  BY <1>1, <1>2, <1>7, ReadsBegin DEF ProfileInv, PutRead, SeedRead, Rollback
<1>8. \/ Unaware' \subseteq Unaware /\ Present(profile)' = Present(profile)
      \/ \E w \in Writer : PutCommit(w)
      \/ \E s \in Seeder : SeedCommit(s)
      \/ EditTechnology \/ EditTeam
  BY <1>5, <1>6, <1>7 DEF Next, Actor
<1>9. QED
  BY <1>3, <1>4, <1>e, <1>8, FewerUnaware

\* Once there is a row, rows and transactions that saw none do not outgrow what
\* they were: the table settles when those transactions are over.
THEOREM RowsSettleHolds == Spec => RowsSettle
  BY StepsSettle, InitProfileInv, NextProfileInv, PTL DEF Spec, RowsSettle
=============================================================================
