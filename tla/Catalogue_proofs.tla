--------------------------- MODULE Catalogue_proofs ---------------------------
(***************************************************************************)
(* Proofs, for any admins, rows, values and kinds: what the database keeps *)
(* true of the catalogue, and the deletion that no stale PUT undoes.       *)
(*                                                                         *)
(* The constraints are checked by the statement that could break them, so  *)
(* the properties need little of the requests: that a body still satisfies *)
(* its schema when it is written, and that a key being inserted was never  *)
(* another row's, nor is another request's.                                *)
(***************************************************************************)
EXTENDS Catalogue, TLAPS

Writing(r) == req[r].pc = "write"
Posting(r) == Writing(r) /\ req[r].op = "create"

WorkHasRow == \A r \in Request : Busy(r) => req[r].id \in Id
BodiesChecked ==
    \A r \in Request :
        Writing(r) /\ req[r].op # "delete" => req[r].new \in Bodies(req[r].id)
FreshKeys ==
    /\ stored \subseteq born
    /\ \A r \in Request :
          Posting(r) =>
            req[r].id \notin born /\ \A q \in Request \ {r} : req[q].id # req[r].id

\* The links in a copy are the row's own, or those of a row that is to be deleted.
Copies(local) ==
    \A l \in local.oldLinks : l[1] = local.id \/ (local.op = "delete" /\ l[2] = local.id)
CopiesInv == \A r \in Request : Writing(r) => Copies(req[r])

WorkInv == CatalogueTypeOK /\ WorkHasRow /\ BodiesChecked /\ FreshKeys /\ CopiesInv

CatalogueInv == WorkInv /\ PublishedHasDate /\ KeysUnique /\ ReferencesHold

-----------------------------------------------------------------------------
\* Kinds, bodies and columns

Columns == {"key", "shown", "date", "project_id", "client_id"}

LEMMA WritesAreColumns ==
  ASSUME NEW i \in Id
  PROVE  Rule(i).writes \subseteq {"project_id", "client_id"}
<1>1. \A k \in Kind : RuleOf[k].writes \subseteq {"project_id", "client_id"}
  BY DEF Kind, RuleOf, Projects, Articles, Technologies, CaseStudies, Testimonials, Clients,
         Partners, TeamMembers, ServiceLines, Services, Products
<1>2. KindOf[i] \in Kind
  BY KindAssumption
<1>3. QED
  BY <1>1, <1>2 DEF Rule

LEMMA NoRowIsRow == NoRow \in Row /\ DOMAIN NoRow = Columns
  BY DEF NoRow, Row, Columns

LEMMA RowsByColumn ==
  /\ \A b \in Row : b = [c \in Columns |-> b[c]]
  /\ \A b \in Row : b.key \in Key \cup {None} /\ b.shown \in BOOLEAN
                    /\ b.date \in Date \cup {None} /\ b.project_id \in Id \cup {None}
                    /\ b.client_id \in Id \cup {None}
  BY DEF Row, Columns

\* A body is a row, with its date if it publishes, and the references it must have.
LEMMA BodyFacts ==
  ASSUME NEW i \in Id, NEW b \in Bodies(i)
  PROVE  /\ b \in Row
         /\ DateRule(i, b)
         /\ \A column \in Rule(i).writes \ Rule(i).table.optional : b[column] # None
<1>1. \A column : column \in Rule(i).writes \ Rule(i).table.optional
                  => None \notin Parental(i, column)
  BY KeyAssumption DEF Parental, Of
<1>2. \A column : Parental(i, column) \subseteq Id \cup {None}
  BY DEF Parental, Of
<1>3. /\ b.project_id \in Parental(i, "project_id")
      /\ b.client_id \in Parental(i, "client_id")
      /\ b.key \in Key \cup {None} /\ b.shown \in BOOLEAN /\ b.date \in Date \cup {None}
      /\ b \in [key : Key \cup {None}, shown : BOOLEAN, date : Date \cup {None},
                project_id : Parental(i, "project_id"), client_id : Parental(i, "client_id")]
  BY DEF Bodies, Column
<1>4. b \in Row
  BY <1>2, <1>3 DEF Row
<1>5. DateRule(i, b)
  BY DEF Bodies
<1>6. \A column \in Rule(i).writes \ Rule(i).table.optional : b[column] # None
  BY <1>1, <1>3, WritesAreColumns
<1>7. QED
  BY <1>4, <1>5, <1>6

LEMMA DoneIsLocal ==
  \A answer \in Answer \cup {"write"} :
     /\ Done(answer) \in Local
     /\ Done(answer).pc = answer /\ Done(answer).op = "create" /\ Done(answer).id = None
  BY NoRowIsRow DEF Done, Local, Answer, Links

\* What commit leaves of a row that is edited.
LEMMA MergedFacts ==
  ASSUME NEW r \in Request, req[r] \in Local, req[r].id \in Id, row \in [Id -> Row]
  PROVE  /\ Merged(r) \in Row
         /\ \A c \in Columns : Merged(r)[c] \in {req[r].new[c], row[req[r].id][c]}
         /\ \A c \in Columns : req[r].new[c] = req[r].old[c] => Merged(r)[c] = row[req[r].id][c]
         /\ ~Changed(r) => Merged(r) = row[req[r].id]
<1>1. req[r].new \in Row /\ row[req[r].id] \in Row
  BY DEF Local
<1>2. Merged(r) = [c \in Columns |-> IF req[r].new[c] # req[r].old[c]
                                       THEN req[r].new[c] ELSE row[req[r].id][c]]
  BY NoRowIsRow DEF Merged
<1>3. Merged(r) \in Row
  BY <1>1, <1>2, RowsByColumn DEF Row, Columns
<1>4. ~Changed(r) => Merged(r) = [c \in Columns |-> row[req[r].id][c]]
  BY <1>2 DEF Changed
<1>5. QED
  BY <1>1, <1>2, <1>3, <1>4, RowsByColumn

-----------------------------------------------------------------------------
\* A step of a request that leaves the tables alone: it answers, or loads a row.

Tables == <<stored, row, tagged, born>>

Answers(r) ==
    /\ UNCHANGED Tables
    /\ \E answer \in Answer : Finish(r, answer)

Loaded(r, local) ==
    /\ local.pc = "write" /\ local.id \in Id
    /\ local.op # "delete" => local.new \in Bodies(local.id)
    /\ IF local.op = "create"
         THEN local.id \notin born /\ \A q \in Request : req[q].id # local.id
         ELSE local.id \in stored
    /\ Copies(local)

Loads(r) ==
    /\ UNCHANGED Tables
    /\ \E local \in Local : Goto(r, local) /\ Loaded(r, local)

LEMMA LookUpAnswersOrGoesOn ==
  ASSUME NEW r, NEW b, NEW then, LookUp(r, b, then)
  PROVE  (\E answer \in Answer : Finish(r, answer)) \/ Goto(r, then)
<1>1. "notfound" \in Answer /\ "error" \in Answer
  BY DEF Answer
<1>2. QED
  BY <1>1 DEF LookUp

LEMMA LoadIsLocal ==
  ASSUME CatalogueTypeOK, NEW i \in Id, NEW op \in {"update", "delete"}, NEW b \in Row,
         NEW tags \in SUBSET Id
  PROVE  Load(op, i, b, tags) \in Local
<1>1. /\ LinksOf(i) \in Links /\ OwnLinks(i) \in Links /\ Resolve(i, tags) \in Links
      /\ row[i] \in Row
  BY DEF CatalogueTypeOK, LinksOf, OwnLinks, Resolve, Links
<1>2. QED
  BY <1>1 DEF Load, Local

LEMMA TagsAreIds == \A i \in Id : TagSets(i) \subseteq SUBSET Id
  BY DEF TagSets, Of

LEMMA CreateLoads ==
  ASSUME WorkInv, NEW r \in Request, NEW i \in Id, NEW b \in Bodies(i), NEW tags \in TagSets(i),
         Create(r, i, b, tags)
  PROVE  Answers(r) \/ Loads(r)
<1> DEFINE local == [Done("write") EXCEPT !.id = i, !.new = b, !.newLinks = Resolve(i, tags)]
<1>1. (\E answer \in Answer : Finish(r, answer)) \/ Goto(r, local)
  BY LookUpAnswersOrGoesOn DEF Create
<1>2. Resolve(i, tags) \in Links /\ b \in Row
  BY TagsAreIds, BodyFacts DEF Resolve, Links
<1>3. local \in Local
  BY <1>2, NoRowIsRow DEF Done, Local, Links
<1>4. /\ local.pc = "write" /\ local.id = i /\ local.new = b /\ local.op = "create"
      /\ local.oldLinks = {}
  BY DEF Done
<1>5. Loaded(r, local)
  BY <1>4 DEF Loaded, Create, Copies
<1>6. QED
  BY <1>1, <1>3, <1>5 DEF Answers, Loads, Tables, Create

LEMMA UpdateLoads ==
  ASSUME WorkInv, NEW r \in Request, NEW i \in Id, NEW b \in Bodies(i), NEW tags \in TagSets(i),
         Update(r, i, b, tags)
  PROVE  Answers(r) \/ Loads(r)
<1>1. "notfound" \in Answer
  BY DEF Answer
<1>2. CASE i \notin stored
  <2>1. (\E answer \in Answer : Finish(r, answer)) \/ Goto(r, Done("notfound"))
    BY <1>1, <1>2, LookUpAnswersOrGoesOn DEF Update
  <2>2. QED
    BY <1>1, <2>1 DEF Answers, Tables, Update, Finish
<1>3. CASE i \in stored
  <2> DEFINE local == Load("update", i, b, tags)
  <2>1. (\E answer \in Answer : Finish(r, answer)) \/ Goto(r, local)
    BY <1>3, LookUpAnswersOrGoesOn DEF Update
  <2>2. local \in Local
    BY TagsAreIds, BodyFacts, LoadIsLocal DEF WorkInv
  <2>3. Loaded(r, local)
    BY <1>3 DEF Loaded, Load, Copies, OwnLinks
  <2>4. QED
    BY <2>1, <2>2, <2>3 DEF Answers, Loads, Tables, Update
<1>4. QED
  BY <1>2, <1>3

LEMMA DeleteLoads ==
  ASSUME WorkInv, NEW r \in Request, NEW i \in Id, Delete(r, i)
  PROVE  Answers(r) \/ Loads(r)
<1>1. CASE i \notin stored
  <2>1. "notfound" \in Answer
    BY DEF Answer
  <2>2. QED
    BY <1>1, <2>1 DEF Answers, Tables, Delete
<1>2. CASE i \in stored
  <2>1. Load("delete", i, NoRow, {}) \in Local
    BY LoadIsLocal, NoRowIsRow DEF WorkInv
  <2>2. Loaded(r, Load("delete", i, NoRow, {}))
    BY <1>2 DEF Loaded, Load, Copies, LinksOf
  <2>3. QED
    BY <1>2, <2>1, <2>2 DEF Loads, Tables, Delete
<1>3. QED
  BY <1>1, <1>2

LEMMA RefusalIsAnswer == \A r : Refusal(r) \in Answer
  BY DEF Refusal, Answer

LEMMA EndsAnswer ==
  ASSUME WorkInv, NEW r \in Request, RollBack(r) \/ Reply(r) \/ Abort(r)
  PROVE  Answers(r)
<1>1. {"ok", "error", "lost"} \subseteq Answer
  BY DEF Answer
<1>2. CASE RollBack(r)
  <2>1. req[r].op \in {"create", "update", "delete"}
    BY DEF WorkInv, CatalogueTypeOK, Local
  <2>2. CreateFails(r) \in Answer \cup {""} /\ DeleteFails(r) \in Answer \cup {""}
    BY <1>1, RefusalIsAnswer DEF CreateFails, DeleteFails
  <2>3. UpdateFails(r) \in Answer \cup {""}
    BY <1>1, RefusalIsAnswer DEF UpdateFails
  <2>4. Fails(r) \in Answer \cup {""}
    BY <2>1, <2>2, <2>3 DEF Fails
  <2>5. QED
    BY <1>2, <2>4 DEF RollBack, Answers, Tables
<1>3. CASE Reply(r)
  BY <1>1, <1>3 DEF Reply, Answers, Tables
<1>4. CASE Abort(r)
  BY <1>1, <1>4 DEF Abort, Answers, Tables
<1>5. QED
  BY <1>2, <1>3, <1>4

-----------------------------------------------------------------------------
\* The work in progress

LEMMA InitCatalogueInv == Init => CatalogueInv
<1> SUFFICES ASSUME Init PROVE CatalogueInv
    OBVIOUS
<1>1. Done("ok") \in Local /\ Done("ok").pc = "ok"
  BY DoneIsLocal DEF Answer
<1>2. CatalogueTypeOK
  BY <1>1, NoRowIsRow DEF Init, CatalogueTypeOK, Links
<1>3. WorkHasRow /\ BodiesChecked /\ FreshKeys /\ CopiesInv
  BY <1>1 DEF Init, WorkHasRow, BodiesChecked, FreshKeys, CopiesInv, Writing, Posting, Busy
<1>4. PublishedHasDate /\ KeysUnique /\ ReferencesHold
  BY DEF Init, PublishedHasDate, KeysUnique, ReferencesHold
<1>5. QED
  BY <1>2, <1>3, <1>4 DEF CatalogueInv, WorkInv

LEMMA AnswersKeepWork ==
  ASSUME WorkInv, NEW r \in Request, Answers(r)
  PROVE  WorkInv'
<1>1. PICK answer \in Answer : Finish(r, answer)
  BY DEF Answers
<1>2. Done(answer) \in Local /\ Done(answer).pc \notin {"write", "reply"} /\ Done(answer).id = None
  BY DoneIsLocal DEF Answer
<1>3. /\ req' \in [Request -> Local]
      /\ req'[r] = Done(answer)
      /\ \A q \in Request \ {r} : req'[q] = req[q]
  BY <1>1, <1>2 DEF WorkInv, CatalogueTypeOK, Finish, Goto
<1>4. CatalogueTypeOK'
  BY <1>3 DEF WorkInv, CatalogueTypeOK, Answers, Tables
<1>5. WorkHasRow'
  BY <1>2, <1>3 DEF WorkInv, WorkHasRow, Busy
<1>6. BodiesChecked'
  BY <1>2, <1>3 DEF WorkInv, BodiesChecked, Writing
<1>7. FreshKeys'
  <2>1. \A q \in Request : Posting(q)' => q # r /\ Posting(q)
    BY <1>2, <1>3 DEF Posting, Writing
  <2>2. \A q \in Request : Posting(q) => req[q].id \in Id
    BY DEF WorkInv, WorkHasRow, Posting, Writing, Busy
  <2>3. None \notin Id
    BY KeyAssumption
  <2>4. QED
    BY <1>2, <1>3, <2>1, <2>2, <2>3 DEF WorkInv, FreshKeys, Answers, Tables
<1>8. CopiesInv'
  BY <1>2, <1>3 DEF WorkInv, CopiesInv, Copies, Writing
<1>9. QED
  BY <1>4, <1>5, <1>6, <1>7, <1>8 DEF WorkInv

LEMMA LoadsKeepWork ==
  ASSUME WorkInv, NEW r \in Request, Loads(r)
  PROVE  WorkInv'
<1>1. PICK local \in Local : Goto(r, local) /\ Loaded(r, local)
  BY DEF Loads
<1>2. /\ req' \in [Request -> Local]
      /\ req'[r] = local
      /\ \A q \in Request \ {r} : req'[q] = req[q]
  BY <1>1 DEF WorkInv, CatalogueTypeOK, Goto
<1>3. CatalogueTypeOK'
  BY <1>2 DEF WorkInv, CatalogueTypeOK, Loads, Tables
<1>4. WorkHasRow'
  BY <1>1, <1>2 DEF WorkInv, WorkHasRow, Busy, Loaded
<1>5. BodiesChecked'
  BY <1>1, <1>2 DEF WorkInv, BodiesChecked, Writing, Loaded
<1>6. FreshKeys'
  <2>1. stored' = stored /\ born' = born /\ stored \subseteq born
    BY DEF Loads, Tables, WorkInv, FreshKeys
  <2>2. ASSUME NEW p \in Request, NEW q \in Request \ {p}, Posting(p)'
        PROVE  req'[p].id \notin born /\ req'[q].id # req'[p].id
    <3>1. CASE p = r
      BY <1>1, <1>2, <2>2, <3>1 DEF Posting, Writing, Loaded
    <3>2. CASE p # r
      <4>1. Posting(p) /\ req'[p] = req[p]
        BY <1>2, <2>2, <3>2 DEF Posting, Writing
      <4>2. req[p].id \notin born /\ \A o \in Request \ {p} : req[o].id # req[p].id
        BY <4>1 DEF WorkInv, FreshKeys
      <4>3. local.id # req[p].id
        BY <1>1, <2>1, <4>2 DEF Loaded
      <4>4. QED
        BY <1>2, <4>1, <4>2, <4>3
    <3>3. QED
      BY <3>1, <3>2
  <2>3. ASSUME NEW p \in Request, Posting(p)'
        PROVE  req'[p].id \notin born
    <3>1. CASE p = r
      BY <1>1, <1>2, <2>3, <3>1 DEF Posting, Writing, Loaded
    <3>2. CASE p # r
      BY <1>2, <2>3, <3>2 DEF Posting, Writing, WorkInv, FreshKeys
    <3>3. QED
      BY <3>1, <3>2
  <2>4. QED
    BY <2>1, <2>2, <2>3 DEF FreshKeys
<1>7. CopiesInv'
  BY <1>1, <1>2 DEF WorkInv, CopiesInv, Copies, Writing, Loaded
<1>8. QED
  BY <1>3, <1>4, <1>5, <1>6, <1>7 DEF WorkInv

\* What the three commits do to the requests and to the keys.
LEMMA CommitsKeepWork ==
  ASSUME WorkInv, NEW r \in Request, CommitCreate(r) \/ CommitUpdate(r) \/ CommitDelete(r)
  PROVE  WorkInv'
<1>1. /\ req[r].pc = "write" /\ req[r].id \in Id /\ req[r] \in Local
      /\ req[r].new \in Row /\ req[r].newLinks \in Links
  BY DEF CommitCreate, CommitUpdate, CommitDelete, WorkInv, CatalogueTypeOK, WorkHasRow, Busy,
         Local
<1>2. PICK local \in Local :
        /\ Goto(r, local) /\ local.pc # "write"
        /\ local.id = req[r].id \/ (local.id = None /\ local.pc # "reply")
  <2>1. CASE CommitCreate(r) \/ CommitUpdate(r)
    <3>1. [req[r] EXCEPT !.pc = "reply"] \in Local
      BY <1>1 DEF Local
    <3>2. /\ [req[r] EXCEPT !.pc = "reply"].pc = "reply"
          /\ [req[r] EXCEPT !.pc = "reply"].id = req[r].id
      BY <1>1 DEF Local
    <3>3. QED
      BY <2>1, <3>1, <3>2 DEF CommitCreate, CommitUpdate
  <2>2. CASE CommitDelete(r)
    <3>1. Done("ok") \in Local /\ Done("ok").pc = "ok" /\ Done("ok").id = None
      BY DoneIsLocal DEF Answer
    <3>2. QED
      BY <2>2, <3>1 DEF CommitDelete, Finish
  <2>3. QED
    BY <2>1, <2>2
<1>3. /\ req' \in [Request -> Local]
      /\ req'[r] = local
      /\ \A q \in Request \ {r} : req'[q] = req[q]
  BY <1>2 DEF WorkInv, CatalogueTypeOK, Goto
<1>4. /\ stored' \subseteq stored \cup {req[r].id}
      /\ born' = born \/ (Posting(r) /\ born' = born \cup {req[r].id})
      /\ stored' \subseteq born'
  BY DEF CommitCreate, CommitUpdate, CommitDelete, Posting, Writing, WorkInv, FreshKeys
<1>5. CatalogueTypeOK'
  <2>1. row' \in [Id -> Row]
    BY <1>1, MergedFacts DEF WorkInv, CatalogueTypeOK, CommitCreate, CommitUpdate, CommitDelete
  <2>2. tagged' \in Links
    BY <1>1 DEF WorkInv, CatalogueTypeOK, CommitCreate, CommitUpdate, CommitDelete, Links, Added,
                Removed
  <2>3. QED
    BY <1>1, <1>3, <1>4, <2>1, <2>2 DEF WorkInv, CatalogueTypeOK
<1>6. WorkHasRow'
  BY <1>1, <1>2, <1>3 DEF WorkInv, WorkHasRow, Busy
<1>7. BodiesChecked'
  BY <1>2, <1>3 DEF WorkInv, BodiesChecked, Writing
<1>8. FreshKeys'
  <2>1. ASSUME NEW p \in Request, Posting(p)'
        PROVE  /\ req'[p].id \notin born'
               /\ \A q \in Request \ {p} : req'[q].id # req'[p].id
    <3>1. p # r /\ Posting(p) /\ req'[p] = req[p]
      BY <1>2, <1>3, <2>1 DEF Posting, Writing
    <3>2. /\ req[p].id \notin born /\ req[p].id \in Id
          /\ \A q \in Request \ {p} : req[q].id # req[p].id
      BY <3>1 DEF WorkInv, FreshKeys, WorkHasRow, Posting, Writing, Busy
    <3>3. local.id # req[p].id /\ req[r].id # req[p].id
      BY <1>2, <3>1, <3>2, KeyAssumption
    <3>4. QED
      BY <1>3, <1>4, <3>1, <3>2, <3>3
  <2>2. QED
    BY <1>4, <2>1 DEF FreshKeys
<1>9. CopiesInv'
  BY <1>2, <1>3 DEF WorkInv, CopiesInv, Copies, Writing
<1>10. QED
  BY <1>5, <1>6, <1>7, <1>8, <1>9 DEF WorkInv

-----------------------------------------------------------------------------
\* What a commit writes

\* The row of a POST, or of a PUT that found its row, and what was checked of it.
Writes(r, i, b) ==
    /\ row' = [row EXCEPT ![i] = b]
    /\ b \in Row /\ DateRule(i, b) /\ ~Taken(i, b.key) /\ Parents(b) \subseteq stored
    /\ \A column \in Rule(i).writes \ Rule(i).table.optional : b[column] # None

LEMMA CreateWrites ==
  ASSUME WorkInv, NEW r \in Request, CommitCreate(r)
  PROVE  /\ Writes(r, req[r].id, req[r].new)
         /\ req[r].id \in Id /\ req[r].id \notin stored
         /\ LinkedRows(r) \subseteq stored'
<1>1. /\ req[r].id \in Id
      /\ req[r].new \in Bodies(req[r].id)
      /\ req[r].id \notin stored
  BY DEF CommitCreate, WorkInv, WorkHasRow, BodiesChecked, FreshKeys, Writing, Posting, Busy
<1>2. CreateFails(r) = "" /\ Refusal(r) # ""
  BY DEF CommitCreate, Fails, Refusal
<1>3. /\ ~Taken(req[r].id, req[r].new.key)
      /\ Parents(req[r].new) \subseteq stored
      /\ LinkedRows(r) \subseteq stored \cup {req[r].id}
  BY <1>2 DEF CreateFails
<1>4. QED
  BY <1>1, <1>3, BodyFacts DEF Writes, CommitCreate

LEMMA UpdatePasses ==
  ASSUME NEW r \in Request, CommitUpdate(r)
  PROVE  /\ Changed(r) => /\ req[r].id \in stored
                          /\ DateRule(req[r].id, Merged(r))
                          /\ ~Taken(req[r].id, Merged(r).key)
                          /\ Parents(Merged(r)) \subseteq stored
         /\ LinkedRows(r) \subseteq stored
<1>1. UpdateFails(r) = "" /\ Refusal(r) # ""
  BY DEF CommitUpdate, Fails, Refusal
<1>2. QED
  BY <1>1 DEF UpdateFails

LEMMA UpdateWrites ==
  ASSUME WorkInv, ReferencesHold, NEW r \in Request, CommitUpdate(r)
  PROVE  UNCHANGED row \/ (req[r].id \in stored /\ Writes(r, req[r].id, Merged(r)))
<1>1. /\ req[r].id \in Id /\ req[r] \in Local /\ row \in [Id -> Row]
      /\ req[r].new \in Bodies(req[r].id)
  BY DEF CommitUpdate, WorkInv, WorkHasRow, BodiesChecked, CatalogueTypeOK, Writing, Busy
<1>2. CASE ~Changed(r)
  <2>1. Merged(r) = row[req[r].id]
    BY <1>1, <1>2, MergedFacts
  <2>2. QED
    BY <1>1, <2>1 DEF CommitUpdate
<1>3. CASE Changed(r)
  <2>1. row' = [row EXCEPT ![req[r].id] = Merged(r)] /\ Merged(r) \in Row
    BY <1>1, <1>3, UpdatePasses, MergedFacts DEF CommitUpdate
  <2>2. \A column \in Rule(req[r].id).writes \ Rule(req[r].id).table.optional :
           Merged(r)[column] # None
    <3> SUFFICES ASSUME NEW column \in Rule(req[r].id).writes \ Rule(req[r].id).table.optional
                 PROVE  Merged(r)[column] # None
        OBVIOUS
    <3>1. column \in Columns
      BY <1>1, WritesAreColumns DEF Columns
    <3>2. req[r].new[column] # None
      BY <1>1, BodyFacts
    <3>3. row[req[r].id][column] # None
      BY <1>3, UpdatePasses DEF ReferencesHold
    <3>4. QED
      BY <1>1, <3>1, <3>2, <3>3, MergedFacts
  <2>3. QED
    BY <1>3, <2>1, <2>2, UpdatePasses DEF Writes
<1>4. QED
  BY <1>2, <1>3

-----------------------------------------------------------------------------
\* The constraints survive what a commit writes

LEMMA WritesKeepDatesAndKeys ==
  ASSUME WorkInv, PublishedHasDate, KeysUnique, NEW r \in Request, NEW i \in Id, NEW b,
         Writes(r, i, b), stored' \subseteq stored \cup {i}
  PROVE  PublishedHasDate' /\ KeysUnique'
<1>1. row'[i] = b /\ \A j \in stored \ {i} : row'[j] = row[j]
  BY DEF Writes, WorkInv, CatalogueTypeOK
<1>2. PublishedHasDate'
  BY <1>1 DEF PublishedHasDate, Writes, DateRule
<1>3. \A j \in stored \ {i} : KindOf[j] = KindOf[i] /\ b.key # None => row[j].key # b.key
  BY DEF Writes, Taken
<1>4. KeysUnique'
  BY <1>1, <1>3 DEF KeysUnique
<1>5. QED
  BY <1>2, <1>4

LEMMA WritesKeepReferences ==
  ASSUME WorkInv, ReferencesHold, NEW r \in Request, NEW i \in Id, NEW b,
         Writes(r, i, b), stored' = stored \cup {i}
  PROVE  \A j \in stored' :
            /\ Parents(row'[j]) \subseteq stored'
            /\ \A column \in Rule(j).writes \ Rule(j).table.optional : row'[j][column] # None
<1>1. row'[i] = b /\ \A j \in stored \ {i} : row'[j] = row[j]
  BY DEF Writes, WorkInv, CatalogueTypeOK
<1>2. QED
  BY <1>1 DEF ReferencesHold, Writes

LEMMA LinksStay ==
  ASSUME CatalogueTypeOK, ReferencesHold, NEW r \in Request, req[r].newLinks \in Links,
         LinkedRows(r) \subseteq stored', stored \subseteq stored',
         tagged' \subseteq tagged \cup Added(r)
  PROVE  tagged' \subseteq stored' \X stored'
<1>1. ASSUME NEW l \in Added(r)
      PROVE  l \in stored' \X stored'
  <2>1. l \in Id \X Id
    BY DEF Added, Links
  <2>2. l[1] \in LinkedRows(r) /\ l[2] \in LinkedRows(r)
    BY DEF LinkedRows
  <2>3. QED
    BY <2>1, <2>2
<1>2. QED
  BY <1>1 DEF ReferencesHold

LEMMA DeleteKeepsReferences ==
  ASSUME WorkInv, ReferencesHold, NEW r \in Request, CommitDelete(r)
  PROVE  ReferencesHold'
<1>1. DeleteFails(r) = "" /\ Refusal(r) # "" /\ req[r].id \in Id
  BY DEF CommitDelete, Fails, Refusal, WorkInv, WorkHasRow, Busy
<1>2. /\ \A j \in stored : req[r].id \notin Parents(row[j])
      /\ LinksOf(req[r].id) = Removed(r)
  BY <1>1 DEF DeleteFails
<1>3. ASSUME NEW l \in tagged'
      PROVE  l \in stored' \X stored'
  <2>1. l \in tagged /\ l \notin LinksOf(req[r].id) /\ l \in stored \X stored
    BY <1>2, <1>3 DEF CommitDelete, ReferencesHold
  <2>2. l[1] # req[r].id /\ l[2] # req[r].id
    BY <2>1 DEF LinksOf
  <2>3. QED
    BY <2>1, <2>2 DEF CommitDelete
<1>4. \A j \in stored' : Parents(row'[j]) \subseteq stored'
  BY <1>2 DEF CommitDelete, ReferencesHold
<1>5. QED
  BY <1>3, <1>4 DEF CommitDelete, ReferencesHold

-----------------------------------------------------------------------------
\* The steps of the application

IdleStep == \E r \in Request : Answers(r) \/ Loads(r)

LEMMA NextCases ==
  ASSUME WorkInv, [Next]_vars
  PROVE  \/ IdleStep
         \/ \E r \in Request : CommitCreate(r) \/ CommitUpdate(r) \/ CommitDelete(r)
         \/ UNCHANGED vars
<1>1. CASE UNCHANGED vars
  BY <1>1
<1>2. CASE Next
  <2>1. PICK r \in Request :
          \/ \E i \in Id : \E b \in Bodies(i), tags \in TagSets(i) :
                Create(r, i, b, tags) \/ Update(r, i, b, tags)
          \/ \E i \in Id : Delete(r, i)
          \/ RollBack(r) \/ CommitCreate(r) \/ CommitUpdate(r) \/ CommitDelete(r)
          \/ Reply(r) \/ Abort(r)
    BY <1>2 DEF Next
  <2>2. CASE \E i \in Id : \E b \in Bodies(i), tags \in TagSets(i) :
                Create(r, i, b, tags) \/ Update(r, i, b, tags)
    BY <2>2, CreateLoads, UpdateLoads DEF IdleStep
  <2>3. CASE \E i \in Id : Delete(r, i)
    BY <2>3, DeleteLoads DEF IdleStep
  <2>4. CASE RollBack(r) \/ Reply(r) \/ Abort(r)
    BY <2>4, EndsAnswer DEF IdleStep
  <2>5. QED
    BY <2>1, <2>2, <2>3, <2>4
<1>3. QED
  BY <1>1, <1>2

LEMMA IdleKeepsCatalogueInv ==
  ASSUME CatalogueInv, IdleStep \/ UNCHANGED vars
  PROVE  CatalogueInv'
<1>1. WorkInv'
  <2>1. CASE IdleStep
    BY <2>1, AnswersKeepWork, LoadsKeepWork DEF IdleStep, CatalogueInv
  <2>2. CASE UNCHANGED vars
    BY <2>2 DEF vars, CatalogueInv, WorkInv, CatalogueTypeOK, WorkHasRow, BodiesChecked,
                FreshKeys, CopiesInv, Copies, Writing, Posting, Busy
  <2>3. QED
    BY <2>1, <2>2
<1>2. UNCHANGED <<stored, row, tagged>>
  BY DEF IdleStep, Answers, Loads, Tables, vars
<1>3. PublishedHasDate' /\ KeysUnique' /\ ReferencesHold'
  BY <1>2 DEF CatalogueInv, PublishedHasDate, KeysUnique, ReferencesHold
<1>4. QED
  BY <1>1, <1>3 DEF CatalogueInv

LEMMA CommitsKeepCatalogueInv ==
  ASSUME CatalogueInv, NEW r \in Request, CommitCreate(r) \/ CommitUpdate(r) \/ CommitDelete(r)
  PROVE  CatalogueInv'
<1>1. WorkInv' /\ WorkInv /\ req[r].newLinks \in Links /\ CatalogueTypeOK
  BY CommitsKeepWork DEF CatalogueInv, WorkInv, CatalogueTypeOK, Local
<1>2. CASE CommitCreate(r)
  <2> DEFINE i == req[r].id
  <2>1. /\ Writes(r, i, req[r].new) /\ i \in Id /\ stored' = stored \cup {i}
        /\ LinkedRows(r) \subseteq stored' /\ tagged' = tagged \cup Added(r)
    BY <1>1, <1>2, CreateWrites DEF CommitCreate
  <2>2. PublishedHasDate' /\ KeysUnique'
    BY <1>1, <2>1, WritesKeepDatesAndKeys DEF CatalogueInv
  <2>3. tagged' \subseteq stored' \X stored'
    BY <1>1, <2>1, LinksStay DEF CatalogueInv
  <2>4. ReferencesHold'
    BY <1>1, <2>1, <2>3, WritesKeepReferences DEF CatalogueInv, ReferencesHold
  <2>5. QED
    BY <1>1, <2>2, <2>4 DEF CatalogueInv
<1>3. CASE CommitUpdate(r)
  <2> DEFINE i == req[r].id
  <2>1. stored' = stored /\ tagged' \subseteq tagged \cup Added(r) /\ LinkedRows(r) \subseteq stored'
    BY <1>3, UpdatePasses DEF CommitUpdate
  <2>2. tagged' \subseteq stored' \X stored'
    BY <1>1, <2>1, LinksStay DEF CatalogueInv
  <2>3. CASE UNCHANGED row
    BY <1>1, <2>1, <2>2, <2>3 DEF CatalogueInv, PublishedHasDate, KeysUnique, ReferencesHold
  <2>4. CASE i \in stored /\ Writes(r, i, Merged(r))
    <3>1. i \in Id /\ stored' = stored \cup {i}
      BY <1>1, <2>1, <2>4 DEF CatalogueTypeOK
    <3>2. PublishedHasDate' /\ KeysUnique'
      BY <1>1, <2>4, <3>1, WritesKeepDatesAndKeys DEF CatalogueInv
    <3>3. ReferencesHold'
      BY <1>1, <2>2, <2>4, <3>1, WritesKeepReferences DEF CatalogueInv, ReferencesHold
    <3>4. QED
      BY <1>1, <3>2, <3>3 DEF CatalogueInv
  <2>5. QED
    BY <1>1, <1>3, <2>3, <2>4, UpdateWrites DEF CatalogueInv
<1>4. CASE CommitDelete(r)
  <2>1. stored' \subseteq stored /\ row' = row
    BY <1>4 DEF CommitDelete
  <2>2. PublishedHasDate' /\ KeysUnique'
    BY <2>1 DEF CatalogueInv, PublishedHasDate, KeysUnique
  <2>3. QED
    BY <1>1, <1>4, <2>2, DeleteKeepsReferences DEF CatalogueInv
<1>5. QED
  BY <1>2, <1>3, <1>4

LEMMA CatalogueInvHolds == Spec => []CatalogueInv
<1>1. CatalogueInv /\ [Next]_vars => CatalogueInv'
  BY NextCases, IdleKeepsCatalogueInv, CommitsKeepCatalogueInv DEF CatalogueInv
<1>2. QED
  BY <1>1, InitCatalogueInv, PTL DEF Spec

-----------------------------------------------------------------------------
\* The variables keep their types: rows, links and the locals of requests hold
\* what their columns and parameters can hold.
THEOREM CatalogueTypeCorrect == Spec => []CatalogueTypeOK
<1>1. CatalogueInv => CatalogueTypeOK
  BY DEF CatalogueInv, WorkInv
<1>2. QED
  BY <1>1, CatalogueInvHolds, PTL

\* No article is ever published without a date, whichever PUTs are merged.
THEOREM PublishedHasDateHolds == Spec => []PublishedHasDate
<1>1. CatalogueInv => PublishedHasDate
  BY DEF CatalogueInv
<1>2. QED
  BY <1>1, CatalogueInvHolds, PTL

\* No two rows of a kind have the same slug or name, whatever their requests
\* read before they wrote.
THEOREM KeysUniqueHolds == Spec => []KeysUnique
<1>1. CatalogueInv => KeysUnique
  BY DEF CatalogueInv
<1>2. QED
  BY <1>1, CatalogueInvHolds, PTL

\* Every link and every foreign key names a row that exists, whenever it was
\* looked up, and a reference that a row must have is never lost in a merge.
THEOREM ReferencesHoldAlways == Spec => []ReferencesHold
<1>1. CatalogueInv => ReferencesHold
  BY DEF CatalogueInv
<1>2. QED
  BY <1>1, CatalogueInvHolds, PTL

\* What was deleted stays deleted: only a POST adds a row, under a key that no
\* row ever had.
THEOREM GoneForGoodHolds == Spec => GoneForGood
<1>1. CatalogueInv /\ [Next]_vars => [stored' \cap born \subseteq stored]_vars
  <2> SUFFICES ASSUME CatalogueInv, [Next]_vars
               PROVE  [stored' \cap born \subseteq stored]_vars
      OBVIOUS
  <2>1. CASE \E r \in Request : CommitCreate(r)
    BY <2>1 DEF CommitCreate, CatalogueInv, WorkInv, FreshKeys, Posting, Writing
  <2>2. CASE \E r \in Request : CommitUpdate(r) \/ CommitDelete(r)
    BY <2>2 DEF CommitUpdate, CommitDelete
  <2>3. CASE IdleStep \/ UNCHANGED vars
    BY <2>3 DEF IdleStep, Answers, Loads, Tables
  <2>4. QED
    BY <2>1, <2>2, <2>3, NextCases DEF CatalogueInv
<1>2. QED
  BY <1>1, CatalogueInvHolds, PTL DEF Spec, GoneForGood

\* A row that was withdrawn is shown again only by a PUT that loaded it hidden.
THEOREM UnpublishSticksHolds == Spec => UnpublishSticks
<1> DEFINE Sticks ==
      \A i \in stored \cap stored' :
         ~row[i].shown /\ row'[i].shown
         => \E r \in Request : req[r].pc = "write" /\ req[r].id = i /\ ~req[r].old.shown
<1>1. CatalogueInv /\ [Next]_vars => [Sticks]_vars
  <2> SUFFICES ASSUME CatalogueInv, [Next]_vars, NEW i \in stored \cap stored',
                      ~row[i].shown, row'[i].shown
               PROVE  \E r \in Request :
                         req[r].pc = "write" /\ req[r].id = i /\ ~req[r].old.shown
      OBVIOUS
  <2>0. CatalogueTypeOK /\ i \in Id /\ i \in born
    BY DEF CatalogueInv, WorkInv, CatalogueTypeOK, FreshKeys
  <2>1. ASSUME NEW r \in Request, CommitCreate(r)
        PROVE  FALSE
    <3>1. req[r].id \notin born
      BY <2>1 DEF CommitCreate, CatalogueInv, WorkInv, FreshKeys, Posting, Writing
    <3>2. QED
      BY <2>0, <2>1, <3>1 DEF CommitCreate, CatalogueTypeOK
  <2>2. ASSUME NEW r \in Request, CommitUpdate(r)
        PROVE  req[r].pc = "write" /\ req[r].id = i /\ ~req[r].old.shown
    <3>1. /\ req[r].pc = "write" /\ req[r].id \in Id /\ req[r] \in Local /\ row \in [Id -> Row]
          /\ req[r].old \in Row /\ req[r].new \in Row
      BY <2>0, <2>2 DEF CommitUpdate, CatalogueInv, WorkInv, WorkHasRow, CatalogueTypeOK, Busy,
                        Local
    <3>2. req[r].id = i /\ row'[i] = Merged(r)
      BY <2>0, <2>2, <3>1 DEF CommitUpdate
    <3>3. /\ Merged(r)["shown"] \in {req[r].new["shown"], row[i]["shown"]}
          /\ req[r].new["shown"] = req[r].old["shown"] => Merged(r)["shown"] = row[i]["shown"]
      BY <3>1, <3>2, MergedFacts DEF Columns
    <3>4. req[r].new.shown # req[r].old.shown /\ req[r].new.shown
      BY <3>2, <3>3
    <3>5. req[r].old.shown \in BOOLEAN
      BY <3>1, RowsByColumn
    <3>6. QED
      BY <3>1, <3>2, <3>4, <3>5
  <2>3. ASSUME IdleStep \/ UNCHANGED vars \/ \E r \in Request : CommitDelete(r)
        PROVE  FALSE
    BY <2>3 DEF IdleStep, Answers, Loads, Tables, vars, CommitDelete
  <2>4. QED
    BY <2>1, <2>2, <2>3, NextCases DEF CatalogueInv
<1>2. QED
  BY <1>1, CatalogueInvHolds, PTL DEF Spec, UnpublishSticks

\* A link disappears only in the hands of an admin who had it in the copy of its
\* owner, or along with its technology.
THEOREM TagsStayHolds == Spec => TagsStay
<1> DEFINE Unlinks(r, l) ==
      /\ req[r].pc = "write" /\ l \in req[r].oldLinks
      /\ req[r].id = l[1] \/ (req[r].id = l[2] /\ l[2] \notin stored')
<1>1. CatalogueInv /\ [Next]_vars
      => [\A l \in tagged \ tagged' : \E r \in Request : Unlinks(r, l)]_vars
  <2> SUFFICES ASSUME CatalogueInv, [Next]_vars, NEW l \in tagged \ tagged'
               PROVE  \E r \in Request : Unlinks(r, l)
      OBVIOUS
  <2>1. ASSUME NEW r \in Request, CommitUpdate(r)
        PROVE  Unlinks(r, l)
    <3>1. req[r].pc = "write" /\ req[r].op = "update" /\ l \in req[r].oldLinks
      BY <2>1 DEF CommitUpdate, Removed
    <3>2. QED
      BY <3>1 DEF CatalogueInv, WorkInv, CopiesInv, Copies, Writing
  <2>2. ASSUME NEW r \in Request, CommitDelete(r)
        PROVE  Unlinks(r, l)
    <3>1. /\ req[r].pc = "write" /\ l \in req[r].oldLinks
          /\ stored' = stored \ {req[r].id}
      BY <2>2 DEF CommitDelete, Removed
    <3>2. QED
      BY <3>1 DEF CatalogueInv, WorkInv, CopiesInv, Copies, Writing
  <2>3. ASSUME IdleStep \/ UNCHANGED vars \/ \E r \in Request : CommitCreate(r)
        PROVE  FALSE
    BY <2>3 DEF IdleStep, Answers, Loads, Tables, vars, CommitCreate
  <2>4. QED
    BY <2>1, <2>2, <2>3, NextCases DEF CatalogueInv
<1>2. QED
  BY <1>1, CatalogueInvHolds, PTL DEF Spec, TagsStay
=============================================================================
