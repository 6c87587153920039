------------------------------ MODULE Catalogue ------------------------------
(***************************************************************************)
(* The content an admin edits: POST, PUT and DELETE on /admin/<kind> and   *)
(* the SQLAlchemy repositories behind them.                                *)
(*                                                                         *)
(* A request is one transaction at REPEATABLE READ, then one more to read  *)
(* back what it wrote. Its first SELECT fixes the snapshot of the checks   *)
(* and of the copy being edited; its statements then act on the rows as    *)
(* they are by then, under locks held to the commit, so flush and commit   *)
(* are one action. The unit of work writes only the columns whose value    *)
(* differs from the copy, and the technologies as a difference of sets.    *)
(*                                                                         *)
(* Of the data, the model keeps the unique column, one flag (visibility,   *)
(* published, active or featured), published_at, the foreign keys the API  *)
(* writes and the technologies. Users are never deleted by the             *)
(* application: a foreign key to users cannot break and is left out.       *)
(***************************************************************************)
EXTENDS Schema, FiniteSets

CONSTANTS
    Request,
    Id,          \* UUIDs that will be drawn: the bound on rows ever created
    KindOf,      \* KindOf[i]: the table a row with key i would be in
    Key,         \* values of slug, or name
    Malformed,   \* those the Slug value object rejects
    Date,        \* values of published_at
    None

ASSUME KeyAssumption == Malformed \subseteq Key /\ None \notin Key \cup Id
ASSUME DateAssumption == Date \subseteq Nat /\ None \notin Date

-----------------------------------------------------------------------------
\* What the repositories and use cases of each kind do differently:
\*   table     what the database enforces
\*   tags      rows carry technologies
\*   flags     the columns kept in the model beside the unique one
\*   writes    the foreign keys a body sets; the use case looks these rows up
\*   conflict  the operations that turn an IntegrityError into a 409
\* No route writes projects.client_id, services.service_line_id or the service
\* line of a contact request: they refer to no row, and team_members.user_id to
\* none that the API can delete.

Projects ==
    [table |-> ProjectsTable, tags |-> TRUE, flags |-> {"shown"}, writes |-> {},
     conflict |-> {"create", "update", "delete"}]

Articles ==
    [table |-> ArticlesTable, tags |-> TRUE, flags |-> {"shown", "date"}, writes |-> {},
     conflict |-> {"create", "update"}]

Technologies ==
    [table |-> TechnologiesTable, tags |-> FALSE, flags |-> {}, writes |-> {}, conflict |-> {}]

CaseStudies ==
    [table |-> CaseStudiesTable, tags |-> FALSE, flags |-> {}, writes |-> {"project_id"},
     conflict |-> {}]

Testimonials ==
    [table |-> TestimonialsTable, tags |-> FALSE, flags |-> {"shown"},
     writes |-> {"project_id", "client_id"}, conflict |-> {}]

Clients ==
    [table |-> ClientsTable, tags |-> FALSE, flags |-> {}, writes |-> {},
     conflict |-> {"delete"}]

Partners ==
    [table |-> PartnersTable, tags |-> FALSE, flags |-> {}, writes |-> {}, conflict |-> {}]

TeamMembers ==
    [table |-> TeamMembersTable, tags |-> FALSE, flags |-> {"shown"}, writes |-> {},
     conflict |-> {}]

ServiceLines ==
    [table |-> ServiceLinesTable, tags |-> FALSE, flags |-> {}, writes |-> {},
     conflict |-> {"create", "update", "delete"}]

Services ==
    [table |-> ServicesTable, tags |-> FALSE, flags |-> {"shown"}, writes |-> {},
     conflict |-> {"create", "update"}]

Products ==
    [table |-> ProductsTable, tags |-> FALSE, flags |-> {"shown"}, writes |-> {},
     conflict |-> {"create", "update"}]

RuleOf ==
    [projects |-> Projects, articles |-> Articles, technologies |-> Technologies,
     case_studies |-> CaseStudies, testimonials |-> Testimonials, clients |-> Clients,
     partners |-> Partners, team_members |-> TeamMembers,
     service_lines |-> ServiceLines, services |-> Services, products |-> Products]

Kind == DOMAIN RuleOf

ASSUME KindAssumption == KindOf \in [Id -> Kind]

Rule(i) == RuleOf[KindOf[i]]
Of(kind) == {i \in Id : KindOf[i] = kind}

-----------------------------------------------------------------------------
VARIABLES
    stored,   \* the primary keys present
    row,      \* row[i]: the columns of i, meaningful while i is stored
    tagged,   \* project_technologies and article_technologies: <<owner, technology>>
    req,      \* req[r]: where request r is, and the locals it holds
    born      \* history: primary keys ever inserted

vars == <<stored, row, tagged, req, born>>

Row == [key : Key \cup {None}, shown : BOOLEAN, date : Date \cup {None},
        project_id : Id \cup {None}, client_id : Id \cup {None}]
Links == SUBSET (Id \X Id)

\* asked says that the body named technologies, known to the snapshot or not.
Answer == {"ok", "notfound", "conflict", "error", "lost"}
Local == [pc : {"write", "reply"} \cup Answer, op : {"create", "update", "delete"},
          id : Id \cup {None}, old : Row, oldLinks : Links, new : Row, newLinks : Links,
          asked : BOOLEAN]

CatalogueTypeOK ==
    /\ stored \subseteq Id
    /\ row \in [Id -> Row]
    /\ tagged \in Links
    /\ req \in [Request -> Local]
    /\ born \subseteq Id

NoRow ==
    [key |-> None, shown |-> FALSE, date |-> None, project_id |-> None, client_id |-> None]
Done(answer) ==
    [pc |-> answer, op |-> "create", id |-> None, old |-> NoRow, oldLinks |-> {},
     new |-> NoRow, newLinks |-> {}, asked |-> FALSE]

Init ==
    /\ stored = {}
    /\ row = [i \in Id |-> NoRow]
    /\ tagged = {}
    /\ req = [r \in Request |-> Done("ok")]
    /\ born = {}

Busy(r) == req[r].pc \in {"write", "reply"}
Goto(r, local) == req' = [req EXCEPT ![r] = local]
Finish(r, answer) == Goto(r, Done(answer))

-----------------------------------------------------------------------------
\* Bodies, checks and constraints

\* ck_articles_published_requires_published_at, and the schema's copy of it.
DateRule(i, b) == KindOf[i] = "articles" /\ b.shown => b.date # None

\* What a body may say in a foreign key, or in a column only some kinds have.
Parental(i, column) ==
    IF column \notin Rule(i).writes THEN {None}
    ELSE Of(Rule(i).table.refs[column])
         \cup IF column \in Rule(i).table.optional THEN {None} ELSE {}

Column(i, flag, values, absent) == IF flag \in Rule(i).flags THEN values ELSE {absent}

\* The bodies the schemas of i's kind let through.
Bodies(i) ==
    {b \in [key : IF Rule(i).table.unique = {} THEN {None} ELSE Key,
            shown : Column(i, "shown", BOOLEAN, FALSE),
            date : Column(i, "date", Date \cup {None}, None),
            project_id : Parental(i, "project_id"),
            client_id : Parental(i, "client_id")] : DateRule(i, b)}

TagSets(i) == IF Rule(i).tags THEN SUBSET Of("technologies") ELSE {{}}

\* The rows a body refers to.
Parents(b) == {b.project_id, b.client_id} \ {None}

\* Technologies are a collection of their project or article, loaded with it. A
\* DELETE loads the collections of either end, a PUT of a technology none.
OwnLinks(i) == {l \in tagged : l[1] = i}
LinksOf(i) == {l \in tagged : l[1] = i \/ l[2] = i}

\* _get_technologies: ids unknown to the snapshot are dropped without a word.
Resolve(i, tags) == {i} \X (tags \cap stored)

\* Building the entity raises a ValueError on a slug Slug does not accept.
Readable(i, key) == "slug" \in Rule(i).table.unique => key \notin Malformed

\* The unique constraint on the key column, as an INSERT or UPDATE of i sees it.
Taken(i, key) ==
    key # None /\ \E j \in stored \ {i} : KindOf[j] = KindOf[i] /\ row[j].key = key

\* The use case looks the parents up through their repositories: a missing one
\* is a 404, one that cannot be read a 500.
LookUp(r, b, then) ==
    IF ~(Parents(b) \subseteq stored) THEN Finish(r, "notfound")
    ELSE IF \E p \in Parents(b) : ~Readable(p, row[p].key) THEN Finish(r, "error")
    ELSE Goto(r, then)

-----------------------------------------------------------------------------
\* A request reaches the database: checks, and the copy to be edited

Create(r, i, b, tags) ==
    /\ ~Busy(r)
    /\ i \notin born
    /\ \A q \in Request : req[q].id # i
    /\ LookUp(r, b, [Done("write") EXCEPT !.id = i, !.new = b,
                                          !.newLinks = Resolve(i, tags)])
    /\ UNCHANGED <<stored, row, tagged, born>>

Load(op, i, b, tags) ==
    [pc |-> "write", op |-> op, id |-> i, old |-> row[i],
     oldLinks |-> IF op = "delete" THEN LinksOf(i) ELSE OwnLinks(i),
     new |-> b, newLinks |-> Resolve(i, tags), asked |-> tags # {}]

\* A case study is looked up before its project, a testimonial after its parents.
Update(r, i, b, tags) ==
    LET missing == i \notin stored IN
    /\ ~Busy(r)
    /\ IF missing /\ KindOf[i] = "case_studies" THEN Finish(r, "notfound")
       ELSE LookUp(r, b, IF missing THEN Done("notfound") ELSE Load("update", i, b, tags))
    /\ UNCHANGED <<stored, row, tagged, born>>

Delete(r, i) ==
    /\ ~Busy(r)
    /\ IF i \in stored THEN Goto(r, Load("delete", i, NoRow, {}))
                       ELSE Finish(r, "notfound")
    /\ UNCHANGED <<stored, row, tagged, born>>

-----------------------------------------------------------------------------
\* The flush and the commit

\* Mutant: every column of the body is written.
MergedWhole(r) == req[r].new

\* Columns equal in the copy and the body are left as the table has them.
Merged(r) ==
    [c \in DOMAIN NoRow |-> IF req[r].new[c] # req[r].old[c] THEN req[r].new[c]
                                                           ELSE row[req[r].id][c]]

Added(r) == req[r].newLinks \ req[r].oldLinks

\* Mutant: the link rows are deleted by their owner, and inserted afresh.
RemovedWhole(r) == LinksOf(req[r].id) \ req[r].newLinks

Removed(r) == req[r].oldLinks \ req[r].newLinks
Changed(r) == req[r].new # req[r].old

\* Mutant: the error handler knows no such answer.
RefusalUnmapped(r) ==
    IF req[r].op \in Rule(req[r].id).conflict THEN "integrity" ELSE "error"

\* The handler caught the IntegrityError, or it became a 500.
Refusal(r) ==
    IF req[r].op \in Rule(req[r].id).conflict THEN "conflict" ELSE "error"

LinkedRows(r) == UNION {{l[1], l[2]} : l \in Added(r)}

\* Mutant: unique=True left out of the model.
CreateFailsButForKeys(r) ==
    LET i == req[r].id IN
    IF \/ ~(Parents(req[r].new) \subseteq stored)
       \/ ~(LinkedRows(r) \subseteq stored \cup {i})
      THEN Refusal(r) ELSE ""

\* What ends the statement sequence of a POST: "" if nothing does.
CreateFails(r) ==
    LET i == req[r].id  b == req[r].new IN
    IF \/ Taken(i, b.key)
       \/ ~(Parents(b) \subseteq stored)
       \/ ~(LinkedRows(r) \subseteq stored \cup {i})
      THEN Refusal(r) ELSE ""

\* Mutant: the CheckConstraint left to the schema.
UpdateFailsButForDates(r) ==
    LET i == req[r].id  m == Merged(r) IN
    IF Changed(r) /\ i \notin stored THEN "error"
    ELSE IF Changed(r) /\ (Taken(i, m.key) \/ ~(Parents(m) \subseteq stored))
      THEN IF req[r].asked THEN "error" ELSE Refusal(r)
    ELSE IF ~(Removed(r) \subseteq tagged) THEN "error"
    ELSE IF ~(LinkedRows(r) \subseteq stored) \/ Added(r) \cap tagged # {}
      THEN Refusal(r)
    ELSE ""

\* Of a PUT: first the UPDATE, which the SELECT in _get_technologies flushes
\* outside the try block; then the rows of the link table, removed and added.
UpdateFails(r) ==
    LET i == req[r].id  m == Merged(r) IN
    IF Changed(r) /\ (i \notin stored \/ ~DateRule(i, m)) THEN "error"
    ELSE IF Changed(r) /\ (Taken(i, m.key) \/ ~(Parents(m) \subseteq stored))
      THEN IF req[r].asked THEN "error" ELSE Refusal(r)
    ELSE IF ~(Removed(r) \subseteq tagged) THEN "error"
    ELSE IF ~(LinkedRows(r) \subseteq stored) \/ Added(r) \cap tagged # {}
      THEN Refusal(r)
    ELSE ""

\* Mutant: the foreign keys of the link tables left out of the schema.
DeleteFailsButForLinks(r) ==
    IF ~(Removed(r) \subseteq tagged) THEN "error"
    ELSE IF \E j \in stored : req[r].id \in Parents(row[j]) THEN Refusal(r) ELSE ""

\* Of a DELETE: the links of the copy, then the row; a row already gone is only
\* a warning, a row still referred to an IntegrityError.
DeleteFails(r) ==
    LET i == req[r].id IN
    IF ~(Removed(r) \subseteq tagged) THEN "error"
    ELSE IF \/ \E j \in stored : i \in Parents(row[j])
            \/ LinksOf(i) # Removed(r)
      THEN Refusal(r) ELSE ""

Fails(r) ==
    CASE req[r].op = "create" -> CreateFails(r)
      [] req[r].op = "update" -> UpdateFails(r)
      [] req[r].op = "delete" -> DeleteFails(r)

RollBack(r) ==
    /\ req[r].pc = "write"
    /\ Fails(r) # ""
    /\ Finish(r, Fails(r))
    /\ UNCHANGED <<stored, row, tagged, born>>

CommitCreate(r) ==
    LET i == req[r].id IN
    /\ req[r].pc = "write" /\ req[r].op = "create"
    /\ Fails(r) = ""
    /\ stored' = stored \cup {i}
    /\ row' = [row EXCEPT ![i] = req[r].new]
    /\ tagged' = tagged \cup Added(r)
    /\ born' = born \cup {i}
    /\ Goto(r, [req[r] EXCEPT !.pc = "reply"])

\* Mutant: session.merge(), which inserts a row it does not find.
CommitMerge(r) ==
    /\ req[r].pc = "write" /\ req[r].op = "update"
    /\ Fails(r) = ""
    /\ stored' = stored \cup {req[r].id}
    /\ row' = [row EXCEPT ![req[r].id] = Merged(r)]
    /\ tagged' = (tagged \ Removed(r)) \cup Added(r)
    /\ Goto(r, [req[r] EXCEPT !.pc = "reply"])
    /\ UNCHANGED born

CommitUpdate(r) ==
    /\ req[r].pc = "write" /\ req[r].op = "update"
    /\ Fails(r) = ""
    /\ row' = [row EXCEPT ![req[r].id] = IF req[r].id \in stored THEN Merged(r) ELSE @]
    /\ tagged' = (tagged \ Removed(r)) \cup Added(r)
    /\ Goto(r, [req[r] EXCEPT !.pc = "reply"])
    /\ UNCHANGED <<stored, born>>

CommitDelete(r) ==
    /\ req[r].pc = "write" /\ req[r].op = "delete"
    /\ Fails(r) = ""
    /\ stored' = stored \ {req[r].id}
    /\ tagged' = tagged \ Removed(r)
    /\ Finish(r, "ok")
    /\ UNCHANGED <<row, born>>

\* refresh() and the entity. Where refresh() is asked for the technologies
\* only, the slug is still the one in memory. A row deleted meanwhile, or one
\* that cannot be read, is a 500 after the commit.
Reply(r) ==
    LET i == req[r].id
        key == IF Rule(i).tags THEN req[r].new.key ELSE row[i].key
    IN
    /\ req[r].pc = "reply"
    /\ Finish(r, IF i \in stored /\ Readable(i, key) THEN "ok" ELSE "error")
    /\ UNCHANGED <<stored, row, tagged, born>>

\* A dead worker, a lost connection or response, a deadlock's victim: what is
\* not committed is rolled back.
Abort(r) ==
    /\ Busy(r)
    /\ Finish(r, "lost")
    /\ UNCHANGED <<stored, row, tagged, born>>

Next ==
    \E r \in Request :
        \/ \E i \in Id : \E b \in Bodies(i), tags \in TagSets(i) :
              Create(r, i, b, tags) \/ Update(r, i, b, tags)
        \/ \E i \in Id : Delete(r, i)
        \/ RollBack(r) \/ CommitCreate(r) \/ CommitUpdate(r) \/ CommitDelete(r)
        \/ Reply(r) \/ Abort(r)

Spec == Init /\ [][Next]_vars

-----------------------------------------------------------------------------
\* Properties

\* No article is published without a date, though two PUTs that each pass the
\* schema's check may be merged column by column into a row that passes neither.
PublishedHasDate == \A i \in stored : DateRule(i, row[i])

\* Links and foreign keys name rows that exist, though a parent may be deleted
\* between the use case's look-up and the insert that refers to it.
ReferencesHold ==
    /\ tagged \subseteq stored \X stored
    /\ \A i \in stored :
          /\ Parents(row[i]) \subseteq stored
          /\ \A column \in Rule(i).writes \ Rule(i).table.optional : row[i][column] # None

\* One row per slug, or name, within a kind, whatever two requests checked.
KeysUnique ==
    \A i, j \in stored :
        KindOf[i] = KindOf[j] /\ row[i].key = row[j].key /\ row[i].key # None => i = j

\* A PUT that loaded a row before its deletion does not bring it back.
GoneForGood == [][stored' \cap born \subseteq stored]_vars

\* What an admin withdraws stays withdrawn: a PUT that loaded the row while it was
\* shown, and commits after the withdrawal, does not show it again.
UnpublishSticks ==
    [][\A i \in stored \cap stored' :
          ~row[i].shown /\ row'[i].shown
          => \E r \in Request :
                req[r].pc = "write" /\ req[r].id = i /\ ~req[r].old.shown]_vars

\* A project or article loses a technology only to an admin who had it in the copy
\* that was edited or deleted, or with the technology: a link added since, by
\* somebody else, is not lost, and editing a technology unlinks nothing.
TagsStay ==
    [][\A l \in tagged \ tagged' :
          \E r \in Request :
             /\ req[r].pc = "write" /\ l \in req[r].oldLinks
             /\ req[r].id = l[1] \/ (req[r].id = l[2] /\ l[2] \notin stored')]_vars
=============================================================================
