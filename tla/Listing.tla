-------------------------------- MODULE Listing --------------------------------
(***************************************************************************)
(* What the site and the admin's tables show of the catalogue: GET lists,  *)
(* page by page, and GET details, while the rows are being edited.         *)
(*                                                                         *)
(* A list is one request per page. Each page is cut from the rows as they  *)
(* are when it is asked for, by LIMIT and OFFSET over one ORDER BY column, *)
(* and nothing ties one page to the next. Rows that compare equal may come *)
(* in any order, another one on each page. The entity is built for every   *)
(* row of an answer: one that cannot be built fails all of it.             *)
(*                                                                         *)
(* The filters of GET /projects (technology, featured, status, search) and *)
(* of GET /technologies narrow a list and are left out, as is sort=title.  *)
(***************************************************************************)
EXTENDS Catalogue, Functions

CONSTANTS
    Reader,
    PageSize     \* limit=

ASSUME PageAssumption == PageSize \in Nat \ {0}

\* UUIDs: there are finitely many.
ASSUME IdAssumption == IsFiniteSet(Id)

-----------------------------------------------------------------------------
\* What the repositories' list and get methods do differently:
\*   only    which rows are meant by public_only, active_only, published_only
\*   order   the ORDER BY column, "other" where whole lists make it immaterial
\*   paged   whether LIMIT and OFFSET cut the list

ProjectReads == [only |-> "shown", order |-> "created", paged |-> TRUE]

ArticleReads == [only |-> "shown", order |-> "date", paged |-> TRUE]

TechnologyReads == [only |-> "all", order |-> "other", paged |-> FALSE]

\* Mutant: the join with the project forgotten.
CaseStudiesUnjoined == [only |-> "all", order |-> "created", paged |-> FALSE]

CaseStudyReads == [only |-> "project", order |-> "created", paged |-> FALSE]

TestimonialReads == [only |-> "all", order |-> "created", paged |-> FALSE]

ClientReads == [only |-> "all", order |-> "other", paged |-> FALSE]

PartnerReads == [only |-> "all", order |-> "other", paged |-> FALSE]

TeamMemberReads == [only |-> "shown", order |-> "other", paged |-> FALSE]

ServiceLineReads == [only |-> "all", order |-> "other", paged |-> FALSE]

ServiceReads == [only |-> "shown", order |-> "other", paged |-> FALSE]

ProductReads == [only |-> "all", order |-> "other", paged |-> FALSE]

ReadsOf ==
    [projects |-> ProjectReads, articles |-> ArticleReads, technologies |-> TechnologyReads,
     case_studies |-> CaseStudyReads, testimonials |-> TestimonialReads,
     clients |-> ClientReads, partners |-> PartnerReads, team_members |-> TeamMemberReads,
     service_lines |-> ServiceLineReads, services |-> ServiceReads, products |-> ProductReads]

-----------------------------------------------------------------------------
\* The GET routes of each router: a list, and a detail by slug or by id.

Audience == {"public", "admin"}

ProjectRoutes == [public |-> {"list", "slug"}, admin |-> {"list", "id"}]

ArticleRoutes == [public |-> {"list", "slug"}, admin |-> {"list", "id"}]

TechnologyRoutes == [public |-> {"list", "id"}, admin |-> {}]

CaseStudyRoutes == [public |-> {"list", "id"}, admin |-> {"list", "id"}]

TestimonialRoutes == [public |-> {"list"}, admin |-> {}]

ClientRoutes == [public |-> {"list"}, admin |-> {}]

PartnerRoutes == [public |-> {"list"}, admin |-> {}]

TeamMemberRoutes == [public |-> {"list", "id"}, admin |-> {"list", "id"}]

ServiceLineRoutes == [public |-> {"list", "slug"}, admin |-> {}]

ServiceRoutes == [public |-> {"list", "slug"}, admin |-> {"list", "id"}]

ProductRoutes == [public |-> {"list", "slug"}, admin |-> {}]

RoutesOf ==
    [projects |-> ProjectRoutes, articles |-> ArticleRoutes, technologies |-> TechnologyRoutes,
     case_studies |-> CaseStudyRoutes, testimonials |-> TestimonialRoutes,
     clients |-> ClientRoutes, partners |-> PartnerRoutes, team_members |-> TeamMemberRoutes,
     service_lines |-> ServiceLineRoutes, services |-> ServiceRoutes,
     products |-> ProductRoutes]

-----------------------------------------------------------------------------
VARIABLES
    created,   \* created_at: <<i, j>>, both present or being inserted, i before j
    walk       \* walk[v]: the list reader v goes through, or the answer it has

listVars == <<created, walk>>

\* start and steady are history: the rows the list had when the walk began, and
\* whether since then none of its rows left it or moved in it, nor did two tie.
Walk == [at : {"paging", "end", "notfound", "error"}, audience : Audience, kind : Kind,
         pages : 0 .. Cardinality(Id), seen : SUBSET Id, start : SUBSET Id,
         steady : BOOLEAN]

ListingTypeOK ==
    /\ created \in SUBSET (Id \X Id)
    /\ walk \in [Reader -> Walk]

Answered(at, audience, kind, seen) ==
    [at |-> at, audience |-> audience, kind |-> kind, pages |-> 0, seen |-> seen,
     start |-> {}, steady |-> TRUE]

ListingInit ==
    /\ Init
    /\ created = {}
    /\ walk = [v \in Reader |-> Answered("end", "public", "articles", {})]

-----------------------------------------------------------------------------
\* The rows of a list, and their order

\* The WHERE clause: an admin's list has none.
Selects(audience, i) ==
    LET only == ReadsOf[KindOf[i]].only IN
    audience = "public" =>
        /\ only = "shown" => row[i].shown
        /\ only = "project" => row[i].project_id \in stored /\ row[row[i].project_id].shown

Listed(audience, kind) == {i \in stored \cap Of(kind) : Selects(audience, i)}

\* The ORDER BY: created_at ascending, or published_at descending with NULL last.
Before(i, j) ==
    CASE ReadsOf[KindOf[i]].order = "created" -> <<i, j>> \in created
      [] ReadsOf[KindOf[i]].order = "date" ->
            row[i].date # None /\ (row[j].date = None \/ row[i].date > row[j].date)
      [] OTHER -> FALSE

Tied(rows) == \E i, j \in rows : i # j /\ ~Before(i, j) /\ ~Before(j, i)

Sorted(first, then) == \A i \in first, j \in then : ~Before(j, i)

\* Mutant: pages counted from 0 in the repository and from 1 in the router.
OffsetOnePageOn(pages) == (pages + 1) * PageSize

Offset(pages) == pages * PageSize

\* Every answer LIMIT and OFFSET allow: what is skipped sorts before it, what is
\* left after it.
Page(kind, rows, pages) ==
    IF ~ReadsOf[kind].paged THEN {rows}
    ELSE {page \in SUBSET rows :
            \E skipped \in SUBSET (rows \ page) :
                LET left == rows \ (page \cup skipped) IN
                /\ Cardinality(skipped) <= Offset(pages)
                /\ Cardinality(page) <= PageSize
                /\ left # {} \/ page # {} => Cardinality(skipped) = Offset(pages)
                /\ left # {} => Cardinality(page) = PageSize
                /\ Sorted(skipped, page \cup left) /\ Sorted(page, left)}

\* Mutant: every list is gone through as a paged one.
LastPageNotFull(kind, page) == Cardinality(page) < PageSize

\* A client goes on until a page is not full.
LastPage(kind, page) == ~ReadsOf[kind].paged \/ Cardinality(page) < PageSize

AllReadable(rows) == \A i \in rows : Readable(i, row[i].key)

-----------------------------------------------------------------------------
\* Requests. A reader is one list gone through, or one request at a time; who
\* gives a list up asks for nothing more.

Answer200(v, w, page) ==
    walk' = [walk EXCEPT ![v] =
                IF LastPage(w.kind, page) THEN Answered("end", w.audience, w.kind, page)
                ELSE [w EXCEPT !.pages = @ + 1, !.seen = @ \cup page]]

Answer500(v, w) ==
    walk' = [walk EXCEPT ![v] = Answered("error", w.audience, w.kind, {})]

GetPage(v, w) ==
    /\ \E page \in Page(w.kind, Listed(w.audience, w.kind), w.pages) :
          \/ AllReadable(page) /\ Answer200(v, w, page)
          \/ ~AllReadable(page) /\ Answer500(v, w)
    /\ UNCHANGED <<vars, created>>

FirstPage(v, audience, kind) ==
    LET rows == Listed(audience, kind) IN
    /\ walk[v].at # "paging"
    /\ "list" \in RoutesOf[kind][audience]
    /\ GetPage(v, [Answered("paging", audience, kind, {})
                      EXCEPT !.start = rows, !.steady = ~Tied(rows)])

NextPage(v) ==
    /\ walk[v].at = "paging"
    /\ GetPage(v, walk[v])

\* A detail: of the row that has the slug or the id now, if the list would have it.
GetDetail(v, audience, kind, found) ==
    /\ walk[v].at # "paging"
    /\ walk' = [walk EXCEPT ![v] =
                  IF found = {} THEN Answered("notfound", audience, kind, {})
                  ELSE IF AllReadable(found) THEN Answered("end", audience, kind, found)
                  ELSE Answered("error", audience, kind, {})]
    /\ UNCHANGED <<vars, created>>

GetBySlug(v, audience, kind, slug) ==
    /\ "slug" \in RoutesOf[kind][audience]
    /\ GetDetail(v, audience, kind, {i \in Listed(audience, kind) : row[i].key = slug})

GetById(v, audience, kind, id) ==
    /\ "id" \in RoutesOf[kind][audience]
    /\ GetDetail(v, audience, kind, {id} \cap Listed(audience, kind))

-----------------------------------------------------------------------------
\* Writes

Inserting == {req[r].id : r \in {q \in Request : Busy(q) /\ req[q].op = "create"}}

\* created_at is drawn by the request, before its commit: rows may appear in
\* another order. The model draws it when the request starts.
DrawCreatedAt ==
    LET before == stored \cup Inserting
        here == stored' \cup Inserting'
    IN created' = (created \cup before \X (here \ before)) \cap (here \X here)

OnlyGrows(audience, kind) ==
    /\ \A i \in Listed(audience, kind) : row'[i].date = row[i].date
    /\ Listed(audience, kind) \subseteq Listed(audience, kind)'
    /\ ~Tied(Listed(audience, kind))'

\* History: what a write does to the lists that are being read.
WatchWalks ==
    walk' = [v \in Reader |->
               [walk[v] EXCEPT !.steady =
                  @ /\ \E audience \in {walk[v].audience}, kind \in {walk[v].kind} :
                          walk[v].at = "paging" => OnlyGrows(audience, kind)]]

Write == Next /\ DrawCreatedAt /\ WatchWalks

ListingNext ==
    \/ Write
    \/ \E v \in Reader : NextPage(v)
    \/ \E v \in Reader, audience \in Audience, kind \in Range(KindOf) :
          \/ FirstPage(v, audience, kind)
          \/ \E slug \in Key : GetBySlug(v, audience, kind, slug)
          \/ \E id \in Id : GetById(v, audience, kind, id)

ListingSpec == ListingInit /\ [][ListingNext]_<<vars, listVars>>

-----------------------------------------------------------------------------
\* Properties

\* Somebody who reads a list page by page to its end has seen every row it had
\* at the start, whatever was added in between, if no row was withdrawn or
\* given another date meanwhile and no two rows sort alike.
WalkMissesNothing ==
    [][\A v \in Reader :
          walk[v].at = "paging" /\ walk[v].steady /\ walk'[v].at = "end"
          => walk[v].start \subseteq walk[v].seen \cup walk'[v].seen]_<<vars, listVars>>

\* For the public a project, article, service or member is there while its own
\* flag says so, and a case study while its project's does.
OnSite(i) ==
    /\ i \in stored
    /\ KindOf[i] \in {"projects", "articles", "services", "team_members"} => row[i].shown
    /\ KindOf[i] = "case_studies" => row[row[i].project_id].shown

\* An answer to the public contains only rows that are on the site, however an
\* edit of the row, or of the project it belongs to, is timed.
Shows(w) == <<w.at, w.audience, w.kind, w.pages, w.seen>>
PublicSeesSite ==
    [][\A v \in Reader :
          LET before == IF walk'[v].pages > 1 THEN walk[v].seen ELSE {} IN
          Shows(walk[v])' # Shows(walk[v]) /\ walk'[v].audience = "public"
          => \A i \in walk'[v].seen \ before : OnSite(i)]_<<vars, listVars>>

\* docs/API.md: GET /projects is answered 200 with the public projects. No row an
\* admin can store takes a list down.
ListsAnswer == \A v \in Reader : walk[v].at # "error"
=============================================================================
