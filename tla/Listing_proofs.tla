---------------------------- MODULE Listing_proofs ----------------------------
(***************************************************************************)
(* Proofs about the reads: they leave the catalogue alone, so all that is  *)
(* proved of it holds while it is read; and the public sees what is on the *)
(* site, whatever an admin does between two pages.                         *)
(***************************************************************************)
EXTENDS Listing, Catalogue_proofs, FiniteSetTheorems

\* The types of a walk, without the bound on its length.
Walking ==
    [at : {"paging", "end", "notfound", "error"}, audience : Audience, kind : Kind,
     pages : Nat, seen : SUBSET Id, start : SUBSET Id, steady : BOOLEAN]

\* Somebody in the middle of a list has seen a page of it.
WalkInv ==
    /\ walk \in [Reader -> Walking]
    /\ \A v \in Reader : walk[v].at = "paging" => walk[v].pages > 0

-----------------------------------------------------------------------------
\* A GET only reads: whoever reads, and whenever, the catalogue runs as it would
\* without readers.
THEOREM ListingImplementsCatalogue == ListingSpec => Spec
<1>1. ListingInit => Init
  BY DEF ListingInit
<1>2. [ListingNext]_<<vars, listVars>> => [Next]_vars
  <2> SUFFICES ASSUME ListingNext PROVE [Next]_vars
      BY DEF listVars, vars
  <2>1. CASE Write
    BY <2>1 DEF Write
  <2>2. CASE \E v \in Reader : NextPage(v)
    BY <2>2 DEF NextPage, GetPage
  <2>3. CASE \E v \in Reader, audience \in Audience, kind \in Range(KindOf) :
                FirstPage(v, audience, kind)
    BY <2>3 DEF FirstPage, GetPage
  <2>4. CASE \E v \in Reader, audience \in Audience, kind \in Range(KindOf) :
                \/ \E slug \in Key : GetBySlug(v, audience, kind, slug)
                \/ \E id \in Id : GetById(v, audience, kind, id)
    BY <2>4 DEF GetBySlug, GetById, GetDetail
  <2>5. QED
    BY <2>1, <2>2, <2>3, <2>4 DEF ListingNext
<1>3. QED
  BY <1>1, <1>2, PTL DEF ListingSpec, Spec

-----------------------------------------------------------------------------
\* Lists, pages and answers

LEMMA ListedForThePublicIsOnSite ==
  ASSUME NEW kind, NEW i \in Listed("public", kind)
  PROVE  OnSite(i)
<1>1. i \in stored /\ i \in Id /\ Selects("public", i)
  BY DEF Listed, Of
<1>2. /\ \A k \in {"projects", "articles", "services", "team_members"} :
            ReadsOf[k].only = "shown"
      /\ ReadsOf["case_studies"].only = "project"
  BY DEF ReadsOf, ProjectReads, ArticleReads, ServiceReads, TeamMemberReads, CaseStudyReads
<1>3. QED
  BY <1>1, <1>2 DEF OnSite, Selects

LEMMA PageIsListed ==
  ASSUME NEW kind, NEW rows, NEW pages, NEW page \in Page(kind, rows, pages)
  PROVE  page \subseteq rows
  BY DEF Page

LEMMA ListedAreIds == \A audience, kind : Listed(audience, kind) \subseteq Id
  BY DEF Listed, Of

\* The answers to the request v makes with the walk w: of a list, of a detail.
GetsPage(v, w) ==
    \E page \in SUBSET Listed(w.audience, w.kind) : Answer200(v, w, page) \/ Answer500(v, w)

LEMMA GetPageGets ==
  ASSUME NEW v, NEW w, GetPage(v, w)
  PROVE  GetsPage(v, w)
<1>1. PICK page \in Page(w.kind, Listed(w.audience, w.kind), w.pages) :
        Answer200(v, w, page) \/ Answer500(v, w)
  BY DEF GetPage
<1>2. page \subseteq Listed(w.audience, w.kind)
  BY PageIsListed
<1>3. QED
  BY <1>1, <1>2 DEF GetsPage

LEMMA AnsweredIsWalking ==
  ASSUME NEW at \in {"paging", "end", "notfound", "error"}, NEW audience \in Audience,
         NEW kind \in Kind, NEW seen \in SUBSET Id
  PROVE  /\ Answered(at, audience, kind, seen) \in Walking
         /\ Answered(at, audience, kind, seen).at = at
         /\ Answered(at, audience, kind, seen).audience = audience
         /\ Answered(at, audience, kind, seen).kind = kind
         /\ Answered(at, audience, kind, seen).pages = 0
         /\ Answered(at, audience, kind, seen).seen = seen
  BY DEF Answered, Walking

\* What v has afterwards: new rows are rows of the list it asked for.
Served(v, w) ==
    /\ \A u \in Reader \ {v} : walk'[u] = walk[u]
    /\ walk' \in [Reader -> Walking]
    /\ walk'[v].at = "paging" => walk'[v].pages > 0
    /\ walk'[v].audience = w.audience
    /\ \/ walk'[v].pages = 0 /\ walk'[v].seen \subseteq Listed(w.audience, w.kind)
       \/ /\ walk'[v].pages = w.pages + 1
          /\ walk'[v].seen \subseteq w.seen \cup Listed(w.audience, w.kind)

LEMMA GetsPageServes ==
  ASSUME WalkInv, NEW v \in Reader, NEW w \in Walking, GetsPage(v, w)
  PROVE  Served(v, w)
<1>1. PICK page \in SUBSET Listed(w.audience, w.kind) : Answer200(v, w, page) \/ Answer500(v, w)
  BY DEF GetsPage
<1>2. page \subseteq Id /\ w.audience \in Audience /\ w.kind \in Kind
  BY ListedAreIds DEF Walking
<1>3. PICK local \in Walking :
        /\ walk' = [walk EXCEPT ![v] = local]
        /\ local.at = "paging" => local.pages > 0
        /\ local.audience = w.audience
        /\ \/ local.pages = 0 /\ local.seen \subseteq Listed(w.audience, w.kind)
           \/ /\ local.pages = w.pages + 1
              /\ local.seen \subseteq w.seen \cup Listed(w.audience, w.kind)
  <2>1. CASE Answer500(v, w)
    <3> DEFINE local == Answered("error", w.audience, w.kind, {})
    <3>1. /\ local \in Walking /\ local.at # "paging" /\ local.audience = w.audience
          /\ local.pages = 0 /\ local.seen = {}
      BY <1>2, AnsweredIsWalking
    <3>2. walk' = [walk EXCEPT ![v] = local]
      BY <2>1 DEF Answer500
    <3> HIDE DEF local
    <3>3. QED
      BY <3>1, <3>2
  <2>2. CASE Answer200(v, w, page) /\ LastPage(w.kind, page)
    <3> DEFINE local == Answered("end", w.audience, w.kind, page)
    <3>1. /\ local \in Walking /\ local.at # "paging" /\ local.audience = w.audience
          /\ local.pages = 0 /\ local.seen = page
      BY <1>2, AnsweredIsWalking
    <3>2. walk' = [walk EXCEPT ![v] = local]
      BY <2>2 DEF Answer200
    <3> HIDE DEF local
    <3>3. QED
      BY <3>1, <3>2
  <2>3. CASE Answer200(v, w, page) /\ ~LastPage(w.kind, page)
    <3>1. PICK pages \in Nat, seen \in SUBSET Id :
            pages = w.pages + 1 /\ seen = w.seen \cup page
      <4>1. w.pages \in Nat /\ w.seen \subseteq Id
        BY DEF Walking
      <4>2. w.pages + 1 \in Nat /\ w.seen \cup page \in SUBSET Id
        BY <1>2, <4>1
      <4>3. QED
        BY <4>2
    <3> DEFINE local == [w EXCEPT !.pages = pages, !.seen = seen]
    <3>2. /\ local \in Walking /\ local.audience = w.audience
          /\ local.pages = pages /\ local.seen = seen
      BY DEF Walking
    <3>3. pages > 0 /\ seen \subseteq w.seen \cup Listed(w.audience, w.kind)
      BY <1>2, <3>1 DEF Walking
    <3>4. walk' = [walk EXCEPT ![v] = local]
      BY <2>3, <3>1 DEF Answer200
    <3> HIDE DEF local
    <3>5. QED
      BY <3>1, <3>2, <3>3, <3>4
  <2>4. QED
    BY <1>1, <2>1, <2>2, <2>3
<1>4. QED
  BY <1>3 DEF Served, WalkInv

\* A first page is asked for by a walk that has seen nothing.
Unread(w) == w.pages = 0 /\ w.seen = {}

LEMMA FirstIsWalking ==
  ASSUME NEW audience \in Audience, NEW kind \in Kind, NEW start \in SUBSET Id,
         NEW steady \in BOOLEAN
  PROVE  /\ [Answered("paging", audience, kind, {})
                EXCEPT !.start = start, !.steady = steady] \in Walking
         /\ Unread([Answered("paging", audience, kind, {})
                       EXCEPT !.start = start, !.steady = steady])
  BY DEF Answered, Walking, Unread

LEMMA FirstPageServes ==
  ASSUME WalkInv, NEW v \in Reader, NEW audience \in Audience, NEW kind \in Kind,
         FirstPage(v, audience, kind)
  PROVE  \E w \in Walking : Unread(w) /\ Served(v, w)
<1> DEFINE w == [Answered("paging", audience, kind, {})
                   EXCEPT !.start = Listed(audience, kind),
                          !.steady = ~Tied(Listed(audience, kind))]
<1>1. Listed(audience, kind) \in SUBSET Id
  BY ListedAreIds
<1>2. (~Tied(Listed(audience, kind))) \in BOOLEAN
  BY Zenon
<1>3. w \in Walking /\ Unread(w)
  BY <1>1, <1>2, FirstIsWalking, Zenon
<1>4. GetPage(v, w)
  BY Zenon DEF FirstPage
<1> HIDE DEF w
<1>5. QED
  BY <1>3, <1>4, GetPageGets, GetsPageServes

LEMMA DetailServes ==
  ASSUME WalkInv, NEW v \in Reader, NEW audience \in Audience, NEW kind \in Kind,
         NEW found \in SUBSET Listed(audience, kind), GetDetail(v, audience, kind, found)
  PROVE  \E w \in Walking : Unread(w) /\ Served(v, w)
<1> DEFINE w == Answered("end", audience, kind, {})
<1>1. /\ w \in Walking /\ Unread(w) /\ w.audience = audience /\ w.kind = kind
      /\ found \subseteq Id /\ found \subseteq Listed(audience, kind)
  BY AnsweredIsWalking, ListedAreIds DEF Unread
<1>2. PICK at \in {"end", "notfound", "error"}, seen \in {found, {}} :
        walk' = [walk EXCEPT ![v] = Answered(at, audience, kind, seen)]
  BY DEF GetDetail
<1> DEFINE local == Answered(at, audience, kind, seen)
<1>3. /\ local \in Walking /\ local.at # "paging" /\ local.audience = audience
      /\ local.pages = 0 /\ local.seen = seen
  BY <1>1, AnsweredIsWalking
<1>4. walk' = [walk EXCEPT ![v] = local]
  BY <1>2
<1> HIDE DEF w, local
<1>5. Served(v, w)
  BY <1>1, <1>3, <1>4 DEF Served, WalkInv
<1>6. QED
  BY <1>1, <1>5

-----------------------------------------------------------------------------
\* A write changes nothing of what readers have

LEMMA WatchedIsWalking ==
  ASSUME NEW w \in Walking, NEW steady \in BOOLEAN
  PROVE  /\ [w EXCEPT !.steady = steady] \in Walking
         /\ Shows([w EXCEPT !.steady = steady]) = Shows(w)
  BY DEF Walking, Shows

LEMMA WatchWalksKeepsShows ==
  ASSUME WalkInv, WatchWalks
  PROVE  walk' \in [Reader -> Walking] /\ \A v \in Reader : Shows(walk'[v]) = Shows(walk[v])
<1> DEFINE Watched(v) ==
      walk[v].steady
      /\ \E audience \in {walk[v].audience}, kind \in {walk[v].kind} :
            walk[v].at = "paging" => OnlyGrows(audience, kind)
<1>1. walk' = [v \in Reader |-> [walk[v] EXCEPT !.steady = Watched(v)]]
  BY Zenon DEF WatchWalks
<1>2. ASSUME NEW v \in Reader
      PROVE  walk'[v] \in Walking /\ Shows(walk'[v]) = Shows(walk[v])
  <2>1. walk[v] \in Walking
    BY DEF WalkInv
  <2>2. Watched(v) \in BOOLEAN
    BY Zenon
  <2>3. walk'[v] = [walk[v] EXCEPT !.steady = Watched(v)]
    BY <1>1, Zenon
  <2> HIDE DEF Watched
  <2>4. QED
    BY <2>1, <2>2, <2>3, WatchedIsWalking, Zenon
<1>3. walk' \in [Reader -> Walking]
  BY <1>1, <1>2, Zenon
<1>4. QED
  BY <1>2, <1>3

-----------------------------------------------------------------------------
\* The steps

LEMMA ReadCases ==
  ASSUME WalkInv, ListingNext, ~Write
  PROVE  \E v \in Reader, w \in Walking :
            Served(v, w) /\ (Unread(w) \/ (w = walk[v] /\ walk[v].at = "paging"))
<1>1. Range(KindOf) \subseteq Kind
  BY KindAssumption DEF Range
<1>2. CASE \E v \in Reader : NextPage(v)
  <2>1. PICK v \in Reader : walk[v].at = "paging" /\ GetPage(v, walk[v])
    BY <1>2 DEF NextPage
  <2>2. walk[v] \in Walking
    BY DEF WalkInv
  <2>3. Served(v, walk[v])
    BY <2>1, <2>2, GetPageGets, GetsPageServes
  <2>4. QED
    BY <2>1, <2>2, <2>3
<1>3. CASE \E v \in Reader, audience \in Audience, kind \in Range(KindOf) :
              \/ FirstPage(v, audience, kind)
              \/ \E slug \in Key : GetBySlug(v, audience, kind, slug)
              \/ \E id \in Id : GetById(v, audience, kind, id)
  <2>1. PICK v \in Reader, audience \in Audience, kind \in Range(KindOf) :
              \/ FirstPage(v, audience, kind)
              \/ \E slug \in Key : GetBySlug(v, audience, kind, slug)
              \/ \E id \in Id : GetById(v, audience, kind, id)
    BY <1>3
  <2>2. kind \in Kind
    BY <1>1
  <2>3. CASE FirstPage(v, audience, kind)
    BY <2>2, <2>3, FirstPageServes
  <2>4. CASE \E slug \in Key : GetBySlug(v, audience, kind, slug)
    <3>1. PICK slug \in Key :
            GetDetail(v, audience, kind, {i \in Listed(audience, kind) : row[i].key = slug})
      BY <2>4 DEF GetBySlug
    <3>2. {i \in Listed(audience, kind) : row[i].key = slug} \in SUBSET Listed(audience, kind)
      OBVIOUS
    <3>3. QED
      BY <2>2, <3>1, <3>2, DetailServes
  <2>5. CASE \E id \in Id : GetById(v, audience, kind, id)
    <3>1. PICK id \in Id : GetDetail(v, audience, kind, {id} \cap Listed(audience, kind))
      BY <2>5 DEF GetById
    <3>2. {id} \cap Listed(audience, kind) \in SUBSET Listed(audience, kind)
      OBVIOUS
    <3>3. QED
      BY <2>2, <3>1, <3>2, DetailServes
  <2>6. QED
    BY <2>1, <2>3, <2>4, <2>5
<1>4. QED
  BY <1>2, <1>3 DEF ListingNext

LEMMA WalkInvHolds == ListingSpec => []WalkInv
<1>1. ListingInit => WalkInv
  <2>1. "articles" \in Kind /\ "public" \in Audience
    BY DEF Kind, RuleOf, Audience
  <2>2. Answered("end", "public", "articles", {}) \in Walking
    BY <2>1, AnsweredIsWalking
  <2>3. Answered("end", "public", "articles", {}).at = "end"
    BY DEF Answered
  <2>4. QED
    BY <2>2, <2>3 DEF ListingInit, WalkInv
<1>2. WalkInv /\ [ListingNext]_<<vars, listVars>> => WalkInv'
  <2> SUFFICES ASSUME WalkInv, [ListingNext]_<<vars, listVars>> PROVE WalkInv'
      OBVIOUS
  <2>1. CASE UNCHANGED <<vars, listVars>>
    BY <2>1 DEF listVars, WalkInv
  <2>2. CASE Write
    BY <2>2, WatchWalksKeepsShows DEF Write, WalkInv, Shows
  <2>3. CASE ListingNext /\ ~Write
    BY <2>3, ReadCases DEF WalkInv, Served
  <2>4. QED
    BY <2>1, <2>2, <2>3
<1>3. QED
  BY <1>1, <1>2, PTL DEF ListingSpec

-----------------------------------------------------------------------------
\* Nothing is shown to the public that is not on the site at that moment: no
\* hidden project, article, service or member, no case study of a hidden or
\* deleted project, and no deleted row.
THEOREM PublicSeesSiteHolds == ListingSpec => PublicSeesSite
<1> DEFINE Earlier(v) == IF walk'[v].pages > 1 THEN walk[v].seen ELSE {}
           Sees(v) == Shows(walk[v])' # Shows(walk[v]) /\ walk'[v].audience = "public"
                      => \A i \in walk'[v].seen \ Earlier(v) : OnSite(i)
<1>1. WalkInv /\ [ListingNext]_<<vars, listVars>> => [\A v \in Reader : Sees(v)]_<<vars, listVars>>
  <2> SUFFICES ASSUME WalkInv, ListingNext, NEW v \in Reader,
                      Shows(walk'[v]) # Shows(walk[v]), walk'[v].audience = "public",
                      NEW i \in walk'[v].seen \ Earlier(v)
               PROVE  OnSite(i)
      BY DEF Shows
  <2>1. ~Write
    BY WatchWalksKeepsShows DEF Write
  <2>2. PICK u \in Reader, w \in Walking :
          Served(u, w) /\ (Unread(w) \/ (w = walk[u] /\ walk[u].at = "paging"))
    BY <2>1, ReadCases
  <2>3. u = v
    BY <2>2 DEF Served
  <2>4. w.audience = "public" /\ w.pages \in Nat
    BY <2>2, <2>3 DEF Served, Walking
  <2>5. i \in Listed("public", w.kind)
    <3>1. CASE walk'[v].seen \subseteq Listed(w.audience, w.kind)
      BY <2>4, <3>1
    <3>2. CASE /\ walk'[v].pages = w.pages + 1
               /\ walk'[v].seen \subseteq w.seen \cup Listed(w.audience, w.kind)
      <4>1. CASE Unread(w)
        BY <2>4, <3>2, <4>1 DEF Unread
      <4>2. CASE w = walk[v] /\ walk[v].at = "paging"
        <5>1. walk'[v].pages > 1
          BY <2>4, <3>2, <4>2 DEF WalkInv
        <5>2. QED
          BY <2>4, <3>2, <4>2, <5>1
      <4>3. QED
        BY <2>2, <2>3, <4>1, <4>2
    <3>3. QED
      BY <2>2, <2>3, <3>1, <3>2 DEF Served
  <2>6. QED
    BY <2>5, ListedForThePublicIsOnSite
<1>2. QED
  BY <1>1, WalkInvHolds, PTL DEF ListingSpec, PublicSeesSite

\* While it is read, too, the catalogue keeps its references and its dates; nothing
\* deleted comes back, nothing withdrawn is shown by accident, no tag is lost.
THEOREM CatalogueHoldsWhileRead ==
  ListingSpec => /\ [](ReferencesHold /\ PublishedHasDate /\ KeysUnique)
                 /\ GoneForGood /\ UnpublishSticks /\ TagsStay
<1>1. CatalogueInv => ReferencesHold /\ PublishedHasDate /\ KeysUnique
  BY DEF CatalogueInv
<1>2. QED
  BY <1>1, ListingImplementsCatalogue, CatalogueInvHolds, GoneForGoodHolds,
     UnpublishSticksHolds, TagsStayHolds, PTL

-----------------------------------------------------------------------------
\* Pages of a list that grows

\* Nothing was created before itself.
CreatedInv == created \in SUBSET (Id \X Id) /\ \A i : <<i, i>> \notin created

Ahead(rows, i) == {j \in rows : Before(j, i)}

\* A walk that has met nothing but additions: what it began with is still listed,
\* and what it has not seen yet has at least the pages it went through ahead of it.
Follows(w) ==
    LET rows == Listed(w.audience, w.kind) IN
    /\ ~Tied(rows)
    /\ w.start \subseteq rows
    /\ \A i \in w.start \ w.seen : Offset(w.pages) <= Cardinality(Ahead(rows, i))

SteadyInv == \A v \in Reader : walk[v].at = "paging" /\ walk[v].steady => Follows(walk[v])

\* No list is longer than the rows there can be.
PagesInv == \A v \in Reader : Offset(walk[v].pages) <= Cardinality(Id)

ReadInv == WalkInv /\ CreatedInv /\ SteadyInv /\ PagesInv

LEMMA OffsetFacts ==
  ASSUME NEW pages \in Nat
  PROVE  /\ Offset(pages) \in Nat /\ Offset(0) = 0
         /\ Offset(pages + 1) = Offset(pages) + PageSize
         /\ pages <= Offset(pages)
<1>1. PICK more \in Nat : PageSize = 1 + more
  <2>1. PageSize - 1 \in Nat /\ PageSize = 1 + (PageSize - 1)
    BY PageAssumption
  <2>2. QED
    BY <2>1
<1>2. pages * more \in Nat /\ pages * PageSize = pages + pages * more
  BY <1>1
<1>3. QED
  BY <1>2, PageAssumption DEF Offset

LEMMA RowsAreFinite ==
  ASSUME NEW rows \in SUBSET Id
  PROVE  IsFiniteSet(rows) /\ Cardinality(rows) \in Nat /\ Cardinality(rows) <= Cardinality(Id)
  BY IdAssumption, FS_Subset, FS_CardinalityType

LEMMA NothingBeforeItself ==
  ASSUME CatalogueTypeOK, CreatedInv, NEW i \in Id
  PROVE  ~Before(i, i)
<1>1. row[i].date \in Date \cup {None}
  BY DEF CatalogueTypeOK, Row
<1>2. row[i].date # None => ~(row[i].date > row[i].date)
  BY <1>1, DateAssumption
<1>3. QED
  BY <1>2 DEF Before, CreatedInv

\* What a page takes from a list that is cut by LIMIT and OFFSET.
Cut(rows, pages, page, skipped) ==
    LET left == rows \ (page \cup skipped) IN
    /\ skipped \subseteq rows \ page /\ page \subseteq rows
    /\ Cardinality(skipped) <= Offset(pages) /\ Cardinality(page) <= PageSize
    /\ left # {} \/ page # {} => Cardinality(skipped) = Offset(pages)
    /\ left # {} => Cardinality(page) = PageSize
    /\ Sorted(skipped, page \cup left) /\ Sorted(page, left)

LEMMA PageIsCut ==
  ASSUME NEW kind, NEW rows, NEW pages, NEW page \in Page(kind, rows, pages),
         ReadsOf[kind].paged
  PROVE  \E skipped : Cut(rows, pages, page, skipped)
<1>1. page \in SUBSET rows
  BY DEF Page
<1>2. \E skipped \in SUBSET (rows \ page) : Cut(rows, pages, page, skipped)
  BY <1>1 DEF Page, Cut
<1>3. QED
  BY <1>2

\* A full page leaves room for another one only in a list that has it.
LEMMA FullPageFits ==
  ASSUME NEW kind, NEW rows \in SUBSET Id, NEW pages \in Nat,
         NEW page \in Page(kind, rows, pages), ~LastPage(kind, page)
  PROVE  Offset(pages + 1) <= Cardinality(Id)
<1>1. PICK skipped : Cut(rows, pages, page, skipped)
  BY PageIsCut DEF LastPage
<1>2. skipped \subseteq Id /\ page \subseteq Id /\ skipped \cap page = {}
  BY <1>1 DEF Cut
<1>3. /\ IsFiniteSet(skipped) /\ IsFiniteSet(page) /\ Cardinality(page) \in Nat
      /\ Cardinality(skipped) \in Nat /\ Cardinality(skipped \cup page) <= Cardinality(Id)
  BY <1>2, RowsAreFinite
<1>4. Cardinality(page) = PageSize
  BY <1>1, <1>3, PageAssumption DEF Cut, LastPage
<1>5. page # {}
  BY <1>4, PageAssumption, FS_EmptySet
<1>6. Cardinality(skipped) = Offset(pages)
  BY <1>1, <1>5 DEF Cut
<1>7. Cardinality(skipped \cup page) = Cardinality(skipped) + Cardinality(page)
  BY <1>2, <1>3, FS_Union, FS_EmptySet
<1>8. QED
  BY <1>3, <1>4, <1>6, <1>7, OffsetFacts

\* A row that has the pages already read ahead of it is on the next page, or has
\* that page ahead of it as well.
LEMMA PageReachesOrPrecedes ==
  ASSUME CatalogueTypeOK, CreatedInv,
         NEW kind, NEW rows \in SUBSET Id, ~Tied(rows), NEW pages \in Nat,
         NEW page \in Page(kind, rows, pages), NEW i \in rows \ page,
         Offset(pages) <= Cardinality(Ahead(rows, i))
  PROVE  ~LastPage(kind, page) /\ Offset(pages + 1) <= Cardinality(Ahead(rows, i))
<1>1. ReadsOf[kind].paged
  BY DEF Page
<1>2. PICK skipped : Cut(rows, pages, page, skipped)
  BY <1>1, PageIsCut
<1> DEFINE left == rows \ (page \cup skipped)
<1>3. /\ skipped \subseteq Id /\ page \subseteq Id /\ skipped \cap page = {}
      /\ IsFiniteSet(skipped) /\ IsFiniteSet(page) /\ Cardinality(page) \in Nat
      /\ Cardinality(skipped) \in Nat
  BY <1>2, RowsAreFinite DEF Cut
<1>4. Ahead(rows, i) \subseteq Id /\ IsFiniteSet(Ahead(rows, i))
      /\ Cardinality(Ahead(rows, i)) \in Nat
  BY RowsAreFinite DEF Ahead
<1>5. i \notin skipped
  <2> SUFFICES ASSUME i \in skipped PROVE FALSE
      OBVIOUS
  <2>1. Ahead(rows, i) \subseteq skipped
    BY <1>2 DEF Ahead, Cut, Sorted
  <2>2. i \notin Ahead(rows, i)
    BY NothingBeforeItself DEF Ahead
  <2>3. Cardinality(Ahead(rows, i)) < Cardinality(skipped)
    BY <1>3, <1>4, <2>1, <2>2, FS_Subset
  <2>4. QED
    BY <1>2, <1>3, <1>4, <2>3, OffsetFacts DEF Cut
<1>6. i \in left
  BY <1>5
<1>7. Cardinality(skipped) = Offset(pages) /\ Cardinality(page) = PageSize
  BY <1>2, <1>6 DEF Cut
<1>8. skipped \cup page \subseteq Ahead(rows, i)
  <2> SUFFICES ASSUME NEW j \in skipped \cup page PROVE j \in Ahead(rows, i)
      OBVIOUS
  <2>1. j \in rows /\ j # i /\ ~Before(i, j)
    BY <1>2, <1>5, <1>6 DEF Cut, Sorted
  <2>2. QED
    BY <2>1 DEF Tied, Ahead
<1>9. Cardinality(skipped \cup page) = Offset(pages) + PageSize
  BY <1>3, <1>7, FS_Union, FS_EmptySet
<1>10. Cardinality(skipped \cup page) <= Cardinality(Ahead(rows, i))
  BY <1>4, <1>8, FS_Subset
<1>11. QED
  BY <1>1, <1>7, <1>9, <1>10, OffsetFacts, PageAssumption DEF LastPage

-----------------------------------------------------------------------------
\* What a page adds to a walk

\* The walk a request makes: the one under way, or one that begins.
Begun(w) ==
    /\ w.pages = 0 /\ w.start = Listed(w.audience, w.kind)
    /\ w.steady => ~Tied(Listed(w.audience, w.kind))

LEMMA BegunFollows ==
  ASSUME NEW w \in Walking, Begun(w), w.steady
  PROVE  Follows(w)
<1>1. Listed(w.audience, w.kind) \in SUBSET Id
  BY ListedAreIds
<1>2. \A i : Cardinality(Ahead(Listed(w.audience, w.kind), i)) \in Nat
  BY <1>1, RowsAreFinite DEF Ahead
<1>3. Offset(w.pages) = 0
  BY OffsetFacts DEF Begun
<1>4. QED
  BY <1>2, <1>3 DEF Follows, Begun

\* After a page: a walk that goes on has it behind it, one that ends misses nothing.
Keeps(v, w) ==
    /\ Offset(walk'[v].pages) <= Cardinality(Id)
    /\ w.steady /\ walk'[v].at = "end" => w.start \subseteq w.seen \cup walk'[v].seen
    /\ walk'[v].at = "paging" /\ walk'[v].steady => Follows(walk'[v])

LEMMA GetPageKeeps ==
  ASSUME CatalogueTypeOK, CreatedInv, WalkInv, NEW v \in Reader, NEW w \in Walking,
         w.at = "paging", GetPage(v, w), w.steady => Follows(w)
  PROVE  Keeps(v, w)
<1> DEFINE rows == Listed(w.audience, w.kind)
<1>1. PICK page \in Page(w.kind, rows, w.pages) : Answer200(v, w, page) \/ Answer500(v, w)
  BY DEF GetPage
<1>2. /\ rows \in SUBSET Id /\ page \subseteq rows /\ w.pages \in Nat
      /\ w.audience \in Audience /\ w.kind \in Kind
  BY PageIsListed, ListedAreIds DEF Walking
<1>3. Cardinality(Id) \in Nat /\ Offset(0) = 0
  BY RowsAreFinite, OffsetFacts
<1>4. ASSUME Follows(w), NEW i \in w.start \ w.seen, i \notin page
      PROVE  ~LastPage(w.kind, page) /\ Offset(w.pages + 1) <= Cardinality(Ahead(rows, i))
  <2>1. i \in rows /\ ~Tied(rows) /\ Offset(w.pages) <= Cardinality(Ahead(rows, i))
    BY <1>4 DEF Follows
  <2> HIDE DEF rows
  <2>2. QED
    BY <1>1, <1>2, <1>4, <2>1, PageReachesOrPrecedes
<1>5. CASE Answer500(v, w)
  <2>1. walk'[v] = Answered("error", w.audience, w.kind, {})
    BY <1>5 DEF Answer500, WalkInv
  <2>2. walk'[v].at = "error" /\ walk'[v].pages = 0
    BY <1>2, <2>1, AnsweredIsWalking
  <2>3. QED
    BY <1>3, <2>2 DEF Keeps
<1>6. CASE Answer200(v, w, page) /\ LastPage(w.kind, page)
  <2>1. walk'[v] = Answered("end", w.audience, w.kind, page)
    BY <1>6 DEF Answer200, WalkInv
  <2>2. page \in SUBSET Id
    BY <1>2
  <2>3. walk'[v].at = "end" /\ walk'[v].pages = 0 /\ walk'[v].seen = page
    BY <1>2, <2>1, <2>2, AnsweredIsWalking
  <2>4. QED
    BY <1>3, <1>4, <1>6, <2>3 DEF Keeps
<1>7. CASE Answer200(v, w, page) /\ ~LastPage(w.kind, page)
  <2>1. walk'[v] = [w EXCEPT !.pages = @ + 1, !.seen = @ \cup page]
    BY <1>7 DEF Answer200, WalkInv
  <2>2. /\ walk'[v].at = w.at /\ walk'[v].pages = w.pages + 1
        /\ walk'[v].seen = w.seen \cup page /\ walk'[v].start = w.start
        /\ walk'[v].audience = w.audience /\ walk'[v].kind = w.kind
        /\ walk'[v].steady = w.steady
    BY <2>1 DEF Walking
  <2>3. Offset(w.pages + 1) <= Cardinality(Id)
    BY <1>1, <1>2, <1>7, FullPageFits
  <2>4. w.steady => Follows(walk'[v])
    BY <1>4, <2>2 DEF Follows
  <2>5. QED
    BY <2>2, <2>3, <2>4 DEF Keeps
<1>8. QED
  BY <1>1, <1>5, <1>6, <1>7

LEMMA ReadSteps ==
  ASSUME WalkInv, ListingNext, ~Write
  PROVE  \E v \in Reader :
            /\ \A u \in Reader \ {v} : walk'[u] = walk[u]
            /\ UNCHANGED <<vars, created>>
            /\ \/ /\ walk[v].at # "paging"
                  /\ walk'[v].at # "paging" /\ walk'[v].pages = 0
               \/ /\ walk[v].at # "paging"
                  /\ \E w \in Walking : w.at = "paging" /\ Begun(w) /\ GetPage(v, w)
               \/ walk[v].at = "paging" /\ GetPage(v, walk[v])
<1>1. \A v \in Reader : \A w : GetPage(v, w) =>
         (\A u \in Reader \ {v} : walk'[u] = walk[u]) /\ UNCHANGED <<vars, created>>
  BY DEF GetPage, Answer200, Answer500, WalkInv
<1>2. ASSUME NEW v \in Reader, NextPage(v)
      PROVE  walk[v].at = "paging" /\ GetPage(v, walk[v])
  BY <1>2 DEF NextPage
<1>3. ASSUME NEW v \in Reader, NEW audience \in Audience, NEW kind \in Kind,
             FirstPage(v, audience, kind)
      PROVE  /\ walk[v].at # "paging"
             /\ \E w \in Walking : w.at = "paging" /\ Begun(w) /\ GetPage(v, w)
  <2> DEFINE steady == ~Tied(Listed(audience, kind))
             w == [Answered("paging", audience, kind, {})
                     EXCEPT !.start = Listed(audience, kind), !.steady = steady]
  <2>1. Listed(audience, kind) \in SUBSET Id /\ steady \in BOOLEAN
    BY ListedAreIds, Zenon
  <2>2. w \in Walking
    BY <2>1, FirstIsWalking, Zenon
  <2>3. /\ w.at = "paging" /\ w.pages = 0 /\ w.start = Listed(audience, kind)
        /\ w.audience = audience /\ w.kind = kind /\ w.steady = steady
    BY DEF Answered
  <2>4. GetPage(v, w) /\ walk[v].at # "paging"
    BY <1>3, Zenon DEF FirstPage
  <2>5. w.steady => ~Tied(Listed(audience, kind))
    BY <2>3, Zenon
  <2> HIDE DEF w
  <2>6. Begun(w)
    BY <2>3, <2>5, Zenon DEF Begun
  <2>7. QED
    BY <2>2, <2>3, <2>4, <2>6
<1>4. ASSUME NEW v \in Reader, NEW audience \in Audience, NEW kind \in Kind, NEW found,
             found \in SUBSET Id, GetDetail(v, audience, kind, found)
      PROVE  /\ \A u \in Reader \ {v} : walk'[u] = walk[u]
             /\ UNCHANGED <<vars, created>>
             /\ walk[v].at # "paging" /\ walk'[v].at # "paging" /\ walk'[v].pages = 0
  <2>1. PICK at \in {"end", "notfound", "error"}, seen \in {found, {}} :
          walk' = [walk EXCEPT ![v] = Answered(at, audience, kind, seen)]
    BY <1>4 DEF GetDetail
  <2>2. walk'[v] = Answered(at, audience, kind, seen)
    BY <2>1 DEF WalkInv
  <2>3. walk'[v].at = at /\ walk'[v].pages = 0
    BY <1>4, <2>2, AnsweredIsWalking
  <2>4. QED
    BY <1>4, <2>1, <2>3 DEF GetDetail, WalkInv
<1>5. Range(KindOf) \subseteq Kind
  BY KindAssumption DEF Range
<1>6. CASE \E v \in Reader, audience \in Audience, kind \in Range(KindOf) :
              \/ \E slug \in Key : GetBySlug(v, audience, kind, slug)
              \/ \E id \in Id : GetById(v, audience, kind, id)
  <2>1. PICK v \in Reader, audience \in Audience, kind \in Range(KindOf) :
          \E found \in SUBSET Listed(audience, kind) : GetDetail(v, audience, kind, found)
    BY <1>6 DEF GetBySlug, GetById
  <2>2. PICK found \in SUBSET Listed(audience, kind) : GetDetail(v, audience, kind, found)
    BY <2>1
  <2>3. kind \in Kind /\ found \in SUBSET Id
    BY <1>5, ListedAreIds
  <2>4. QED
    BY <1>4, <2>2, <2>3
<1>7. QED
  BY <1>1, <1>2, <1>3, <1>5, <1>6 DEF ListingNext

-----------------------------------------------------------------------------
\* What a write does to the lists that are being read

LEMMA GrowingKeepsAhead ==
  ASSUME DrawCreatedAt, NEW audience, NEW kind, OnlyGrows(audience, kind),
         NEW i \in Listed(audience, kind)
  PROVE  Ahead(Listed(audience, kind), i) \subseteq Ahead(Listed(audience, kind), i)'
<1> SUFFICES ASSUME NEW j \in Listed(audience, kind), Before(j, i)
             PROVE  Before(j, i)' /\ j \in Listed(audience, kind)'
    BY DEF Ahead
<1>1. /\ i \in Listed(audience, kind)' /\ j \in Listed(audience, kind)'
      /\ row'[i].date = row[i].date /\ row'[j].date = row[j].date
  BY DEF OnlyGrows
<1>2. i \in stored' /\ j \in stored'
  BY <1>1 DEF Listed
<1>3. <<j, i>> \in created => <<j, i>> \in created'
  BY <1>2 DEF DrawCreatedAt
<1>4. QED
  BY <1>1, <1>3 DEF Before

LEMMA GrowingIsFollowed ==
  ASSUME DrawCreatedAt, NEW w \in Walking, Follows(w), OnlyGrows(w.audience, w.kind)
  PROVE  /\ ~Tied(Listed(w.audience, w.kind))'
         /\ w.start \subseteq Listed(w.audience, w.kind)'
         /\ \A i \in w.start \ w.seen :
               Offset(w.pages) <= Cardinality(Ahead(Listed(w.audience, w.kind), i)')
<1>1. /\ Listed(w.audience, w.kind) \subseteq Listed(w.audience, w.kind)'
      /\ ~Tied(Listed(w.audience, w.kind))' /\ w.start \subseteq Listed(w.audience, w.kind)
  BY DEF OnlyGrows, Follows
<1>2. ASSUME NEW i \in w.start \ w.seen
      PROVE  Offset(w.pages) <= Cardinality(Ahead(Listed(w.audience, w.kind), i)')
  <2>1. Offset(w.pages) \in Nat
    BY OffsetFacts DEF Walking
  <2>2. i \in Listed(w.audience, w.kind)
    BY <1>1, <1>2
  <2>3. Offset(w.pages) <= Cardinality(Ahead(Listed(w.audience, w.kind), i))
    BY <1>2 DEF Follows
  <2> DEFINE ahead == Ahead(Listed(w.audience, w.kind), i)
             then == Ahead(Listed(w.audience, w.kind), i)'
  <2>4. ahead \subseteq then
    BY <2>2, GrowingKeepsAhead
  <2>5. then \in SUBSET Id
    BY DEF Ahead, Listed, Of
  <2>6. /\ IsFiniteSet(then) /\ Cardinality(then) \in Nat
        /\ Cardinality(ahead) <= Cardinality(then) /\ Cardinality(ahead) \in Nat
    <3> HIDE DEF ahead, then
    <3>1. IsFiniteSet(then) /\ Cardinality(then) \in Nat
      BY <2>5, RowsAreFinite
    <3>2. QED
      BY <2>4, <3>1, FS_Subset, FS_CardinalityType
  <2>7. QED
    BY <2>1, <2>3, <2>6
<1>3. QED
  BY <1>1, <1>2

\* What a write does to a walk: its steadiness alone may change.
LEMMA WatchWalksWatches ==
  ASSUME WalkInv, WatchWalks, NEW v \in Reader
  PROVE  /\ walk'[v].at = walk[v].at /\ walk'[v].audience = walk[v].audience
         /\ walk'[v].kind = walk[v].kind /\ walk'[v].pages = walk[v].pages
         /\ walk'[v].seen = walk[v].seen /\ walk'[v].start = walk[v].start
         /\ walk[v].at = "paging" /\ walk'[v].steady
               => walk[v].steady /\ OnlyGrows(walk[v].audience, walk[v].kind)
<1> DEFINE Watched ==
      walk[v].steady
      /\ \E audience \in {walk[v].audience}, kind \in {walk[v].kind} :
            walk[v].at = "paging" => OnlyGrows(audience, kind)
<1>1. walk'[v] = [walk[v] EXCEPT !.steady = Watched]
  BY Zenon DEF WatchWalks
<1>2. walk[v] \in Walking
  BY DEF WalkInv
<1>3. walk[v].at = "paging" /\ Watched
         => walk[v].steady /\ OnlyGrows(walk[v].audience, walk[v].kind)
  BY Zenon
<1> HIDE DEF Watched
<1>4. /\ walk'[v].at = walk[v].at /\ walk'[v].audience = walk[v].audience
      /\ walk'[v].kind = walk[v].kind /\ walk'[v].pages = walk[v].pages
      /\ walk'[v].seen = walk[v].seen /\ walk'[v].start = walk[v].start
      /\ walk'[v].steady = Watched
  BY <1>1, <1>2 DEF Walking
<1>5. QED
  BY <1>3, <1>4

LEMMA WritesKeepReadInv ==
  ASSUME CatalogueInv, ReadInv, Write, CatalogueInv'
  PROVE  ReadInv'
<1> USE DEF Write, ReadInv
<1>1. WalkInv'
  BY WatchWalksKeepsShows DEF WalkInv, Shows
<1>2. CreatedInv'
  <2>1. Inserting \subseteq Id /\ Inserting' \subseteq Id /\ stored \subseteq Id /\ stored' \subseteq Id
    BY DEF Inserting, CatalogueInv, WorkInv, WorkHasRow, CatalogueTypeOK
  <2>2. QED
    BY <2>1 DEF CreatedInv, DrawCreatedAt
<1>3. PagesInv'
  BY WatchWalksWatches DEF PagesInv, Offset
<1>4. ASSUME NEW v \in Reader, walk'[v].at = "paging" /\ walk'[v].steady
      PROVE  Follows(walk[v])'
  <2>1. walk[v] \in Walking
    BY DEF WalkInv
  <2>2. PICK w \in Walking : w = walk[v]
    BY <2>1
  <2>3. Follows(w) /\ OnlyGrows(w.audience, w.kind)
    BY <1>4, <2>2, WatchWalksWatches DEF SteadyInv
  <2>4. /\ ~Tied(Listed(w.audience, w.kind))'
        /\ w.start \subseteq Listed(w.audience, w.kind)'
        /\ \A i \in w.start \ w.seen :
              Offset(w.pages) <= Cardinality(Ahead(Listed(w.audience, w.kind), i)')
    BY <2>3, GrowingIsFollowed
  <2>5. /\ walk'[v].audience = w.audience /\ walk'[v].kind = w.kind
        /\ walk'[v].pages = w.pages /\ walk'[v].seen = w.seen /\ walk'[v].start = w.start
    BY <2>2, WatchWalksWatches
  <2>6. QED
    BY <2>4, <2>5 DEF Follows
<1>5. QED
  BY <1>1, <1>2, <1>3, <1>4 DEF SteadyInv

-----------------------------------------------------------------------------
\* A page keeps the invariant, and a steady walk that ends has missed nothing

LEMMA UnchangedIsFollowed ==
  ASSUME UNCHANGED <<vars, created>>, NEW v \in Reader, Follows(walk'[v])
  PROVE  Follows(walk[v])'
  BY DEF Follows, Listed, Of, Selects, Tied, Before, Ahead, Offset, vars

LEMMA ReadsKeepReadInv ==
  ASSUME CatalogueInv, ReadInv, ListingNext, ~Write, WalkInv'
  PROVE  /\ ReadInv'
         /\ \A v \in Reader :
               walk[v].at = "paging" /\ walk[v].steady /\ walk'[v].at = "end"
               => walk[v].start \subseteq walk[v].seen \cup walk'[v].seen
<1>1. WalkInv /\ CreatedInv /\ CatalogueTypeOK /\ SteadyInv /\ PagesInv
  BY DEF ReadInv, CatalogueInv, WorkInv
<1>2. PICK v \in Reader :
         /\ \A u \in Reader \ {v} : walk'[u] = walk[u]
         /\ UNCHANGED <<vars, created>>
         /\ \/ /\ walk[v].at # "paging"
               /\ walk'[v].at # "paging" /\ walk'[v].pages = 0
            \/ /\ walk[v].at # "paging"
               /\ \E w \in Walking : w.at = "paging" /\ Begun(w) /\ GetPage(v, w)
            \/ walk[v].at = "paging" /\ GetPage(v, walk[v])
  BY <1>1, ReadSteps
<1>3. /\ Offset(walk'[v].pages) <= Cardinality(Id)
      /\ walk'[v].at = "paging" /\ walk'[v].steady => Follows(walk'[v])
      /\ walk[v].at = "paging" /\ walk[v].steady /\ walk'[v].at = "end"
            => walk[v].start \subseteq walk[v].seen \cup walk'[v].seen
  <2>1. CASE walk[v].at # "paging" /\ walk'[v].at # "paging" /\ walk'[v].pages = 0
    BY <2>1, RowsAreFinite, OffsetFacts
  <2>2. CASE walk[v].at # "paging"
             /\ \E w \in Walking : w.at = "paging" /\ Begun(w) /\ GetPage(v, w)
    <3>1. PICK w \in Walking : w.at = "paging" /\ Begun(w) /\ GetPage(v, w)
      BY <2>2
    <3>2. Keeps(v, w)
      BY <1>1, <3>1, BegunFollows, GetPageKeeps
    <3>3. QED
      BY <2>2, <3>2 DEF Keeps
  <2>3. CASE walk[v].at = "paging" /\ GetPage(v, walk[v])
    <3>1. PICK w \in Walking : w = walk[v]
      BY <1>1 DEF WalkInv
    <3>2. Keeps(v, w)
      BY <1>1, <2>3, <3>1, GetPageKeeps DEF SteadyInv
    <3>3. QED
      BY <3>1, <3>2 DEF Keeps
  <2>4. QED
    BY <1>2, <2>1, <2>2, <2>3
<1>4. CreatedInv'
  BY <1>1, <1>2 DEF CreatedInv
<1>5. PagesInv'
  BY <1>1, <1>2, <1>3 DEF PagesInv, Offset
<1>6. ASSUME NEW u \in Reader, walk'[u].at = "paging" /\ walk'[u].steady
      PROVE  Follows(walk[u])'
  <2>1. Follows(walk'[u])
    BY <1>1, <1>2, <1>3, <1>6 DEF SteadyInv
  <2>2. QED
    BY <1>2, <2>1, UnchangedIsFollowed
<1>7. QED
  BY <1>1, <1>2, <1>3, <1>4, <1>5, <1>6 DEF ReadInv, SteadyInv

LEMMA ReadInvHolds == ListingSpec => [](CatalogueInv /\ ReadInv)
<1>1. ListingInit => CreatedInv /\ SteadyInv /\ PagesInv
  <2>1. ListingInit => \A v \in Reader : walk[v].at = "end" /\ walk[v].pages = 0
    BY DEF ListingInit, Answered
  <2>2. Offset(0) <= Cardinality(Id)
    BY RowsAreFinite, OffsetFacts
  <2>3. ListingInit => CreatedInv
    BY DEF ListingInit, CreatedInv
  <2>4. QED
    BY <2>1, <2>2, <2>3 DEF SteadyInv, PagesInv
<1>2. /\ CreatedInv /\ SteadyInv /\ PagesInv /\ WalkInv /\ WalkInv'
      /\ CatalogueInv /\ CatalogueInv' /\ [ListingNext]_<<vars, listVars>>
      => CreatedInv' /\ SteadyInv' /\ PagesInv'
  <2> SUFFICES ASSUME ReadInv, WalkInv', CatalogueInv, CatalogueInv',
                      [ListingNext]_<<vars, listVars>>
               PROVE  CreatedInv' /\ SteadyInv' /\ PagesInv'
      BY DEF ReadInv
  <2>1. CASE UNCHANGED <<vars, listVars>>
    <3>1. UNCHANGED <<vars, created>> /\ walk' = walk
      BY <2>1 DEF listVars
    <3>2. CreatedInv' /\ PagesInv'
      BY <3>1 DEF ReadInv, CreatedInv, PagesInv, Offset
    <3>3. ASSUME NEW v \in Reader, walk'[v].at = "paging" /\ walk'[v].steady
          PROVE  Follows(walk[v])'
      <4>1. Follows(walk'[v])
        BY <3>1, <3>3 DEF ReadInv, SteadyInv
      <4>2. QED
        BY <3>1, <4>1, UnchangedIsFollowed
    <3>4. QED
      BY <3>2, <3>3 DEF SteadyInv
  <2>2. CASE Write
    BY <2>2, WritesKeepReadInv DEF ReadInv
  <2>3. CASE ListingNext /\ ~Write
    BY <2>3, ReadsKeepReadInv DEF ReadInv
  <2>4. QED
    BY <2>1, <2>2, <2>3
<1>3. QED
  BY <1>1, <1>2, WalkInvHolds, ListingImplementsCatalogue, CatalogueInvHolds, PTL
     DEF ListingSpec, ReadInv

\* The state of the reads has its types, and no walk is longer than the rows there
\* can be: a client asks for another page only while there may be one.
THEOREM ListingTypeCorrect == ListingSpec => []ListingTypeOK
<1>1. CatalogueInv /\ ReadInv => ListingTypeOK
  <2> SUFFICES ASSUME ReadInv, NEW v \in Reader
               PROVE  walk[v] \in Walk
      BY DEF ReadInv, ListingTypeOK, CreatedInv, WalkInv
  <2>1. walk[v] \in Walking
    BY DEF ReadInv, WalkInv
  <2>2. walk[v].pages \in Nat
    BY <2>1 DEF Walking
  <2>3. Offset(walk[v].pages) <= Cardinality(Id)
    BY DEF ReadInv, PagesInv
  <2>4. walk[v].pages \in 0 .. Cardinality(Id)
    BY <2>2, <2>3, OffsetFacts, RowsAreFinite
  <2>5. QED
    BY <2>1, <2>4 DEF Walking, Walk
<1>2. QED
  BY <1>1, ReadInvHolds, PTL

\* Who reads a list to its end, page by page, has been shown every row it had at the
\* start, whatever was added meanwhile and whatever the length of list and page.
THEOREM WalkMissesNothingHolds == ListingSpec => WalkMissesNothing
<1>1. CatalogueInv /\ ReadInv /\ WalkInv' /\ [ListingNext]_<<vars, listVars>>
      => [\A v \in Reader :
            walk[v].at = "paging" /\ walk[v].steady /\ walk'[v].at = "end"
            => walk[v].start \subseteq walk[v].seen \cup walk'[v].seen]_<<vars, listVars>>
  <2> SUFFICES ASSUME CatalogueInv, ReadInv, WalkInv', ListingNext,
                      NEW v \in Reader,
                      walk[v].at = "paging", walk[v].steady, walk'[v].at = "end"
               PROVE  walk[v].start \subseteq walk[v].seen \cup walk'[v].seen
      OBVIOUS
  <2>1. CASE Write
    BY <2>1, WatchWalksWatches DEF Write, ReadInv
  <2>2. CASE ~Write
    BY <2>2, ReadsKeepReadInv
  <2>3. QED
    BY <2>1, <2>2
<1>2. QED
  BY <1>1, ReadInvHolds, WalkInvHolds, PTL DEF ListingSpec, WalkMissesNothing
=============================================================================
