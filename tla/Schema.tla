-------------------------------- MODULE Schema --------------------------------
(***************************************************************************)
(* The database as the one migration leaves it (alembic/versions/          *)
(* 0001_baseline_mysql_schema.py): what MySQL refuses whatever the         *)
(* application checked, and the order in which the tables come and go.     *)
(*                                                                         *)
(* Of a table, the model keeps its unique columns other than the primary   *)
(* key and its foreign keys. No foreign key has an ON DELETE: a row that   *)
(* is referred to cannot be deleted. The CHECKs on enumerations and on     *)
(* ratings are left out, their values being data.                          *)
(***************************************************************************)
EXTENDS Integers, Sequences

\* unique     columns with a unique index of their own
\* refs       refs[c]: the table whose primary key the column c holds
\* optional   the columns of refs that may be NULL
Table(unique, refs, optional) == [unique |-> unique, refs |-> refs, optional |-> optional]

NoRefs == <<>>
Plain == Table({}, NoRefs, {})

ClientsTable == Plain

CompaniesTable == Plain

PartnersTable == Plain

ProductsTable == Table({"slug"}, NoRefs, {})

ServiceLinesTable == Table({"slug"}, NoRefs, {})

TechnologiesTable == Table({"name"}, NoRefs, {})

UsersTable == Table({"email", "email_lower"}, NoRefs, {})

ArticlesTable == Table({"slug"}, [author_id |-> "users"], {})

ContactRequestsTable ==
    Table({}, [interested_service_line_id |-> "service_lines"], {"interested_service_line_id"})

ProjectsTable == Table({"slug"}, [client_id |-> "clients"], {"client_id"})

RefreshTokensTable == Table({"token_hash"}, [user_id |-> "users"], {})

ServicesTable == Table({"slug"}, [service_line_id |-> "service_lines"], {"service_line_id"})

TeamMembersTable == Table({}, [user_id |-> "users"], {"user_id"})

ArticleTechnologiesTable ==
    Table({}, [article_id |-> "articles", technology_id |-> "technologies"], {})

CaseStudiesTable == Table({}, [project_id |-> "projects"], {})

ProjectTechnologiesTable ==
    Table({}, [project_id |-> "projects", technology_id |-> "technologies"], {})

TestimonialsTable ==
    Table({}, [client_id |-> "clients", project_id |-> "projects"], {"client_id", "project_id"})

TableOf ==
    [clients |-> ClientsTable, companies |-> CompaniesTable, partners |-> PartnersTable,
     products |-> ProductsTable, service_lines |-> ServiceLinesTable,
     technologies |-> TechnologiesTable, users |-> UsersTable, articles |-> ArticlesTable,
     contact_requests |-> ContactRequestsTable, projects |-> ProjectsTable,
     refresh_tokens |-> RefreshTokensTable, services |-> ServicesTable,
     team_members |-> TeamMembersTable, article_technologies |-> ArticleTechnologiesTable,
     case_studies |-> CaseStudiesTable, project_technologies |-> ProjectTechnologiesTable,
     testimonials |-> TestimonialsTable]

-----------------------------------------------------------------------------
\* upgrade() and downgrade()

UpgradeOrder ==
    <<"clients", "companies", "partners", "products", "service_lines", "technologies",
      "users", "articles", "contact_requests", "projects", "refresh_tokens", "services",
      "team_members", "article_technologies", "case_studies", "project_technologies",
      "testimonials">>

DowngradeOrder ==
    <<"testimonials", "project_technologies", "case_studies", "article_technologies",
      "team_members", "services", "refresh_tokens", "projects", "contact_requests",
      "articles", "users", "technologies", "service_lines", "products", "partners",
      "companies", "clients">>

ParentTables(t) == {TableOf[t].refs[c] : c \in DOMAIN TableOf[t].refs}

\* MySQL creates no foreign key to a table that is not there yet, and drops no
\* table that another one refers to.
ASSUME UpgradeAssumption ==
    \A i, j \in DOMAIN UpgradeOrder :
        i <= j => UpgradeOrder[j] \notin ParentTables(UpgradeOrder[i])

ASSUME DowngradeAssumption ==
    \A i, j \in DOMAIN DowngradeOrder :
        i < j => DowngradeOrder[i] \notin ParentTables(DowngradeOrder[j])

ASSUME OrdersAssumption ==
    \A order \in {UpgradeOrder, DowngradeOrder} :
        /\ Len(order) = 17
        /\ {order[i] : i \in DOMAIN order} = DOMAIN TableOf
=============================================================================
