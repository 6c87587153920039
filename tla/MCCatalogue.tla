----------------------------- MODULE MCCatalogue -----------------------------
\* Small instances of Catalogue: the rows that may exist, and their tables.
EXTENDS Catalogue, TLC

CONSTANTS p1, t1, c1, a1, a2

\* A project with one technology, referred to by a case study.
References == (p1 :> "projects") @@ (t1 :> "technologies") @@ (c1 :> "case_studies")

\* Two articles that may want the same slug, and a technology for them.
Publishing == (a1 :> "articles") @@ (a2 :> "articles") @@ (t1 :> "technologies")

Symmetry == Permutations(Request)
=============================================================================
