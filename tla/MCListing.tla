------------------------------ MODULE MCListing ------------------------------
\* Small instances of Listing: the rows that may exist, and their tables.
EXTENDS Listing, TLC

CONSTANTS p1, p2, c1

\* Two projects to page through, and a case study of one of them.
Portfolio == (p1 :> "projects") @@ (p2 :> "projects") @@ (c1 :> "case_studies")

\* One project.
Site == p1 :> "projects"

Symmetry == Permutations(Key \ Malformed) \cup Permutations({p1, p2})
=============================================================================
