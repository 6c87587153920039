\* Two projects and a case study, edited by one admin and read by one reader.
SPECIFICATION ListingSpec
CONSTANTS
    p1 = p1  p2 = p2  c1 = c1
    Request = {r1}
    Id = {p1, p2, c1}
    KindOf <- Portfolio
    Key = {k1, k2, bad}
    Malformed = {bad}
    Date = {1}
    None = None
    Reader = {v1}
    PageSize = 1
SYMMETRY Symmetry
INVARIANTS
    ListingTypeOK
PROPERTIES
    WalkMissesNothing
    PublicSeesSite
