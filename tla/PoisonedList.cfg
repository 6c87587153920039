SPECIFICATION ListingSpec
CONSTANTS
    p1 = p1  p2 = p2  c1 = c1
    Request = {r1}
    Id = {p1}
    KindOf <- Site
    Key = {k1, bad}
    Malformed = {bad}
    Date = {1}
    None = None
    Reader = {v1}
    PageSize = 1
INVARIANTS
    ListsAnswer
