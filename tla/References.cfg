\* A project, its technology and a case study of it, edited by two admins.
SPECIFICATION Spec
CONSTANTS
    p1 = p1  t1 = t1  c1 = c1  a1 = a1  a2 = a2
    Request = {r1, r2}
    Id = {p1, t1, c1}
    KindOf <- References
    Key = {k1, bad}
    Malformed = {bad}
    Date = {1}
    None = None
SYMMETRY Symmetry
INVARIANTS
    CatalogueTypeOK
    ReferencesHold
PROPERTIES
    GoneForGood
    TagsStay
