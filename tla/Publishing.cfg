\* Two articles and a technology, edited by two admins.
SPECIFICATION Spec
CONSTANTS
    p1 = p1  t1 = t1  c1 = c1  a1 = a1  a2 = a2
    Request = {r1, r2}
    Id = {a1, a2, t1}
    KindOf <- Publishing
    Key = {k1}
    Malformed = {}
    Date = {1}
    None = None
SYMMETRY Symmetry
INVARIANTS
    PublishedHasDate
    KeysUnique
PROPERTIES
    UnpublishSticks
