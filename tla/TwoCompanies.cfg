SPECIFICATION Spec
CONSTANTS
    Writer = {w1, w2}
    Seeder = {s1, s2}
    Row = {1, 2, 3, 4}
    UniqueKey = {admin, python}
    Admin = admin
    Founder = founder
    MaxFounders = 2
    SeedValues = SeedValues
    NoRow = NoRow
INVARIANTS
    AtMostOneCompany
