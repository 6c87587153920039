\* Two containers that migrate, seed and serve, and two admins' PUTs, while the
\* technologies and the team are edited. Three of these four transactions may insert
\* a profile each, the bound.
SPECIFICATION StartupSpec
CONSTANTS
    Writer = {w1, w2}
    Seeder = {s1, s2}
    Row = {1, 2, 3}
    UniqueKey = {admin, python}
    Admin = admin
    Founder = founder
    MaxFounders = 1
    SeedValues = SeedValues
    NoRow = NoRow
SYMMETRY Symmetry
INVARIANTS
    StartupTypeOK
    SeedIsAtomic
    ServesWholeDatabase
PROPERTIES
    SeedKeepsEdits
    RowsSettle
