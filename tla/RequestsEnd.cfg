\* Three requests waiting for the rows of two tokens; no symmetry, for liveness.
SPECIFICATION FairSpec
CONSTANTS
    User = {u1}
    Token = {t1, t2}
    Request = {r1, r2, r3}
    NoUser = NoUser
    NoToken = NoToken
    Closed = Closed
    Exchanging = Exchanging
    AccessTTL = 1
    RefreshTTL = 1
    Retention = 0
    MaxTime = 1
PROPERTIES
    EveryRequestEnds
