SPECIFICATION Spec
CONSTANTS
    User = {u1}
    Token = {t1, t2, t3}
    Request = {r1, r2}
    NoUser = NoUser
    NoToken = NoToken
    Closed = Closed
    Exchanging = Exchanging
    AccessTTL = 1
    RefreshTTL = 1
    Retention = 1
    MaxTime = 1
PROPERTIES
    LogoutEndsSession
