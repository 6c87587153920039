\* Three requests over three tokens: every triple of handlers interleaves, and
\* the first tokens expire.
SPECIFICATION Spec
CONSTANTS
    User = {u1}
    Token = {t1, t2, t3}
    Request = {r1, r2, r3}
    NoUser = NoUser
    NoToken = NoToken
    Closed = Closed
    Exchanging = Exchanging
    AccessTTL = 1
    RefreshTTL = 1
    Retention = 0
    MaxTime = 1
SYMMETRY Symmetry
INVARIANTS
    TypeOK
    SingleUse
    OneLivePerSession
    LogoutSticks
    UndeliveredUntouched
    RotationInv
PROPERTIES
    RevocationOneWay
    PurgeSparesLive
    DeactivationDrains
    DeactivationEndsAccess
    ImplementsChain
