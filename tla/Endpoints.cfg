\* A contact form, with its e-mail, and an admin's write, over a pool of one connection.
SPECIFICATION EndpointsFairSpec
CONSTANTS
    Request = {r1, r2}
    Limit = 2
    Window = 2
    MaxHits = 5
    MaxFailures = 1
    MaxRestarts = 1
    Served <- Calls
    Scope = "contact"
    PoolSize = 1
INVARIANTS
    LimiterTypeOK
    EndpointsTypeOK
    BurstBound
    ArmedOrArming
    PoolAccounted
    NoHoldAndWait
    GuardsFirst
PROPERTIES
    LimiterSpec
    RefusalsEnd
    RestartsPayForSetBacks
