\* Three calls over two connections: one waits for the row of another, with a
\* connection in hand, and the third for the pool. Of the scopes none is followed, so
\* the counter stays as it is.
SPECIFICATION EndpointsFairSpec
CONSTANTS
    Request = {r1, r2, r3}
    Limit = 2
    Window = 2
    MaxHits = 0
    MaxFailures = 0
    MaxRestarts = 0
    Served <- Waits
    Scope = "refresh"
    PoolSize = 2
PROPERTIES
    EveryCallEnds
