SPECIFICATION LimiterFairSpec
CONSTANTS
    Request = {r1, r2, r3}
    Limit = 2
    Window = 2
    MaxHits = 5
    MaxFailures = 1
    MaxRestarts = 1
PROPERTIES
    RefusalsAlwaysEnd
