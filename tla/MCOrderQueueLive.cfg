SPECIFICATION FairSpec
CONSTANTS
    Orders <- MCOneOrder
    Workers = {w1, w2}
    NoOrder = NoOrder
    MaxAttempts = 3
    BatchSize = 1
    MaxFaults = 2
    SlowDispatch = TRUE
INVARIANT OneOrderPerClaim
PROPERTY EveryOrderSettles
