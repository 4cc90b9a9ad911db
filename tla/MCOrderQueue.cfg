SPECIFICATION Spec
CONSTANTS
    Orders <- MCOrders
    Workers = {w1, w2}
    NoOrder = NoOrder
    MaxAttempts = 2
    BatchSize = 2
    MaxFaults = 1
    SlowDispatch = FALSE
SYMMETRY Symmetry
INVARIANT NoDoubleDispatch
PROPERTIES FinalIsFinal ImplementsLifecycle
