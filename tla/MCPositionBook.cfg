SPECIFICATION BookSpec
CONSTANTS
    MaxLots = 2
    MaxOrders = 2
    MaxExternal = 1
    MaxStarts = 2
    MaxFaults = 1
    Slacks <- MCSlacks
INVARIANTS TrustedIsRight CloseIsWhole
PROPERTY Heals
