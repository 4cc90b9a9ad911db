CONSTANTS
    Engines = {"bar", "mtf"}
    MaxBars = 3
    MaxTimes = 1
    MaxQueue = 5
SPECIFICATION Spec
CHECK_DEADLOCK FALSE
INVARIANTS TradesTellThePosition FreshAllowances EntriesKept
PROPERTIES LiquidationIsLast
