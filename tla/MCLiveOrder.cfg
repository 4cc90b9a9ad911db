SPECIFICATION Spec
CONSTANTS
    Venues = {"crypto", "ibkr", "mt5"}
    Asked <- MCAsked
    FillLevels <- MCFillLevels
    MinTail = 2
    LotStep = 143
    RefusesRepeats = TRUE
    MaxAttempts = 2
    MaxFaults = 3
INVARIANTS
    ExposureBounded
    OverfillIsUnseen
    SentIsBacked
    RestingIsExplained
    BookedIsBought
\* The row settles or is left in processing.
CHECK_DEADLOCK FALSE
