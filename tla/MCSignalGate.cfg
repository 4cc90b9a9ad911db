SPECIFICATION Spec
CONSTANTS
    Acts <- MCActs
    CountedActs = {"open"}
    CountedSides = {"long"}
    Modes = {"live", "signal"}
    Directions = {"both"}
    Stops = {}
    MaxLots = 1
    MaxQueue = 2
    MaxFaults = 1
INVARIANTS
    OncePerCandle
    EntersFlat
    OneDirection
    ExitsAreTimely
