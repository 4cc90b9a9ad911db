SPECIFICATION Spec
CONSTANTS
    Acts <- MCSizingActs
    CountedActs = {}
    CountedSides = {"long"}
    Modes = {"live"}
    Directions = {"long"}
    Stops = {"long"}
    MaxLots = 2
    MaxQueue = 2
    MaxFaults = 1
PROPERTY StopsOut
