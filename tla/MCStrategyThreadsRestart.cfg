SPECIFICATION Spec
CONSTANTS
    Strategies = {s1}
    Scripts = {}
    Threads = {t1, t2}
    Procs = {p1}
    Requests = {r1, r2}
    NoThread = NoThread
    MaxThreads = 1
    MaxFaults = 0
CHECK_DEADLOCK FALSE
SYMMETRY Symmetry
INVARIANT NextCheckEnds
