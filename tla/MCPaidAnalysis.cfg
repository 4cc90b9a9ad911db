CONSTANTS
    m1 = m1
    m2 = m2
    Clicks = 3
    Monitors <- MCMonitors
    MaxTaskFaults = 1
    Positions = 2
    LookLimit = 1
    MaxCredits = 2
    MaxEdits = 1
    MaxMonitorFaults = 1
SPECIFICATION Spec
\* Requests end.
CHECK_DEADLOCK FALSE
INVARIANTS GuardHolds PaidIffServed PaidInFull BilledOnce
PROPERTY DueMonitorsRun
