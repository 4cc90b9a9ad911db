CONSTANTS
    u1 = u1
    u2 = u2
    s1 = s1
    s2 = s2
    Users <- MCUsers
    VipFree <- MCVipFree
    Asks <- MCAsks
    Slots <- MCSlots
    Cost = 1
    Price = 1
    Bonus = 1
    Opening = 1
    Period = 1
    CatchUp = 1
    MaxRequests = 3
    MaxTicks = 2
    MaxFaults = 1
SPECIFICATION FairSpec
CHECK_DEADLOCK FALSE
INVARIANTS LogExplainsBalance GrantsNotEarly ChargedOnce
PROPERTIES RequestsEnd
