SPECIFICATION FairSpec
CONSTANTS
    w1 = w1
    w2 = w2
    t1 = t1
    t2 = t2
    None = None
    Workers = {w1, w2}
    Trips = {t1, t2}
    StartDay <- MCStartDay
    Periods <- MCPeriods
    MaxFeeds = 3
    MaxLoads = 2
    MaxFaults = 1
INVARIANTS
    TypeOK
    KrakenCatchesUp
    LastOnTheWayIsStored
PROPERTIES
    LoadIsAnswered
