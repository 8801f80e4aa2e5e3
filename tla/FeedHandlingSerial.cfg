\* One long-lived process (the PIV worker), every failure, three feeds.
SPECIFICATION FairSpec
CONSTANTS
    Workers = {"piv"}
    LongLived = {"piv"}
    Trips = {t1, t2}
    t1 = t1
    t2 = t2
    h1 = h1
    h2 = h2
    s1 = s1
    s2 = s2
    bad = bad
    Heads = {h1, h2}
    StopLists = {s1, s2, bad}
    Rejected = {bad}
    NoTrip = NoTrip
    Payloads <- SerialFeeds
    MaxFeeds = 3
    Faults = {"parse", "merge", "publish", "db", "crash"}
INVARIANTS
    TypeOK
    TripIsOneVersion
    StalenessIsExplained
PROPERTIES
    ImplementsContract
    EveryHandlingEnds
