\* Two processes update the same stored trip.
SPECIFICATION Spec
CONSTANTS
    Workers = {"piv", "web"}
    LongLived = {"piv"}
    Trips = {t1, t2}
    t1 = t1
    t2 = t2
    h1 = h1
    h2 = h2
    s1 = s1
    s2 = s2
    bad = bad
    Heads = {h1, h2}
    StopLists = {s1, s2, bad}
    Rejected = {bad}
    NoTrip = NoTrip
    Payloads <- ConcurrentFeeds
    MaxFeeds = 3
    Faults = {}
INVARIANTS
    TripIsOneVersion
