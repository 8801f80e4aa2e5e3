\* Two processes, one of them with a long-lived session, every failure but
\* those of the builder.
SPECIFICATION Spec
CONSTANTS
    Workers = {"piv", "web"}
    LongLived = {"piv"}
    Trips = {t1, t2}
    t1 = t1
    t2 = t2
    h1 = h1
    h2 = h2
    s1 = s1
    s2 = s2
    bad = bad
    Heads = {h1, h2}
    StopLists = {s1, s2, bad}
    Rejected = {bad}
    NoTrip = NoTrip
    Payloads <- ConcurrentFeeds
    MaxFeeds = 3
    Faults = {"merge", "publish", "db", "crash"}
INVARIANTS
    NavitiaHoldsCommittedTrip
    VerdictMatchesDelivery
    FailedCommitLeavesNothing
