\* Two tasks, three versions of which the second is no protobuf, any two faults.
SPECIFICATION FairSpec
CONSTANTS
    Tasks = {"a", "b"}
    MaxVersion = 3
    Undecodable = {2}
    Faults = {"http", "navitia", "handle", "conflict", "redis", "db", "crash"}
    MaxFaults = 2
    NoTask = NoTask
INVARIANTS
    TypeOK
    OneTaskAtATime
    SkippedIsSettled
    RowsTellTheTruth
PROPERTIES
    FeedNeverGoesBack
    IntervalIsRespected
    LatestIsSettled
