\* Two trips and two feeds of one contributor that keeps trips for a day and feeds for
\* two, over five days, and a purge that fails.
SPECIFICATION Spec
CONSTANTS
    t1 = t1
    t2 = t2
    f1 = f1
    f2 = f2
    Trips = {t1, t2}
    Feeds = {f1, f2}
    StartDay <- MCStartDay
    KeepTrips = 1
    KeepFeeds = 2
    MaxDay = 5
    MaxFaults = 1
INVARIANTS
    TypeOK
    TripRestsOnFeeds
PROPERTIES
    PurgeTakesOldTrips
    ContributorCanGo
