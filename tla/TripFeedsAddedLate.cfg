\* The same trip under PIV feeds that add a stop and are late on it: the delay is
\* counted twice.
SPECIFICATION Spec
CONSTANTS
    None = None
    MaxLate = 4
    Day <- MCDay
    Trip <- Overnight
    GtfsFeeds <- NoFeeds
    PivFeeds <- MCLatePivFeeds
    CotsFeeds <- NoFeeds
INVARIANTS
    LastIsHonoured
