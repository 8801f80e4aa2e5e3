\* A trip of three stops that passes midnight between the second and the third,
\* under the feeds of the three connectors in every order.
SPECIFICATION Spec
CONSTANTS
    None = None
    MaxLate = 4
    Day <- MCDay
    Trip <- Overnight
    GtfsFeeds <- MCGtfsFeeds
    PivFeeds <- MCPivFeeds
    CotsFeeds <- MCCotsFeeds
INVARIANTS
    TypeOK
    TripCanBeDriven
    DelaysExplainTimes
PROPERTIES
    FeedIsHonoured
    RepeatIsNoNews
