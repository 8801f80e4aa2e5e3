SPECIFICATION Spec
CONSTANTS
    w1 = w1
    w2 = w2
    Workers = {w1}
    Feeds <- PaddedFeeds
    Headsigns <- MCHeadsigns
    TrainId <- MCTrainId
    BaseTrips <- MCBaseTrips
    Stops <- MCStops
    Known <- MCKnown
    Margin = 1
    LastTime = 7
    None = None
PROPERTIES
    NoAdditionTwice
