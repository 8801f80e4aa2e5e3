SPECIFICATION Spec
CONSTANTS
    w1 = w1
    w2 = w2
    Workers = {w1, w2}
    Feeds <- PlainFeeds
    Headsigns <- MCHeadsigns
    TrainId <- MCTrainId
    BaseTrips <- MCBaseTrips
    Stops <- MCStops
    Known <- MCKnown
    Margin = 1
    LastTime = 7
    None = None
INVARIANTS
    TypeOK
    AddedIsNew
    ToldIsOfAPiece
    ToldIsStored
PROPERTIES
    ForbiddenIsRefused
    SuppressedIsGone
