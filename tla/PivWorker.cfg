SPECIFICATION FairSpec
CONSTANTS
    c1 = c1
    c2 = c2
    b1 = b1
    b2 = b2
    q1 = q1
    n1 = n1
    None = None
    Ids = {c1, c2}
    Brokers = {b1, b2}
    Settings <- MCSettings
    MaxChanges = 2
    MaxMessages = 2
    MaxFaults = 1
INVARIANTS
    TypeOK
    AckedIsDealtWith
PROPERTIES
    TakenInOrder
    SickWorkerStops
    SettlesOnConfig
    BacklogIsConsumed
