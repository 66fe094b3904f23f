SPECIFICATION FairSpec
CONSTANTS
    Producers = {p1, p2}
    QueueMax = 1
    BatchSize = 2
    Attempts = 2
    MaxEvents = 3
    WarnRaises = FALSE
INVARIANTS
    WithinBounds
    OneFate
    CloseDrains
PROPERTIES
    ImplementsDelivery
    EventsSettle
    StopEnds
CHECK_DEADLOCK FALSE
