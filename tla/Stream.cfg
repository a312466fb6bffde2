\* Two symbols in partitions of their own, a queue of two messages, a heartbeat
\* every other trade, and any two incidents.
SPECIFICATION MCSpec
CONSTANTS
    A = A
    B = B
    Symbols = {A, B}
    Partitions = {0, 1}
    PartitionOf <- OwnPartition
    QueueMax = 2
    HeartbeatEvery = 2
    BackoffMin = 1
    BackoffMax = 3
    MaxTrades = 3
    MaxIncidents = 2
    WsStale = 1
    AggStale = 2
    Period = 3
    MaxWindows = 2
INVARIANTS
    DropsAreCounted
PROPERTIES
    PublishesInOrder
    FullStaysFull
    ComesBack
    OkMeansWindows
    StalledMeansNone
    StallReported
    FreshMeansAccepted
CHECK_DEADLOCK FALSE
