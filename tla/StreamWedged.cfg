\* One trade more than the queue holds, and no incident at all.
SPECIFICATION MCSpec
CONSTANTS
    A = A
    B = B
    Symbols = {A, B}
    Partitions = {0, 1}
    PartitionOf <- OwnPartition
    QueueMax = 2
    HeartbeatEvery = 2
    BackoffMin = 1
    BackoffMax = 3
    MaxTrades = 3
    MaxIncidents = 0
    WsStale = 1
    AggStale = 2
    Period = 3
    MaxWindows = 2
PROPERTIES
    RefusedMeansUndelivered
CHECK_DEADLOCK FALSE
