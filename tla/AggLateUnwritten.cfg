\* Two partitions of a backlog in event-time order, no fault.
SPECIFICATION Spec
CONSTANTS
    A = A
    B = B
    C = C
    Symbols = {A, B}
    Partitions = {0, 1}
    PartitionOf <- OwnPartition
    MinuteLen = 2
    Grace = 1
    WrittenLimit = 0
    Skew = 0
    MaxTime = 3
    MaxLog = 3
    MaxFaults = 0
    MaxRejoins = 0
INVARIANTS
    LateMeansWritten
