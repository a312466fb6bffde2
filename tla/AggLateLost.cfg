\* One partition, no fault, one symbol trailing beyond the grace period.
SPECIFICATION Spec
CONSTANTS
    A = A
    B = B
    C = C
    Symbols = {A, B}
    Partitions = {0}
    PartitionOf <- SamePartition
    MinuteLen = 2
    Grace = 1
    WrittenLimit = 0
    Skew = 3
    MaxTime = 3
    MaxLog = 4
    MaxFaults = 0
    MaxRejoins = 0
PROPERTIES
    LateStaysRecorded
