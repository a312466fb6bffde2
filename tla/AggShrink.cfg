\* One partition, symbols apart by no more than the grace period, one fault.
SPECIFICATION Spec
CONSTANTS
    A = A
    B = B
    C = C
    Symbols = {A, B}
    Partitions = {0}
    PartitionOf <- SamePartition
    MinuteLen = 2
    Grace = 1
    WrittenLimit = 0
    Skew = 1
    MaxTime = 3
    MaxLog = 4
    MaxFaults = 1
    MaxRejoins = 0
PROPERTIES
    BarsNeverShrink
