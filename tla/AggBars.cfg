\* Two symbols of one partition and a third in another: a fault at any step over minutes
\* in order, and none over symbols apart by up to the grace period.
SPECIFICATION BarsSpec
SYMMETRY PairSymmetry
CONSTANTS
    A = A
    B = B
    C = C
    Symbols = {A, B, C}
    Partitions = {0, 1}
    PartitionOf <- ThirdApart
    MinuteLen = 2
    Grace = 1
    WrittenLimit = 0
    Skew = 1
    MaxTime = 4
    MaxLog = 4
    MaxFaults = 1
    MaxRejoins = 0
INVARIANTS
    BarsWhole
    CommittedInBars
PROPERTIES
    BarsAreFinal
    CommitsAdvance
    StoresCandles
