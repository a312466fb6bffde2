\* Two partitions of one symbol each, three messages in any of them, a fault and a
\* rejoin, and symbols that may trail each other by more than the grace period: late
\* trades, replays and pruning all happen.
SPECIFICATION DeliverySpec
CONSTANTS
    A = A
    B = B
    C = C
    Symbols = {A, B}
    Partitions = {0, 1}
    PartitionOf <- OwnPartition
    MinuteLen = 1
    Grace = 1
    WrittenLimit = 0
    Skew = 4
    MaxTime = 2
    MaxLog = 3
    MaxFaults = 1
    MaxRejoins = 1
INVARIANTS
    TypeOK
    CommittedIsPersisted
    CommitBelowOpenWindows
    WrittenStaysGone
    LateHasCause
PROPERTIES
    DeliversAtLeastOnce
    FinishedMinutesReachStore
