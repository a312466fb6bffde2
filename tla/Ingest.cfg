\* One date of two symbols, three candles in two pages, and any two incidents.
SPECIFICATION FairSpec
CONSTANTS
    S = S
    T = T
    Symbols = {S, T}
    Days = 1
    DayLen = 3
    MinuteMs = 2
    Limit = 2
    Attempts = 2
    Retries = 1
    ActiveRuns = 1
    Workers = 1
    PerCent = 60
    Start = 2
    MaxNow = 4
    MaxIncidents = 2
INVARIANTS
    TypeOK
    ObjectsWhole
    ObjectsOfTheirDate
    GreenStaysComplete
    MissingMeansDelisted
    ExitZeroMeansStored
PROPERTIES
    FillsBronze
    DatesReachWarehouse
CHECK_DEADLOCK FALSE
