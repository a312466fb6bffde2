\* One symbol that changes twice while its date arrives, whole or still in progress, is
\* corrected and loaded again, and a task fails.
SPECIFICATION FairSpec
CONSTANTS
    S = S
    T = T
    Symbols = {S}
    Attrs = {"a", "b"}
    Days = 1
    DayLen = 2
    Shapes <- WholeOrShort
    ScriptFlags <- CompleteOnly
    Overlap = FALSE
    Start = 0
    MaxNow = 2
    MaxRefetches = 1
    MaxChanges = 2
    MaxScripts = 1
    MaxFaults = 1
INVARIANTS
    TypeOK
    FactGrain
    FactAtItsVersion
    VersionsTile
    VersionsDiffer
PROPERTIES
    FactKeepsItsVersion
    CompleteDatesReachFact
    MetadataReachesDim
