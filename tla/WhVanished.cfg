\* A date is fetched again, one minute short, and reloaded by the script.
SPECIFICATION Spec
CONSTANTS
    S = S
    T = T
    Symbols = {S}
    Attrs = {"a"}
    Days = 1
    DayLen = 2
    Shapes <- WholeOrShort
    ScriptFlags <- CompleteOnly
    Overlap = FALSE
    Start = 2
    MaxNow = 2
    MaxRefetches = 1
    MaxChanges = 0
    MaxScripts = 1
    MaxFaults = 0
PROPERTIES
    FactHoldsOnlyRaw
