\* Two dates of history and two symbols, the DAG and the script, an object
\* that is fetched again or a task that fails.
SPECIFICATION OneIncident
SYMMETRY SymbolSymmetry
CONSTANTS
    S = S
    T = T
    Symbols = {S, T}
    Attrs = {"a"}
    Days = 2
    DayLen = 2
    Shapes <- WholeOrShort
    ScriptFlags <- CompleteOnly
    Overlap = FALSE
    Start = 4
    MaxNow = 4
    MaxRefetches = 1
    MaxChanges = 0
    MaxScripts = 1
    MaxFaults = 1
INVARIANTS
    DayIsOneLoad
PROPERTIES
    ReplacesWholeDays
    FactCoversRaw
