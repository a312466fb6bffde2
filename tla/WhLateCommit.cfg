\* The script loads while a run of the DAG builds.
SPECIFICATION Spec
SYMMETRY SymbolSymmetry
CONSTANTS
    S = S
    T = T
    Symbols = {S, T}
    Attrs = {"a"}
    Days = 2
    DayLen = 1
    Shapes <- WholeDays
    ScriptFlags <- CompleteOnly
    Overlap = TRUE
    Start = 2
    MaxNow = 2
    MaxRefetches = 0
    MaxChanges = 0
    MaxScripts = 1
    MaxFaults = 0
PROPERTIES
    FactCoversRaw
