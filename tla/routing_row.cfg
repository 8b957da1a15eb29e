CONSTANTS
    Chain = 2
    MaxRuns = 2
    MaxCalls = 2
    MaxDeltas = 2
SPECIFICATION Spec
INVARIANTS
    RowNamesServer
CHECK_DEADLOCK FALSE
