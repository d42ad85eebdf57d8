CONSTANTS
    Sizes <- MCSizes
    LatencyTicks = 1
    FeasTicks = 3
    MaxRequests = 4
SPECIFICATION Spec
INVARIANTS
    LoopCountsProject
    TrapNamesFirst
    TotalsSplit
CHECK_DEADLOCK FALSE
