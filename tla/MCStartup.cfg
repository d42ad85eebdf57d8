SPECIFICATION Spec
CONSTANTS
    Configs <- MCConfigs
    Launches <- MCLaunches
    OsqpEnabled = FALSE
INVARIANTS
    ExitOnlyWithoutVariables
    ValidRuns
    LayoutPartitions
    ContractHolds
    IdsDecode
    ClaimIsStructured
CHECK_DEADLOCK FALSE
