CONSTANTS
    NumBlocks = 2
    MLocal = 2
    MGlobal = 1
    NegInf <- MCNegInf
    NaN = NaN
    LocalViolation <- LocalRow
    GlobalViolation <- GlobalRow
    Parts <- MCParts
    Origin <- Zero
    Proposals <- MCProposals
    RightHandSides <- MCRightHandSides
    OptionSets <- WarmOption
    MaxActive = 3
    RhsPerTick = TRUE
    Moved <- PartMoved
    Factorable <- IsFactorable
    Multipliers <- TabledMultipliers
    LambdaNegativeTol = 0
    Combine <- TabledSolution
    TauRequired <- RequiredTau
    StrictTauFloor = 1
    Shrink <- ShrunkPoint
    RayPoints <- RayScaled
    Coef <- MCCoef
    DotError = 1
    Margin = 1
    BoundError = 3
    TauDen = 80
    TauInfinite = 100000
    RayRounding = 1
    ChangeTol = 0
SPECIFICATION HistorySpec
INVARIANT
    NeverCycles
