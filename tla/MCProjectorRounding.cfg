CONSTANTS
    NumBlocks = 3
    MLocal = 1
    MGlobal = 1
    NegInf <- MCNegInf
    NaN = NaN
    LocalViolation <- LocalRow
    GlobalViolation <- GlobalRow
    Parts <- MCParts
    Origin <- Zero
    Proposals <- MCProposals
    RightHandSides <- MCRightHandSides
    OptionSets <- MCOptionSets
    MaxActive = 3
    RhsPerTick = FALSE
    Moved <- PartMoved
    Factorable <- NoisyFactorable
    Multipliers <- SolvedMultipliers
    LambdaNegativeTol = 0
    Combine <- ActiveSolution
    TauRequired <- RequiredTau
    StrictTauFloor = 1
    Shrink <- ShrunkPoint
    RayPoints <- RayScaled
    Coef <- MCCoef
    DotError = 0
    Margin = 0
    BoundError = 0
    TauDen = 6
    TauInfinite = 100000
    RayRounding = 0
    ChangeTol = 0
SPECIFICATION Spec
INVARIANTS
    TypeOK
    MaskCoherent
    FactorCoherent
