CONSTANTS
    NumBlocks = 3
    MLocal = 2
    MGlobal = 1
    NegInf <- MCNegInf
    NaN = NaN
    TreeLeafCount = 4
    MaxActive = 1
    LocalViolation <- MCLocalViolation
    GlobalViolation <- MCGlobalViolation
    Points <- MCPoints
    RightHandSides <- MCRightHandSides
SPECIFICATION Spec
INVARIANTS
    TypeOK
    TreeIsTournament
    AnswerIsWorst
    NaNHidesNoViolation
PROPERTY
    ImplementsOracleSpec
