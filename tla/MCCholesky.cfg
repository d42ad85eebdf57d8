CONSTANTS
    Rows <- MCRows
    Gram <- Dot
    DiagEps <- Half
    MaxActive = 4
SPECIFICATION Spec
INVARIANT
    MatchesRefactor
PROPERTY
    FailsOnlyIfDependent
