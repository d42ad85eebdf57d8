CONSTANTS
    Lines <- MCLines
    Fields <- MCFields
    Defaults <- MCDefaults
    Previous <- MCPrevious
    MaxLines = 4
    IntBits = 4
    LongBits = 6
SPECIFICATION Spec
INVARIANTS
    LoadedAsShown
    FailureIsClean
    NumbersWrap
CHECK_DEADLOCK FALSE
