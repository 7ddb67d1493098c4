SPECIFICATION Spec
CONSTANTS
    Period = 4
    Patience = 5
    MaxErrors = 3
INVARIANT OverlapIsTheOnlyDanger
PROPERTIES
    FileIsWholeOrGivenUp
    DrainEnds
CHECK_DEADLOCK FALSE
