SPECIFICATION Spec
CONSTANT MaxSize = 3
INVARIANTS
    ParsesWhatWasSent
    CutKeepsTheTarget
CHECK_DEADLOCK FALSE
