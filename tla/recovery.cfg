SPECIFICATION Spec
CONSTANT Limit = 3
INVARIANT EndIsOfTheCurrent
PROPERTIES
    AlarmsAreDue
    FrozenViewerIsReported
CHECK_DEADLOCK FALSE
