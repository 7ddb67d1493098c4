SPECIFICATION Spec
CONSTANTS
    NumProfiles = 3
    MaxAttempts = 3
CHECK_DEADLOCK FALSE
INVARIANTS
    OffMeansClosed
