SPECIFICATION Spec
CONSTANTS
    NumProfiles = 3
    Capacity = 1
INVARIANTS
    TypeOK
    EncoderIdleWhenOff
    StallNeedsEarlyOff
PROPERTIES
    StallIsPermanent
    OpenBranchesFlow
