SPECIFICATION FairSpec
CONSTANTS
    hd = hd
    Mounts = {hd}
    MaxMedia = 3
    MaxViewers = 2
CHECK_DEADLOCK FALSE
INVARIANTS
    FreedMountsAreQuiet
    BridgeFeedsTheMedia
    OneReferenceHeld
    PushTargetIsThere
PROPERTIES
    FeedsOneMediaAfterAnother
    MountIsReleased
