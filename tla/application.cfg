SPECIFICATION FairSpec
CONSTANTS
    NumProfiles = 2
    MaxStops = 2
    MaxMessages = 2
CHECK_DEADLOCK FALSE
INVARIANTS
    ReferencesMatchOwners
    ExitFreesPipeline
PROPERTIES
    KeepsServerLife
    SignalTakenStopsLoop
    CaughtSignalEndsProgram
