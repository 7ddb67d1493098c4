SPECIFICATION FairSpec
CONSTANTS
    NumProfiles = 1
    MaxStops = 1
    MaxMessages = 1
CHECK_DEADLOCK FALSE
PROPERTIES
    PipelineFailureEndsProgram
