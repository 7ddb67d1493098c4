SPECIFICATION Spec
CONSTANTS
    CapsValues = {vga, hd}
    DefaultCaps = vga
    NoCaps = NoCaps
CHECK_DEADLOCK FALSE
INVARIANTS
    NoDanglingPointer
    SetupAllOrNothing
    WatchWithinPipeline
    CapsAreCurrent
PROPERTIES
    KeepsPipelineLife
    NoOverlappingChanges
    FailureNeedsRebuild
