SPECIFICATION Spec
CONSTANTS
    Result = "fit_result"
    MaxPayloads = 2
    PipeCapacity = 2
    LargePayloads = TRUE
    MaxFaults = 1
INVARIANTS
    TypeOK
    FaithfulPrefix
    BelievedOnlyIfComplete
    CleanExitBelieved
    ShownCheckpointIsSaved
    ForcedOnlyOnRequest
PROPERTIES
    ImplementsEventStream
CHECK_DEADLOCK FALSE
