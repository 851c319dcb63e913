SPECIFICATION HungSpec
CONSTANTS
    Result = "fit_result"
    MaxPayloads = 1
    PipeCapacity = 1
    LargePayloads = FALSE
    MaxFaults = 1
PROPERTIES
    CancellationStops
    ForceStopEnds
    ExitIsNoticed
    PollReturns
CHECK_DEADLOCK FALSE
