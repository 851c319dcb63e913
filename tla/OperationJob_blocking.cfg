SPECIFICATION FairSpec
CONSTANTS
    Result = "fit_result"
    MaxPayloads = 1
    PipeCapacity = 1
    LargePayloads = TRUE
    MaxFaults = 0
PROPERTY PollReturns
CHECK_DEADLOCK FALSE
