SPECIFICATION Spec
CONSTANTS
    Sizes = {2}
    N = 3
    MaxBatches = 1
    MaxCancels = 1
    MaxInterrupts = 0
PROPERTY CancelReachesUnstarted
