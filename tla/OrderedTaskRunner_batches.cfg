SPECIFICATION FairSpec
CONSTANTS
    Sizes = {1, 2}
    N = 2
    MaxBatches = 2
    MaxCancels = 1
    MaxInterrupts = 1
INVARIANTS ReportedOnce ReturnIsWhole ClosedIsQuiet
PROPERTIES EndedBatchStartsNothing RunEnds
