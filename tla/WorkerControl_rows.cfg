SPECIFICATION FairSpec
CONSTANTS
    Rows = {r1, r2}
    r1 = r1
    r2 = r2
    w1 = w1
    w2 = w2
    Pool <- MCPool
    Stages = 2
    MaxRequests = 2
    MaxPauses = 1
INVARIANTS OneStagePerRequest
PROPERTIES NoStaleSkip CancelIsHeard PauseHalts
