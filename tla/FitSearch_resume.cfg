SPECIFICATION FairSpec
CONSTANTS
    Costs = {1, 20}
    Infinite = 999
    ThresholdRatio = 10
    BasePerturbations = 0
    FinalSeeds = 2
    RescuePaths = 2
    Refined = {20, 999}
    MaxRuns = 2
INVARIANTS CheckpointsResume ResumeIsExact BudgetKept ArchiveStaysDead
PROPERTIES StoreGrows SearchEnds
