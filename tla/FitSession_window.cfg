SPECIFICATION Spec
CONSTANTS
    Paths = {p}
    NoPath = NoPath
    MaxUndo = 1
    MaxContents = 3
    MaxRuns = 2
    MaxCloses = 2
    MaxDeeds = 3
    MaxCrashes = 1
    MaxFrames = 3
INVARIANTS TypeOK CleanMeansOnDisk AutosavedWorkSurvives RunIsOneStep ShownAsTold WaitingHasAnEnd CloseIsSafe FramesKeepOrder
