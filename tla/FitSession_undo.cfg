SPECIFICATION Spec
CONSTANTS
    Paths = {p}
    NoPath = NoPath
    MaxUndo = 2
    MaxContents = 3
    MaxRuns = 1
    MaxCloses = 0
    MaxDeeds = 1
    MaxCrashes = 0
    MaxFrames = 0
INVARIANT RunCanBeUndone
