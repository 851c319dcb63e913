SPECIFICATION Spec
CONSTANTS
  NumRows = 2
  Settings = {s1, s2}
  MaxRuns = 2
SYMMETRY SettingsSymmetry
INVARIANTS StopKeepsProgress CancelKeepsRunnable JointAllOrNothing UnfinishedKeepsResult SingleCheckpointsResume
PROPERTIES DecisionsStand
CHECK_DEADLOCK FALSE
