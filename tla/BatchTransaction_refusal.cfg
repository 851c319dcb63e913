SPECIFICATION Spec
CONSTANTS
  NumRows = 2
  Settings = {s1, s2}
  MaxRuns = 2
SYMMETRY SettingsSymmetry
INVARIANTS RefusalKeepsEvidence
CHECK_DEADLOCK FALSE
