CONSTANTS
  kScoreWin = 4
  kAspirationInitialWindow = 1
  kMaxPly = 4
  Limits <- MCLimits
SPECIFICATION Spec
INVARIANTS
  CompletedDepthIsExact
  StopLosesOneDepth
PROPERTIES
  WindowsOnlyWiden
  SearchReturns
CHECK_DEADLOCK FALSE
