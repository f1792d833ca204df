CONSTANTS
  BoardSize = 8
  UnrolledRuns = 6
  Regions <- MCRegions
SPECIFICATION Spec
INVARIANTS
  LoopsComputeTheRules
  UnrolledMatchesReference
CHECK_DEADLOCK FALSE
