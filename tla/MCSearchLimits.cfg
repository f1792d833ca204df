CONSTANTS
  Limits <- MCLimits
  CheckInterval = 3
  MaxNodes = 12
SPECIFICATION Spec
INVARIANTS
  BudgetIsKept
  StopHasReason
  StopIsPrompt
PROPERTIES
  StopIsFinal
