CONSTANTS
  Node <- MCNode
  RootNode = "r"
  Setups <- MCSetups
  kScoreWin = 2
  MaxDepth = 4
  IidMinDepth = 2
  IidDepthReduction = 1
SPECIFICATION Spec
INVARIANTS
  TableIsTrue
  AnswersAreBounds
  RootAnswerIsTrue
  BestMoveIsLowestOptimal
  StoppedAnswerIsLowerBound
  PvIsLegal
  ReportsAreExact
CHECK_DEADLOCK FALSE
