CONSTANTS
  BoardSize = 4
  MaxPly = 6
  RootPositions <- MCRootPositions
SPECIFICATION Spec
INVARIANTS
  KeyIsPositionHash
  LegalMaskIsFresh
  MaskMovesAreLegal
  WalkIsLegal
PROPERTIES
  UndoRestores
CHECK_DEADLOCK FALSE
