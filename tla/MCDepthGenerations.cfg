CONSTANTS
  k1 = k1
  k2 = k2
  k3 = k3
  e1 = e1
  e2 = e2
  o1 = o1
  o2 = o2
  s1 = s1
  Key = {k1, k2, k3}
  BucketWidth = 2
  BucketIndex = {1}
  index_for <- MCIndexFor
  BestMove = {}
  NoMove = NoMove
  NoEntry = NoEntry
  MaxGeneration = 3
  StoreRequests <- MCStoreRequests
  Evaluator = {e1, e2}
  nullptr = nullptr
  MaxRevision = 1
  MaxDepth = 2
  EngineOptions = {o1, o2}
  ShadowOptions = {s1}
  NoFingerprint = NoFingerprint
  value <- MCValue
SPECIFICATION Spec
PROPERTIES
  DepthsAdvanceGeneration
