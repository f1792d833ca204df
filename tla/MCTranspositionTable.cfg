CONSTANTS
  k1 = k1
  k2 = k2
  k3 = k3
  m1 = m1
  m2 = m2
  Key = {k1, k2, k3}
  BucketWidth = 2
  BucketIndex = {1}
  index_for <- MCIndexFor
  BestMove = {m1, m2}
  NoMove = NoMove
  NoEntry = NoEntry
  MaxGeneration = 3
  StoreRequests <- MCStoreRequests
SPECIFICATION TableSpec
INVARIANTS
  OneEntryPerKeyAndKind
  GenerationIsTruthful
PROPERTIES
  SameKeyOnlyImproves
  EvictionIsLastResort
  ImplementsCache
