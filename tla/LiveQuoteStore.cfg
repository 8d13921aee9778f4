SPECIFICATION Spec
CONSTANTS
  a = a
  b = b
  Keys = {1, 2}
  Offers = {a, b}
  Batches <- MCBatches
  FreshnessWindow = 1
  SkewTolerance = 1
  MaxTime = 2
  MaxRevision = 2
  NoTimestamp = NoTimestamp
  NoVersion = NoVersion
INVARIANTS TypeOK NoImpossibleVersion ApplyOutcome BoundedRegression
PROPERTY EvictionInvisible
