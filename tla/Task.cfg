SPECIFICATION Spec
CONSTANTS
  Scripts = {"deadline", "and_then", "or_else", "map", "retry"}
  MaxAttempts = 3
  MaxChildren = 5
INVARIANTS OneWaker TokenReachesLeaf BlockOnResult
PROPERTIES BlockOnReturns
CHECK_DEADLOCK FALSE
