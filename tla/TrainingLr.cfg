SPECIFICATION Spec
CHECK_DEADLOCK FALSE
CONSTANTS
  Pairs <- FallingPairs
  Batches = 2
  KeepLast = 2
  KeepBest = 2
  Scores = {1}
  MaxStarts = 1
INVARIANTS
  LrHonoursPairs
