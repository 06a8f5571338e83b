SPECIFICATION Spec
CHECK_DEADLOCK FALSE
CONSTANTS
  Pairs <- FallingPairs
  Batches = 1
  KeepLast = 2
  KeepBest = 2
  Scores = {1, 2, 3}
  MaxStarts = 3
INVARIANTS
  EpochLineage
  ResumeLoadable
  BestSurvives
  LastBounded
