SPECIFICATION MCSpec
CONSTANTS
  Capacity = 4
  MaxBlock = 5
  MaxCount = 10
  Requests = {2, 3, 6}
  MaxRetries = 2
  Chunks = {2, 5}
INVARIANTS
  SnapshotTornOnlyByOverlap
  GaveUpOnlyWhenLapped
  CursorRunIntact
PROPERTIES
  DrainCatchesUp
  OnlyLostSkipped
