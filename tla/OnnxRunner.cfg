SPECIFICATION FairSpec
CONSTANTS
  NumClasses = 2
  WindowSamples = 3
  HopSamples = 2
  RequireFullWindow = TRUE
  MaxRuns = 3
  MaxCount = 8
  MaxPolls = 2
INVARIANTS
  BuffersStable
  PacedByHop
  NoUseAfterFree
  SlotNeverStuck
  OnlyLateResultLost
PROPERTIES
  RunEnds
  ImplementsSlot
CHECK_DEADLOCK FALSE
