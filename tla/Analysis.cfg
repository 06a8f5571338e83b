SPECIFICATION FairSpec
CONSTANTS
  Hold = 2
  Keepalive = 2
  MaxSleep = 1
  MaxBack = 1
  MaxPresses = 1
INVARIANTS
  PublishedIsSent
PROPERTIES
  SilenceHolds
  VtsShowsValue
CHECK_DEADLOCK FALSE
