SPECIFICATION FairSpec
CONSTANTS
  Values = {0, 1}
  MaxConnects = 1
  MaxWire = 1
  Reuse = FALSE
  Faults = FALSE
PROPERTIES
  Reconnects
CHECK_DEADLOCK FALSE
