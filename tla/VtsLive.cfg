SPECIFICATION PumpedSpec
CONSTANTS
  Values = {0}
  MaxConnects = 1
  MaxWire = 1
  Reuse = FALSE
  Faults = FALSE
PROPERTIES
  InitialLinkRetried
  RegisterSettles
CHECK_DEADLOCK FALSE
