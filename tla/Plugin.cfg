SPECIFICATION FairPluginSpec
CONSTANTS
  Rates = {r44, r48}
  DefaultRate = r44
  NoSession = NoSession
  Samples <- MCSamples
  Length <- MCLength
  MaxBlock = 2
INVARIANTS
  QuietMatchesParameter
  RestartServed
  SessionUnderFlag
  NoUpdateAfterTeardown
  PositionInSample
PROPERTIES
  RestartHappens
  SampleEnds
CHECK_DEADLOCK FALSE
