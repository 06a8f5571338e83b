SPECIFICATION Spec
CONSTANTS
  Values = {0, 1}
  MaxConnects = 2
  MaxWire = 2
  Reuse = TRUE
  Faults = TRUE
INVARIANTS
  StreamDiscipline
  SteadyReadArmed
  RegistrationTruthful
  WriteFlagHasWrite
  WaitsForSomething
  AnswerComing
  TokenWhole
PROPERTIES
  ImplementsCell
CHECK_DEADLOCK FALSE
