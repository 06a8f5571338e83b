SPECIFICATION Spec
CONSTANTS
  Rates = {r44, r48}
  DefaultRate = r44
  NoSession = NoSession
INVARIANTS
  ParameterHonoured
CHECK_DEADLOCK FALSE
