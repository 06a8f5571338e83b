SPECIFICATION Spec
CONSTANTS
  Rates = {r44, r48}
  DefaultRate = r44
  NoSession = NoSession
INVARIANTS
  SessionAtHostRate
CHECK_DEADLOCK FALSE
