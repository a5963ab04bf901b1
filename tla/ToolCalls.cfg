CONSTANTS
  k1 = k1
  k2 = k2
  Keys <- MCKeys
  MaxCalls = 4
  MaxTurns = 3
  Permits = 3
  PerTurn = 3
  Threshold = 1
  MaxLevel = 2
  AuditFails = TRUE
SPECIFICATION Spec
INVARIANTS
  TypeOK
  OncePerTurn
PROPERTIES
  StaysOpen
  BatchEnds
CHECK_DEADLOCK FALSE
