SPECIFICATION Spec
CONSTANTS
  MaxCalls = 3
  MaxWidth = 2
  MaxRuns = 2
  MaxSteps = 4
  MaxAttempts = 2
  MaxFailures = 2
  MaxDenials = 2
  RepeatAt = 1
  MaxWarnings = 2
  AuditFails = TRUE
INVARIANTS
  TypeOK
  AllowedFirst
  StartedOnce
  TurnsAnswered
  RunIsCutOff
PROPERTIES
  ImplementsLifecycle
  RunEnds
CHECK_DEADLOCK FALSE
