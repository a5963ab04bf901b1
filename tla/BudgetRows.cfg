CONSTANTS
  r1 = r1
  r2 = r2
  s1 = s1
  deepseek = deepseek
  dashscope = dashscope
  NoLimit = NoLimit
  NoRequest = NoRequest
  Runs <- MCRuns
  Setters <- MCSetters
  Providers <- MCProviders
  Limits <- MCLimits
  MaxSteps = 2
  MaxCrashes = 1
SPECIFICATION Spec
SYMMETRY MCSymmetry
INVARIANTS
  TypeOK
  CountedOnce
PROPERTY ImplementsStore
CHECK_DEADLOCK FALSE
