CONSTANTS
  t1 = t1
  t2 = t2
  t3 = t3
  t4 = t4
  s1 = s1
  office = office
  coding = coding
  NoMode = NoMode
  Tasks <- MCTasks
  Sessions <- MCSessions
  SessionOf <- MCSessionOf
  Modes <- MCModes
  ModeOf <- MCModeOf
  DefaultMode = office
  MaxConcurrent = 2
  LongRuns = TRUE
SPECIFICATION HSpec
SYMMETRY MCSymmetry
INVARIANTS
  TypeOK
  SlotsConserved
  NoLostWakeup
  QueuedCountExact
  LockExclusive
  AgentKeptWhileStarting
  JoinOrder
