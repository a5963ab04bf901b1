CONSTANTS
  t1 = t1
  t2 = t2
  t3 = t3
  s1 = s1
  s2 = s2
  office = office
  coding = coding
  NoMode = NoMode
  Tasks <- MCTasks
  Sessions <- MCSessions
  SessionOf <- MCSessionOf
  Modes <- MCModes
  ModeOf <- MCModeOf
  DefaultMode = office
  MaxConcurrent = 2
  LongRuns = FALSE
SPECIFICATION FairSpec
INVARIANT SessionSequential
PROPERTIES
  ImplementsSlots
  QueuedIsServed
