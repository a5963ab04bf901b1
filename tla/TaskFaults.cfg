CONSTANTS
  e1 = e1
  e2 = e2
  e3 = e3
  c1 = c1
  c2 = c2
  recurring = recurring
  oneshot1 = oneshot1
  None = None
  Tasks <- MCOneshotTask
  OneshotTasks <- MCOneshotTasks
  Executions <- MCTwoExecutions
  Callers <- MCOneCaller
  MaxCrashes = 1
  Overlaps = TRUE
  Late = TRUE
  TablesFail = TRUE
SPECIFICATION FairSpec
INVARIANTS
  TypeOK
  EntryIsLive
PROPERTIES
  ExecutionEnds
  RemovalEnds
