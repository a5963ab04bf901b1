CONSTANTS
  e1 = e1
  e2 = e2
  e3 = e3
  c1 = c1
  c2 = c2
  recurring = recurring
  oneshot1 = oneshot1
  None = None
  Tasks <- MCTasks
  OneshotTasks <- MCOneshotTasks
  Executions <- MCExecutions
  Callers <- MCOneCaller
  MaxCrashes = 1
  Overlaps = FALSE
  Late = TRUE
  TablesFail = FALSE
SPECIFICATION Spec
SYMMETRY MCSymmetry
INVARIANTS
  OneExecution
  RunningRowIsLive
PROPERTY OutcomeIsFinal
