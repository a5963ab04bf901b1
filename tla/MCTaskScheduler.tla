--------------------------- MODULE MCTaskScheduler ---------------------------
(* Small instances of TaskScheduler for TLC. *)
EXTENDS TaskScheduler, TLC

CONSTANTS e1, e2, e3, c1, c2, recurring, oneshot1

MCTasks == {recurring, oneshot1}
MCOneshotTask == {oneshot1}
MCOneshotTasks == {oneshot1}
MCTwoExecutions == {e1, e2}
MCExecutions == {e1, e2, e3}
MCCallers == {c1, c2}
MCOneCaller == {c1}
MCSymmetry == Permutations(MCExecutions)
=============================================================================
