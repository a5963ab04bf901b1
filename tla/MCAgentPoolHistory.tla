------------------------- MODULE MCAgentPoolHistory -------------------------
(* Small instances of AgentPoolHistory for TLC. *)
EXTENDS AgentPoolHistory, TLC

CONSTANTS t1, t2, t3, t4, s1, office, coding

MCSessions == {s1}
MCModes == {office, coding}

\* Four alike tasks of one session: with two slots, one task may run while a
\* second waits for its lock and two wait for a slot.
MCTasks == {t1, t2, t3, t4}
MCSessionOf == [t \in MCTasks |-> s1]
MCModeOf == [t \in MCTasks |-> coding]
MCSymmetry == Permutations(MCTasks)
=============================================================================
