----------------------------- MODULE MCAgentPool -----------------------------
(* Small instances of AgentPool for TLC. *)
EXTENDS AgentPool, TLC

CONSTANTS t1, t2, t3, s1, s2, office, coding

\* Two tasks of one session and one of another: a task waits for the lock of
\* its session, and with one or two slots a task waits for the semaphore.
MCTasks == {t1, t2, t3}
MCSessions == {s1, s2}
MCSessionOf == (t1 :> s1) @@ (t2 :> s1) @@ (t3 :> s2)
MCModes == {office, coding}
MCModeOf == [t \in MCTasks |-> coding]
=============================================================================
