-------------------------- MODULE AgentPoolHistory --------------------------
(***************************************************************************)
(* AgentPool with a history variable, for the order in which the tasks of  *)
(* a session are served.  The history never constrains a step.             *)
(***************************************************************************)
EXTENDS AgentPool

VARIABLE joinedBefore   \* tasks of t's session that queued before t and still wait

\* In the queue for a slot or for the session lock.
Joined == {"semWait", "semGranted", "lockWait"}

HInit ==
  /\ Init
  /\ joinedBefore = [t \in Tasks |-> {}]

JoinsNow(t) == pc[t] \notin Joined /\ pc'[t] \in Joined

Record ==
  joinedBefore' =
    [t \in Tasks |->
       (IF JoinsNow(t)
        THEN {u \in TasksOf(SessionOf[t]) \ {t} : pc[u] \in Joined}
        ELSE joinedBefore[t])
       \cap {u \in Tasks : pc'[u] \in Joined /\ u \notin cancelling'}]

HNext == Next /\ Record

HSpec == HInit /\ [][HNext]_<<vars, joinedBefore>>

-----------------------------------------------------------------------------

\* First come, first served within a session, through both the semaphore and
\* the session lock: a task that holds the lock has no live task of its
\* session that had queued before it.  (A task still broadcasting "queued"
\* has not queued yet and may be overtaken.)
JoinOrder ==
  \A t \in Tasks : pc[t] \in Holding => joinedBefore[t] = {}
=============================================================================
