---------------------------- MODULE TaskScheduler ----------------------------
(***************************************************************************)
(* TaskScheduler (src/pandapal/task_scheduler/task_scheduler.py): timers   *)
(* start executions of stored tasks, an execution hands its instruction to *)
(* an agent in the background and waits for the result, and a record of    *)
(* each execution is kept in task_executions, which outlives the process.  *)
(*                                                                         *)
(* An action is what a coroutine does up to and including one statement on *)
(* the tables, or up to the point where it waits for something else.       *)
(***************************************************************************)
EXTENDS Naturals, FiniteSets

CONSTANTS
  Tasks,
  OneshotTasks,  \* tasks that unregister themselves after their execution
  Executions,    \* execution ids
  Callers,       \* concurrent calls that register or unregister a task
  None,
  MaxCrashes,    \* bound on the crashes of a behaviour
  Overlaps,      \* may a timer fire before the execution it has started
                 \* registers?
  Late,          \* may an agent outlast the task timeout?
  TablesFail     \* may a statement fail or time out?

ASSUME TaskAssumption ==
  /\ OneshotTasks \subseteq Tasks
  /\ Tasks # {}
  /\ Executions \cap Callers = {}
  /\ None \notin Executions
  /\ MaxCrashes \in Nat
  /\ {Overlaps, Late, TablesFail} \subseteq BOOLEAN

Procs == Executions \cup Callers

VARIABLES
  stored,      \* keys of task_definitions
  status,      \* task_executions: status of each record, "none" without one
  armed,       \* tasks with a timer in _cron_handles
  running,     \* _running_executions and _task_execution_map, kept in step
  futures,     \* keys of _pending_futures
  results,     \* futures that have their result
  agents,      \* executions whose agent is running in the background
  pc,          \* where each coroutine is
  task,        \* the task it is about
  oneshot,     \* executions wrapped in _execute_oneshot
  cancelled,   \* executions with a cancel() to be delivered
  victim,      \* the execution an unregistering coroutine awaits
  boot,        \* "up", or how far the startup has come
  stale,       \* the records the restore has still to look at, as it read them
  retried,     \* history: executions this startup has triggered again
  crashes

tables == <<stored, status>>
waits == <<running, futures, results, agents>>
locals == <<task, oneshot, victim>>
starting == <<boot, stale, retried, crashes>>
vars == <<tables, armed, waits, pc, locals, cancelled, starting>>

Starting == {"load", "create", "start"}
Registered == {"wait", "notify", "failing", "failedCast", "cancelling"}
Removing == {"reap", "waiting", "deleting"}
Final == {"completed", "failed", "cancelled"}

ExecutionStages == {"none", "done"} \cup Starting \cup Registered \cup Removing
CallerStages == {"idle", "saving"} \cup (Removing \ {"reap"})

TypeOK ==
  /\ stored \subseteq Tasks
  /\ status \in [Executions -> {"none", "pending", "running"} \cup Final]
  /\ armed \subseteq Tasks
  /\ running \in [Tasks -> Executions \cup {None}]
  /\ futures \subseteq Executions
  /\ results \subseteq futures
  /\ agents \subseteq Executions
  /\ pc \in [Procs -> ExecutionStages \cup CallerStages]
  /\ \A e \in Executions : pc[e] \in ExecutionStages
  /\ \A c \in Callers : pc[c] \in CallerStages
  /\ task \in [Procs -> Tasks]
  /\ oneshot \subseteq Executions
  /\ cancelled \subseteq Executions
  /\ victim \in [Procs -> Executions \cup {None}]
  /\ boot \in {"down", "restoring", "up"}
  /\ stale \in [Executions -> {"none", "pending", "running"}]
  /\ retried \subseteq Executions
  /\ crashes \in 0..MaxCrashes

\* The task of a coroutine that has none.
AnyTask == CHOOSE t \in Tasks : TRUE

NoneStale == [e \in Executions |-> "none"]

Init ==
  /\ stored = {}
  /\ status = [e \in Executions |-> "none"]
  /\ armed = {}
  /\ running = [t \in Tasks |-> None]
  /\ futures = {}
  /\ results = {}
  /\ agents = {}
  /\ pc = [p \in Procs |-> IF p \in Callers THEN "idle" ELSE "none"]
  /\ task = [p \in Procs |-> AnyTask]
  /\ oneshot = {}
  /\ cancelled = {}
  /\ victim = [p \in Procs |-> None]
  /\ boot = "up"
  /\ stale = NoneStale
  /\ retried = {}
  /\ crashes = 0

-----------------------------------------------------------------------------
(* The tables.                                                             *)

\* save_task_execution inserts or replaces ...
Save(e, s) == status' = [status EXCEPT ![e] = s]

\* ... update_task_execution_status changes the row if there is one.
Update(e, s) ==
  status' = [status EXCEPT ![e] = IF @ = "none" THEN "none" ELSE s]

DeleteRecords(t) ==
  status' = [e \in Executions |-> IF task[e] = t THEN "none" ELSE status[e]]

\* A statement that timed out may have taken effect all the same.
Fails(Effect) == TablesFail /\ (Effect \/ UNCHANGED status)

Goto(p, stage) == pc' = [pc EXCEPT ![p] = stage]

\* A call returns.
Return(c) ==
  /\ Goto(c, "idle")
  /\ task' = [task EXCEPT ![c] = AnyTask]
  /\ UNCHANGED <<oneshot, victim>>

-----------------------------------------------------------------------------
(* Triggers.                                                               *)

\* A coroutine for a new execution of t is started.
Spawn(e, t, wrapped) ==
  /\ pc[e] = "none"
  /\ Goto(e, "load")
  /\ task' = [task EXCEPT ![e] = t]
  /\ oneshot' = IF wrapped THEN oneshot \cup {e} ELSE oneshot
  /\ UNCHANGED victim

StartingOf(t) == {e \in Executions : task[e] = t /\ pc[e] \in Starting}

\* BL3: a task that is running is not triggered again.  Mutant: the check is
\* missing.
AlreadyRunningIgnored(t) == FALSE

AlreadyRunning(t) == running[t] # None

\* _on_cron_fire.  A recurring task is armed again, a one-shot task is not.
\* The entry of an execution comes late: one that a restart has triggered again
\* may be overtaken here before it registers.
Fire(t) ==
  /\ t \in armed
  /\ Overlaps \/ StartingOf(t) \subseteq retried
  /\ ~AlreadyRunning(t)
  /\ \E e \in Executions : Spawn(e, t, t \in OneshotTasks)
  /\ armed' = armed \ (OneshotTasks \cap {t})
  /\ UNCHANGED <<tables, waits, cancelled, starting>>

\* A one-shot task that is already running loses its timer and is skipped.
FireSkipped(t) ==
  /\ t \in armed \cap OneshotTasks
  /\ AlreadyRunning(t)
  /\ armed' = armed \ {t}
  /\ UNCHANGED <<tables, waits, pc, locals, cancelled, starting>>

-----------------------------------------------------------------------------
(* _execute_task                                                           *)

\* The finally block: the entry of the task goes, whoever registered it.
\* A wrapped one-shot execution that was not cancelled goes on to unregister.
\* Mutants: the entry of the task stays, and the future stays.
LeaveListed(e, next) ==
  /\ futures' = futures \ {e}
  /\ results' = results \ {e}
  /\ Goto(e, next)
  /\ cancelled' = cancelled \ {e}
  /\ UNCHANGED <<running, agents>>

LeaveWaitedFor(e, next) ==
  /\ running' = [running EXCEPT ![task[e]] = None]
  /\ Goto(e, next)
  /\ cancelled' = cancelled \ {e}
  /\ UNCHANGED <<futures, results, agents>>

Leave(e, next) ==
  /\ running' = [running EXCEPT ![task[e]] = None]
  /\ futures' = futures \ {e}
  /\ results' = results \ {e}
  /\ Goto(e, next)
  /\ cancelled' = cancelled \ {e}
  /\ UNCHANGED agents

After(e) == IF e \in oneshot THEN "reap" ELSE "done"

\* The definition is loaded; without one the execution is given up.
Load(e) ==
  /\ pc[e] = "load"
  /\ \/ /\ task[e] \in stored
        /\ Goto(e, "create")
        /\ UNCHANGED <<waits, cancelled>>
     \/ /\ TablesFail \/ task[e] \notin stored
        /\ Leave(e, After(e))
  /\ UNCHANGED <<tables, armed, locals, starting>>

\* The record is created, or the execution is given up.
Create(e) ==
  /\ pc[e] = "create"
  /\ \/ /\ Save(e, "pending")
        /\ Goto(e, "start")
        /\ UNCHANGED <<waits, cancelled>>
     \/ /\ Fails(Save(e, "pending"))
        /\ Leave(e, After(e))
  /\ UNCHANGED <<stored, armed, locals, starting>>

\* The record says running, the execution is registered, and an agent is
\* started for it in the background.
Start(e) ==
  /\ pc[e] = "start"
  /\ \/ /\ Update(e, "running")
        /\ running' = [running EXCEPT ![task[e]] = e]
        /\ futures' = futures \cup {e}
        /\ agents' = agents \cup {e}
        /\ Goto(e, "wait")
        /\ UNCHANGED results
     \/ /\ Fails(Update(e, "running"))
        /\ Goto(e, "failing")
        /\ UNCHANGED waits
  /\ UNCHANGED <<stored, armed, locals, cancelled, starting>>

\* The agent is done: resolve_task_execution, which ignores a late result.
\* Mutant: it keeps the late result.
AgentEndsLate(e) ==
  /\ e \in agents
  /\ agents' = agents \ {e}
  /\ results' = results \cup {e}
  /\ UNCHANGED <<tables, armed, running, futures, pc, locals, cancelled, starting>>

AgentEnds(e) ==
  /\ e \in agents
  /\ agents' = agents \ {e}
  /\ results' = results \cup (futures \cap {e})
  /\ UNCHANGED <<tables, armed, running, futures, pc, locals, cancelled, starting>>

\* The result is there and is recorded.
Complete(e) ==
  /\ pc[e] = "wait"
  /\ e \in results \ cancelled
  /\ \/ Save(e, "completed") /\ Goto(e, "notify")
     \/ Fails(Save(e, "completed")) /\ Goto(e, "failing")
  /\ UNCHANGED <<stored, armed, waits, locals, cancelled, starting>>

\* The task timeout expires, even if the result has just come in; the agent
\* goes on.  Mutants: there is no timeout, and it covers the notification.
TimesOutNever(e) == FALSE /\ UNCHANGED vars

TimesOutLater(e) ==
  /\ Late
  /\ pc[e] \in {"wait", "notify"}
  /\ e \notin cancelled
  /\ Goto(e, "failing")
  /\ UNCHANGED <<tables, armed, waits, locals, cancelled, starting>>

TimesOut(e) ==
  /\ Late
  /\ pc[e] = "wait"
  /\ e \notin cancelled
  /\ Goto(e, "failing")
  /\ UNCHANGED <<tables, armed, waits, locals, cancelled, starting>>

\* The notification is sent; the query it starts with may fail.
Notify(e) ==
  /\ pc[e] = "notify"
  /\ e \notin cancelled
  /\ \/ Leave(e, After(e))
     \/ /\ TablesFail
        /\ Goto(e, "failing")
        /\ UNCHANGED <<waits, cancelled>>
  /\ UNCHANGED <<tables, armed, locals, starting>>

\* A timeout or an error is recorded; failing at that is only logged.
RecordFailure(e) ==
  /\ pc[e] = "failing"
  /\ e \notin cancelled
  /\ \/ /\ Save(e, "failed")
        /\ Goto(e, "failedCast")
        /\ UNCHANGED <<waits, cancelled>>
     \/ /\ Fails(Save(e, "failed"))
        /\ Leave(e, After(e))
  /\ UNCHANGED <<stored, armed, locals, starting>>

NotifyFailure(e) ==
  /\ pc[e] = "failedCast"
  /\ e \notin cancelled
  /\ Leave(e, After(e))
  /\ UNCHANGED <<tables, armed, locals, starting>>

\* CancelledError: while it waits or notifies, the execution goes on to record
\* the cancellation; while it records something, it just leaves.
CancelDelivered(e) ==
  /\ e \in cancelled
  /\ \/ /\ pc[e] \in {"wait", "notify"}
        /\ Goto(e, "cancelling")
        /\ cancelled' = cancelled \ {e}
        /\ UNCHANGED <<status, waits>>
     \/ /\ pc[e] = "failing"
        /\ Save(e, "failed") \/ UNCHANGED status
        /\ Leave(e, "done")
     \/ /\ pc[e] = "failedCast"
        /\ Leave(e, "done")
        /\ UNCHANGED status
     \/ /\ pc[e] = "cancelling"
        /\ Update(e, "cancelled") \/ UNCHANGED status
        /\ Leave(e, "done")
  /\ UNCHANGED <<stored, armed, locals, starting>>

MarkCancelled(e) ==
  /\ pc[e] = "cancelling"
  /\ e \notin cancelled
  /\ Update(e, "cancelled") \/ Fails(Update(e, "cancelled"))
  /\ Leave(e, "done")
  /\ UNCHANGED <<stored, armed, locals, starting>>

-----------------------------------------------------------------------------
(* Registering and unregistering a task.                                   *)

\* register_task_definition of a new or a known task, already validated: its
\* timer is removed ...  The tools that call it are not used before the startup
\* is over, nor for one task by two calls at a time.
Register(c, t) ==
  /\ boot = "up"
  /\ pc[c] = "idle"
  /\ \A d \in Callers : pc[d] = "saving" => task[d] # t
  /\ Goto(c, "saving")
  /\ task' = [task EXCEPT ![c] = t]
  /\ armed' = armed \ {t}
  /\ UNCHANGED <<tables, waits, oneshot, victim, cancelled, starting>>

\* ... the definition is stored, and a new timer is armed.
SaveDefinition(c) ==
  /\ pc[c] = "saving"
  /\ \/ stored' = stored \cup {task[c]} /\ armed' = armed \cup {task[c]}
     \/ TablesFail /\ stored' \in {stored, stored \cup {task[c]}} /\ UNCHANGED armed
  /\ Return(c)
  /\ UNCHANGED <<status, waits, cancelled, starting>>

\* unregister_task_definition: a registered execution is cancelled and awaited;
\* without one the timer is removed at once.
BeginRemoval(p, t) ==
  /\ task' = [task EXCEPT ![p] = t]
  /\ victim' = [victim EXCEPT ![p] = running[t]]
  /\ IF AlreadyRunning(t)
     THEN /\ cancelled' = cancelled \cup {running[t]}
          /\ Goto(p, "waiting")
          /\ UNCHANGED armed
     ELSE /\ Goto(p, "deleting")
          /\ armed' = armed \ {t}
          /\ UNCHANGED cancelled
  /\ UNCHANGED <<tables, waits, oneshot, starting>>

Unregister(c, t) ==
  /\ boot = "up"
  /\ pc[c] = "idle"
  /\ BeginRemoval(c, t)

\* A one-shot task unregisters itself after its execution.
Reap(e) ==
  /\ pc[e] = "reap"
  /\ BeginRemoval(e, task[e])

\* The cancelled execution has ended.
VictimEnded(p) ==
  /\ pc[p] = "waiting"
  /\ pc[victim[p]] = "done"
  /\ armed' = armed \ {task[p]}
  /\ Goto(p, "deleting")
  /\ victim' = [victim EXCEPT ![p] = None]
  /\ UNCHANGED <<tables, waits, task, oneshot, cancelled, starting>>

\* The records and the definition are deleted.
Delete(p) ==
  /\ pc[p] = "deleting"
  /\ \/ DeleteRecords(task[p]) /\ stored' = stored \ {task[p]}
     \/ TablesFail /\ UNCHANGED stored /\ (DeleteRecords(task[p]) \/ UNCHANGED status)
  /\ IF p \in Callers THEN Return(p) ELSE Goto(p, "done") /\ UNCHANGED locals
  /\ UNCHANGED <<armed, waits, cancelled, starting>>

-----------------------------------------------------------------------------
(* Crash and startup.                                                      *)

Unfinished == [e \in Executions |->
                 IF status[e] \in {"pending", "running"} THEN status[e] ELSE "none"]

\* A restart starts an execution for each pending record: a behaviour in which
\* no execution id is left for one of them is not followed.
IdsSuffice ==
  Cardinality({e \in Executions : status[e] = "pending"})
    <= Cardinality({e \in Executions : pc[e] = "none"})

Crash ==
  /\ crashes < MaxCrashes
  /\ IdsSuffice
  /\ crashes' = crashes + 1
  /\ pc' = [p \in Procs |-> IF p \in Callers THEN "idle"
                            ELSE IF pc[p] = "none" THEN "none" ELSE "done"]
  /\ armed' = {}
  /\ running' = [t \in Tasks |-> None]
  /\ futures' = {}
  /\ results' = {}
  /\ agents' = {}
  /\ cancelled' = {}
  /\ task' = [p \in Procs |-> IF p \in Callers THEN AnyTask ELSE task[p]]
  /\ victim' = [p \in Procs |-> None]
  /\ boot' = "down"
  /\ stale' = NoneStale
  /\ retried' = {}
  /\ UNCHANGED <<tables, oneshot>>

\* _restore_pending_executions reads the records that are not final ...
ReadStale ==
  /\ boot = "down"
  /\ boot' = "restoring"
  /\ stale' \in {Unfinished} \cup (IF TablesFail THEN {NoneStale} ELSE {})
  /\ UNCHANGED <<tables, armed, waits, pc, locals, cancelled, retried, crashes>>

\* ... fails those that were running ...  Mutant: they are
\* passed over.
FailStaleSkips(e) ==
  /\ boot = "restoring"
  /\ stale[e] = "running"
  /\ stale' = [stale EXCEPT ![e] = "none"]
  /\ UNCHANGED <<tables, armed, waits, pc, locals, cancelled, boot, retried, crashes>>

FailStale(e) ==
  /\ boot = "restoring"
  /\ stale[e] = "running"
  /\ Update(e, "failed") \/ Fails(Update(e, "failed"))
  /\ stale' = [stale EXCEPT ![e] = "none"]
  /\ UNCHANGED <<stored, armed, waits, pc, locals, cancelled, boot, retried, crashes>>

\* ... and triggers the tasks of those that were pending, under a new id, and
\* without asking whether they run.  The record itself stays as it is.
RetryStale(e) ==
  /\ boot = "restoring"
  /\ stale[e] = "pending"
  /\ \E f \in Executions : Spawn(f, task[e], FALSE) /\ retried' = retried \cup {f}
  /\ stale' = [stale EXCEPT ![e] = "none"]
  /\ UNCHANGED <<tables, armed, waits, cancelled, boot, crashes>>

\* _load_and_register_all_tasks arms the timers of all stored tasks.
LoadTasks ==
  /\ boot = "restoring"
  /\ stale = NoneStale
  /\ boot' = "up"
  /\ armed' \in {armed \cup stored} \cup (IF TablesFail THEN {armed} ELSE {})
  /\ UNCHANGED <<tables, waits, pc, locals, cancelled, stale, retried, crashes>>

-----------------------------------------------------------------------------
(* The scheduler.                                                          *)

\* What an execution does once its agent runs, or without one.
ExecutionStep(e) ==
  \/ Load(e) \/ Create(e) \/ Start(e)
  \/ Complete(e) \/ Notify(e)
  \/ TimesOut(e) \/ RecordFailure(e) \/ NotifyFailure(e)
  \/ CancelDelivered(e) \/ MarkCancelled(e)
  \/ Reap(e)

RemovalStep(p) == VictimEnded(p) \/ Delete(p)

Startup ==
  \/ ReadStale
  \/ \E e \in Executions : FailStale(e) \/ RetryStale(e)
  \/ LoadTasks

Next ==
  \/ \E t \in Tasks : Fire(t) \/ FireSkipped(t)
  \/ \E e \in Executions : ExecutionStep(e) \/ AgentEnds(e)
  \/ \E c \in Callers : SaveDefinition(c) \/ \E t \in Tasks : Register(c, t) \/ Unregister(c, t)
  \/ \E p \in Procs : RemovalStep(p)
  \/ Crash
  \/ Startup

Spec == Init /\ [][Next]_vars

\* The event loop runs every coroutine that can go on, and statements and
\* notifications return or fail.  An agent need not end, a timer need not fire,
\* and the process need not come up again.
FairSpec ==
  /\ Spec
  /\ \A e \in Executions : WF_vars(ExecutionStep(e))
  /\ \A c \in Callers : WF_vars(SaveDefinition(c))
  /\ \A p \in Procs : WF_vars(RemovalStep(p))

-----------------------------------------------------------------------------
(* Properties.                                                             *)

\* The entry of a task names an execution of it that has yet to leave, and a
\* future is kept for no other: a later trigger is never skipped, nor a removal
\* delayed, for an execution that has ended.
EntryIsLive ==
  /\ \A t \in Tasks : running[t] # None =>
        task[running[t]] = t /\ pc[running[t]] \in Registered
  /\ \A e \in futures : pc[e] \in Registered

InProgress(t) == {e \in Executions : task[e] = t /\ pc[e] \in Starting \cup Registered}

\* Tasks that this startup has triggered again, without the check: timers and
\* the other pending records of such a task overtake it, and from then on its
\* executions may overlap until the next restart.
Loose == {task[e] : e \in retried}

\* BL3: of any other task there is one execution at a time.
OneExecution == \A t \in Tasks \ Loose : Cardinality(InProgress(t)) <= 1

\* Once the process is up, a record that says running is of an execution in
\* progress, or of a task that is being removed with its records.
Removed(t) == \E p \in Procs : task[p] = t /\ pc[p] \in {"waiting", "deleting"}

RunningRowIsLive ==
  boot = "up" =>
    \A e \in Executions :
      status[e] = "running" => pc[e] \in Registered \/ Removed(task[e])

\* BL1: the outcome on record does not change, except of a task that is being
\* removed.
OutcomeIsFinal ==
  [][\A e \in Executions :
        status[e] \in Final => status'[e] = status[e] \/ Removed(task[e])]_vars

\* An execution ends, even if its agent never does.
ExecutionEnds ==
  \A e \in Executions : (pc[e] # "none") ~> (pc[e] = "done")

\* Whoever removes a task gets to the end of it: it does not wait for an
\* execution that waits for it.
RemovalEnds ==
  \A c \in Callers : (pc[c] # "idle") ~> (pc[c] = "idle")

\* The scheduler implements TaskRuns: the executions of a task follow one
\* another, except of one that a restart has triggered again, and each closes
\* its record once, with its outcome, before it leaves.
Stage ==
  [e \in Executions |->
     IF pc[e] = "none" THEN "new"
     ELSE IF pc[e] \in Starting \cup Registered THEN "active" ELSE "over"]

Owner == [e \in Executions |-> task[e]]

Record ==
  [e \in Executions |-> IF status[e] \in {"pending", "running"} THEN "open" ELSE status[e]]

BeingRemoved == {t \in Tasks : Removed(t)}

Runs == INSTANCE TaskRuns WITH
  stage <- Stage, owner <- Owner, record <- Record, removing <- BeingRemoved,
  loose <- Loose

ImplementsTaskRuns == Runs!Spec
=============================================================================
