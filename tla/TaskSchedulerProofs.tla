------------------------ MODULE TaskSchedulerProofs ------------------------
(***************************************************************************)
(* Theorems about TaskScheduler, for any tasks, executions and callers,    *)
(* with every fault that the constants can turn on.                        *)
(***************************************************************************)
EXTENDS TaskScheduler, FiniteSetTheorems, TLAPS

-----------------------------------------------------------------------------
(* Type correctness, one lemma per group of actions.                       *)

LEMMA AnyTaskIsTask == AnyTask \in Tasks
BY TaskAssumption DEF TaskAssumption, AnyTask

\* The statements on the records keep the type of status.
LEMMA RecordTypes ==
  ASSUME TypeOK, NEW e \in Executions, NEW s \in {"pending", "running"} \cup Final,
         Save(e, s) \/ Update(e, s)
  PROVE  status' \in [Executions -> {"none", "pending", "running"} \cup Final]
BY DEF TypeOK, Save, Update

LEMMA TypeTrigger ==
  ASSUME TypeOK, NEW t \in Tasks, Fire(t) \/ FireSkipped(t)
  PROVE  TypeOK'
<1> USE TaskAssumption DEF TaskAssumption, TypeOK, Procs
<1>1. CASE Fire(t)
  BY <1>1 DEF Fire, Spawn, Goto, ExecutionStages, CallerStages, Starting, tables, waits, starting
<1>2. CASE FireSkipped(t)
  BY <1>2 DEF FireSkipped, tables, waits, locals, starting
<1>. QED
  BY <1>1, <1>2

\* Leaving keeps the types, wherever the coroutine goes on.
LEMMA TypeLeave ==
  ASSUME TypeOK, NEW e \in Executions, NEW next \in {"reap", "done"},
         Leave(e, next),
         status' \in [Executions -> {"none", "pending", "running"} \cup Final],
         UNCHANGED <<stored, armed, locals, starting>>
  PROVE  TypeOK'
BY TaskAssumption DEF TaskAssumption, TypeOK, Procs, Leave, Goto, ExecutionStages, Removing,
   locals, starting

\* So does going on to another stage.
LEMMA TypeGoto ==
  ASSUME TypeOK, NEW e \in Executions, NEW stage \in ExecutionStages, Goto(e, stage),
         status' \in [Executions -> {"none", "pending", "running"} \cup Final],
         cancelled' \subseteq Executions,
         UNCHANGED <<stored, armed, waits, locals, starting>>
  PROVE  TypeOK'
BY TaskAssumption DEF TaskAssumption, TypeOK, Procs, Goto, waits, locals, starting

\* So does a call or an execution that begins to remove a task.
LEMMA TypeRemoval ==
  ASSUME TypeOK, NEW p \in Procs, NEW t \in Tasks, BeginRemoval(p, t)
  PROVE  TypeOK'
<1> USE TaskAssumption DEF TaskAssumption, TypeOK, Procs
<1>1. CASE AlreadyRunning(t)
  BY <1>1 DEF BeginRemoval, AlreadyRunning, Goto, ExecutionStages, CallerStages, Removing,
     tables, waits, starting
<1>2. CASE ~AlreadyRunning(t)
  BY <1>2 DEF BeginRemoval, AlreadyRunning, Goto, ExecutionStages, CallerStages, Removing,
     tables, waits, starting
<1>. QED
  BY <1>1, <1>2

LEMMA TypeExecution ==
  ASSUME TypeOK, NEW e \in Executions, ExecutionStep(e)
  PROVE  TypeOK'
<1> DEFINE Statuses == {"none", "pending", "running"} \cup Final
<1> DEFINE Typed == status' \in [Executions -> Statuses]
<1>0. /\ After(e) \in {"reap", "done"}
      /\ cancelled \ {e} \subseteq Executions
  BY DEF After, TypeOK
<1>a. {"create", "start", "wait", "notify", "failing", "failedCast", "cancelling"}
        \subseteq ExecutionStages
  BY DEF ExecutionStages, Starting, Registered
<1>b. {"completed", "failed", "cancelled"} = Final
  BY DEF Final
<1>c. ASSUME NEW s \in {"pending", "running"} \cup Final,
             Save(e, s) \/ Update(e, s) \/ Fails(Save(e, s)) \/ Fails(Update(e, s))
                        \/ UNCHANGED status
      PROVE  Typed
  BY <1>0, <1>c, RecordTypes DEF Fails, TypeOK
<1>1. CASE Load(e)
  <2>1. Typed /\ cancelled' \subseteq Executions
    BY <1>1, <1>c DEF Load, Leave, tables, TypeOK
  <2>2. CASE Goto(e, "create") /\ UNCHANGED <<waits, cancelled>>
    BY <1>1, <2>1, <2>2, <1>a, TypeGoto DEF Load, tables
  <2>3. CASE Leave(e, After(e))
    BY <1>1, <2>1, <2>3, <1>0, TypeLeave DEF Load, tables
  <2>. QED
    BY <1>1, <2>2, <2>3 DEF Load
<1>2. CASE Create(e)
  <2>1. Typed /\ cancelled' \subseteq Executions
    BY <1>2, <1>c DEF Create, Leave, TypeOK
  <2>2. CASE Goto(e, "start") /\ UNCHANGED <<waits, cancelled>>
    BY <1>2, <2>1, <2>2, <1>a, TypeGoto DEF Create
  <2>3. CASE Leave(e, After(e))
    BY <1>2, <2>1, <2>3, <1>0, TypeLeave DEF Create
  <2>. QED
    BY <1>2, <2>2, <2>3 DEF Create
<1>3. CASE Start(e)
  <2>1. Typed
    BY <1>3, <1>c DEF Start
  <2>2. CASE Goto(e, "failing") /\ UNCHANGED waits
    BY <1>3, <2>1, <2>2, <1>a, TypeGoto DEF Start, TypeOK
  <2>3. CASE Goto(e, "wait") /\ ~UNCHANGED waits
    BY <1>3, <2>1, <2>3, TaskAssumption
    DEF Start, Goto, TypeOK, Procs, TaskAssumption, ExecutionStages, Registered, waits,
        locals, starting
  <2>. QED
    BY <1>3, <2>1, <2>2, <2>3, <1>a, TypeGoto DEF Start, TypeOK
<1>4. CASE Complete(e)
  <2>1. Typed
    BY <1>4, <1>b, <1>c DEF Complete
  <2>. QED
    BY <1>4, <2>1, <1>a, TypeGoto DEF Complete, TypeOK
<1>5. CASE Notify(e)
  <2>1. Typed /\ cancelled' \subseteq Executions
    BY <1>5, <1>c DEF Notify, Leave, tables, TypeOK
  <2>2. CASE Goto(e, "failing") /\ UNCHANGED <<waits, cancelled>>
    BY <1>5, <2>1, <2>2, <1>a, TypeGoto DEF Notify, tables
  <2>3. CASE Leave(e, After(e))
    BY <1>5, <2>1, <2>3, <1>0, TypeLeave DEF Notify, tables
  <2>. QED
    BY <1>5, <2>2, <2>3 DEF Notify
<1>6. CASE TimesOut(e)
  BY <1>6, <1>a, TypeGoto DEF TimesOut, tables, TypeOK
<1>7. CASE RecordFailure(e)
  <2>1. Typed /\ cancelled' \subseteq Executions
    BY <1>7, <1>b, <1>c DEF RecordFailure, Leave, TypeOK
  <2>2. CASE Goto(e, "failedCast") /\ UNCHANGED <<waits, cancelled>>
    BY <1>7, <2>1, <2>2, <1>a, TypeGoto DEF RecordFailure
  <2>3. CASE Leave(e, After(e))
    BY <1>7, <2>1, <2>3, <1>0, TypeLeave DEF RecordFailure
  <2>. QED
    BY <1>7, <2>2, <2>3 DEF RecordFailure
<1>8. CASE NotifyFailure(e)
  BY <1>8, <1>0, TypeLeave DEF NotifyFailure, tables, TypeOK
<1>9. CASE CancelDelivered(e)
  <2>1. Typed /\ cancelled' \subseteq Executions
    BY <1>9, <1>b, <1>c DEF CancelDelivered, Leave, TypeOK
  <2>2. CASE Goto(e, "cancelling") /\ UNCHANGED waits
    BY <1>9, <2>1, <2>2, <1>a, TypeGoto DEF CancelDelivered
  <2>3. CASE Leave(e, "done")
    BY <1>9, <2>1, <2>3, TypeLeave DEF CancelDelivered
  <2>. QED
    BY <1>9, <2>2, <2>3 DEF CancelDelivered
<1>10. CASE MarkCancelled(e)
  <2>1. Typed
    BY <1>10, <1>b, <1>c DEF MarkCancelled
  <2>. QED
    BY <1>10, <2>1, TypeLeave DEF MarkCancelled
<1>11. CASE Reap(e)
  BY <1>11, TypeRemoval DEF Reap, TypeOK, Procs
<1>. QED
  BY <1>1, <1>2, <1>3, <1>4, <1>5, <1>6, <1>7, <1>8, <1>9, <1>10, <1>11 DEF ExecutionStep

LEMMA TypeCaller ==
  ASSUME TypeOK, NEW c \in Callers,
         SaveDefinition(c) \/ \E t \in Tasks : Register(c, t) \/ Unregister(c, t)
  PROVE  TypeOK'
<1> USE TaskAssumption DEF TaskAssumption, TypeOK, Procs
<1>1. CASE SaveDefinition(c)
  BY <1>1, AnyTaskIsTask DEF SaveDefinition, Return, Goto, CallerStages, waits, starting
<1>2. ASSUME NEW t \in Tasks, Register(c, t)
      PROVE  TypeOK'
  BY <1>2 DEF Register, Goto, CallerStages, tables, waits, starting
<1>3. ASSUME NEW t \in Tasks, Unregister(c, t)
      PROVE  TypeOK'
  BY <1>3, TypeRemoval DEF Unregister
<1>. QED
  BY <1>1, <1>2, <1>3

LEMMA TypeRemovalStep ==
  ASSUME TypeOK, NEW p \in Procs, RemovalStep(p)
  PROVE  TypeOK'
<1> USE TaskAssumption DEF TaskAssumption, TypeOK, Procs
<1>1. CASE VictimEnded(p)
  BY <1>1 DEF VictimEnded, Goto, ExecutionStages, CallerStages, Removing, tables, waits, starting
<1>2. CASE Delete(p)
  <2>1. stored' \subseteq Tasks /\ status' \in [Executions -> {"none", "pending", "running"} \cup Final]
    BY <1>2 DEF Delete, DeleteRecords
  <2>2. CASE p \in Callers
    BY <1>2, <2>1, <2>2, AnyTaskIsTask DEF Delete, Return, Goto, CallerStages, waits, starting
  <2>3. CASE p \notin Callers
    BY <1>2, <2>1, <2>3 DEF Delete, Goto, ExecutionStages, waits, locals, starting
  <2>. QED
    BY <2>2, <2>3
<1>. QED
  BY <1>1, <1>2 DEF RemovalStep

LEMMA TypeCrash ==
  ASSUME TypeOK, Crash
  PROVE  TypeOK'
<1> USE TaskAssumption DEF TaskAssumption, TypeOK, Procs
<1>1. /\ pc' \in [Procs -> ExecutionStages \cup CallerStages]
      /\ \A e \in Executions : pc'[e] \in ExecutionStages
      /\ \A c \in Callers : pc'[c] \in CallerStages
  BY DEF Crash, ExecutionStages, CallerStages
<1>2. task' \in [Procs -> Tasks] /\ victim' \in [Procs -> Executions \cup {None}]
  BY AnyTaskIsTask DEF Crash
<1>3. crashes' \in 0..MaxCrashes
  BY DEF Crash
<1>. QED
  BY <1>1, <1>2, <1>3 DEF Crash, NoneStale, tables

LEMMA TypeStartup ==
  ASSUME TypeOK, Startup
  PROVE  TypeOK'
<1> USE TaskAssumption DEF TaskAssumption, TypeOK, Procs
<1>1. CASE ReadStale
  BY <1>1 DEF ReadStale, Unfinished, NoneStale, tables, waits, locals
<1>2. ASSUME NEW e \in Executions, FailStale(e)
      PROVE  TypeOK'
  <2>1. status' \in [Executions -> {"none", "pending", "running"} \cup Final]
    BY <1>2, RecordTypes DEF FailStale, Fails, Final
  <2>. QED
    BY <1>2, <2>1 DEF FailStale, waits, locals
<1>3. ASSUME NEW e \in Executions, RetryStale(e)
      PROVE  TypeOK'
  BY <1>3 DEF RetryStale, Spawn, Goto, ExecutionStages, Starting, tables, waits
<1>4. CASE LoadTasks
  BY <1>4 DEF LoadTasks, tables, waits, locals
<1>. QED
  BY <1>1, <1>2, <1>3, <1>4 DEF Startup

LEMMA TypeStep ==
  ASSUME TypeOK, [Next]_vars
  PROVE  TypeOK'
<1>1. CASE UNCHANGED vars
  BY <1>1 DEF vars, tables, waits, locals, starting, TypeOK
<1>2. ASSUME NEW e \in Executions, AgentEnds(e)
      PROVE  TypeOK'
  BY <1>2 DEF AgentEnds, tables, locals, starting, TypeOK
<1>. QED
  BY <1>1, <1>2, TypeTrigger, TypeExecution, TypeCaller, TypeRemovalStep, TypeCrash, TypeStartup
  DEF Next

LEMMA TypeInit ==
  ASSUME Init
  PROVE  TypeOK
<1> USE TaskAssumption DEF TaskAssumption, Init, TypeOK, Procs
<1>1. /\ pc \in [Procs -> ExecutionStages \cup CallerStages]
      /\ \A e \in Executions : pc[e] \in ExecutionStages
      /\ \A c \in Callers : pc[c] \in CallerStages
  BY DEF ExecutionStages, CallerStages
<1>2. task \in [Procs -> Tasks]
  BY AnyTaskIsTask
<1>. QED
  BY <1>1, <1>2 DEF NoneStale

\* Tables, timers, registered executions and coroutines keep their types; a
\* future that has its result is one that is still kept.
THEOREM TypeCorrect == Spec => []TypeOK
<1>1. Init => TypeOK
  BY TypeInit
<1>2. TypeOK /\ [Next]_vars => TypeOK'
  BY TypeStep
<1>. QED
  BY <1>1, <1>2, PTL DEF Spec

-----------------------------------------------------------------------------
(* Entries and futures are of executions that have yet to leave.           *)

\* A step that registers nobody, and by which no registered execution goes on
\* to anywhere but another registered stage.
Settled ==
  /\ \A t \in Tasks : running'[t] \in {running[t], None}
  /\ futures' \subseteq futures
  /\ \A e \in Executions :
       pc[e] \in Registered => pc'[e] \in Registered /\ task'[e] = task[e]

LEMMA SettledKeepsEntries ==
  ASSUME TypeOK, EntryIsLive, Settled
  PROVE  EntryIsLive'
BY DEF TypeOK, EntryIsLive, Settled

\* The finally block takes the entry of its task and its own future, so it
\* leaves none of an execution that is gone.
LEMMA LeaveKeepsEntries ==
  ASSUME TypeOK, EntryIsLive, NEW e \in Executions, NEW next, Leave(e, next), UNCHANGED task
  PROVE  EntryIsLive'
BY TaskAssumption DEF TaskAssumption, TypeOK, EntryIsLive, Leave, Goto, Procs

\* A coroutine goes on without touching the entries: to a stage in which it is
\* registered, or from one in which it was not.
LEMMA GotoKeepsEntries ==
  ASSUME TypeOK, EntryIsLive, NEW p \in Procs, NEW stage, Goto(p, stage),
         stage \in Registered \/ pc[p] \notin Registered,
         UNCHANGED waits,
         \A e \in Executions \ {p} : task'[e] = task[e],
         pc[p] \in Registered => task'[p] = task[p]
  PROVE  EntryIsLive'
<1>1. Settled
  BY TaskAssumption DEF TaskAssumption, Settled, Goto, waits, TypeOK, Procs
<1>. QED
  BY <1>1, SettledKeepsEntries

LEMMA EntryExecution ==
  ASSUME TypeOK, EntryIsLive, NEW e \in Executions, ExecutionStep(e)
  PROVE  EntryIsLive'
<1> USE DEF Starting, Registered, Procs, tables, locals
<1>1. CASE Load(e)
  BY <1>1, GotoKeepsEntries, LeaveKeepsEntries DEF Load
<1>2. CASE Create(e)
  BY <1>2, GotoKeepsEntries, LeaveKeepsEntries DEF Create
<1>3. CASE Start(e)
  <2>1. CASE Goto(e, "failing") /\ UNCHANGED waits
    BY <1>3, <2>1, GotoKeepsEntries DEF Start
  <2>2. CASE /\ running' = [running EXCEPT ![task[e]] = e]
             /\ futures' = futures \cup {e}
             /\ Goto(e, "wait")
    BY <1>3, <2>2, TaskAssumption DEF TaskAssumption, Start, Goto, EntryIsLive, TypeOK
  <2>. QED
    BY <1>3, <2>1, <2>2 DEF Start
<1>4. CASE Complete(e)
  BY <1>4, GotoKeepsEntries DEF Complete
<1>5. CASE Notify(e)
  BY <1>5, GotoKeepsEntries, LeaveKeepsEntries DEF Notify
<1>6. CASE TimesOut(e)
  BY <1>6, GotoKeepsEntries DEF TimesOut
<1>7. CASE RecordFailure(e)
  BY <1>7, GotoKeepsEntries, LeaveKeepsEntries DEF RecordFailure
<1>8. CASE NotifyFailure(e)
  BY <1>8, LeaveKeepsEntries DEF NotifyFailure
<1>9. CASE CancelDelivered(e)
  BY <1>9, GotoKeepsEntries, LeaveKeepsEntries DEF CancelDelivered
<1>10. CASE MarkCancelled(e)
  BY <1>10, LeaveKeepsEntries DEF MarkCancelled
<1>11. CASE Reap(e)
  BY <1>11, GotoKeepsEntries DEF Reap, BeginRemoval, TypeOK
<1>. QED
  BY <1>1, <1>2, <1>3, <1>4, <1>5, <1>6, <1>7, <1>8, <1>9, <1>10, <1>11 DEF ExecutionStep

LEMMA EntryOthers ==
  ASSUME TypeOK, EntryIsLive,
         \/ \E t \in Tasks : Fire(t) \/ FireSkipped(t)
         \/ \E e \in Executions : AgentEnds(e)
         \/ \E c \in Callers :
              SaveDefinition(c) \/ \E t \in Tasks : Register(c, t) \/ Unregister(c, t)
         \/ \E p \in Procs : RemovalStep(p)
  PROVE  EntryIsLive'
<1> USE DEF Starting, Registered, Procs, tables, locals
<1>1. ASSUME NEW t \in Tasks, Fire(t) \/ FireSkipped(t)
      PROVE  EntryIsLive'
  <2>1. CASE Fire(t)
    <3>1. PICK e \in Executions : Spawn(e, t, t \in OneshotTasks)
      BY <2>1 DEF Fire
    <3>. QED
      BY <2>1, <3>1, GotoKeepsEntries DEF Fire, Spawn, TypeOK
  <2>2. CASE FireSkipped(t)
    BY <2>2 DEF FireSkipped, EntryIsLive, waits
  <2>. QED
    BY <1>1, <2>1, <2>2
<1>2. ASSUME NEW e \in Executions, AgentEnds(e)
      PROVE  EntryIsLive'
  BY <1>2 DEF AgentEnds, EntryIsLive
<1>3. ASSUME NEW c \in Callers
      PROVE  /\ c \notin Executions
             /\ pc[c] \notin {"wait", "notify", "failing", "failedCast", "cancelling"}
  BY TaskAssumption DEF TaskAssumption, TypeOK, CallerStages, Removing
<1>4. ASSUME NEW c \in Callers, NEW t \in Tasks, Register(c, t) \/ Unregister(c, t)
      PROVE  EntryIsLive'
  BY <1>3, <1>4, GotoKeepsEntries DEF Register, Unregister, BeginRemoval, TypeOK
<1>5. ASSUME NEW c \in Callers, SaveDefinition(c)
      PROVE  EntryIsLive'
  BY <1>3, <1>5, GotoKeepsEntries DEF SaveDefinition, Return, TypeOK
<1>6. ASSUME NEW p \in Procs, RemovalStep(p)
      PROVE  EntryIsLive'
  <2>1. CASE VictimEnded(p)
    BY <2>1, GotoKeepsEntries DEF VictimEnded
  <2>2. CASE Delete(p)
    <3>1. UNCHANGED waits /\ pc[p] \notin Registered
      BY <2>2 DEF Delete
    <3>2. PICK stage : Goto(p, stage)
      BY <2>2 DEF Delete, Return
    <3>3. \A e \in Executions \ {p} : task'[e] = task[e]
      BY <2>2 DEF Delete, Return, TypeOK
    <3>. QED
      BY <3>1, <3>2, <3>3, GotoKeepsEntries
  <2>. QED
    BY <1>6, <2>1, <2>2 DEF RemovalStep
<1>. QED
  BY <1>1, <1>2, <1>4, <1>5, <1>6

LEMMA EntryStartup ==
  ASSUME TypeOK, EntryIsLive, Startup
  PROVE  EntryIsLive'
<1>1. ASSUME NEW e \in Executions, RetryStale(e)
      PROVE  EntryIsLive'
  <2>1. PICK f \in Executions : Spawn(f, task[e], FALSE)
    BY <1>1 DEF RetryStale
  <2>. QED
    BY <1>1, <2>1, GotoKeepsEntries DEF RetryStale, Spawn, Registered, Procs, TypeOK
<1>2. CASE ReadStale \/ LoadTasks \/ \E e \in Executions : FailStale(e)
  BY <1>2 DEF ReadStale, LoadTasks, FailStale, EntryIsLive, waits, locals
<1>. QED
  BY <1>1, <1>2 DEF Startup

LEMMA EntryStep ==
  ASSUME TypeOK, EntryIsLive, [Next]_vars
  PROVE  EntryIsLive'
<1>1. CASE UNCHANGED vars
  BY <1>1 DEF vars, waits, locals, EntryIsLive
<1>2. CASE Crash
  BY <1>2 DEF Crash, EntryIsLive
<1>. QED
  BY <1>1, <1>2, EntryExecution, EntryOthers, EntryStartup DEF Next

\* The entry of a task in _running_executions names an execution of that task
\* that has yet to leave, whatever fails, overlaps, is removed or restarted.
THEOREM EntriesAreLive == Spec => []EntryIsLive
<1>1. Init => EntryIsLive
  BY DEF Init, EntryIsLive
<1>2. TypeOK /\ EntryIsLive /\ [Next]_vars => EntryIsLive'
  BY EntryStep
<1>. QED
  BY <1>1, <1>2, TypeCorrect, PTL DEF Spec

-----------------------------------------------------------------------------
(* Outcomes are final, when no statement fails.                            *)

\* The record of an execution fits where its coroutine is, or where the restart
\* found it.
RecordFits ==
  \A e \in Executions :
    /\ pc[e] \in {"none", "load", "create"} => status[e] = "none"
    /\ pc[e] \in {"start", "wait", "failing"} => status[e] \notin Final
    /\ stale[e] = "running" => pc[e] = "done" /\ status[e] \notin Final

\* An execution is cancelled for somebody who removes its task and awaits it.
Awaited(e) ==
  \E p \in Procs : pc[p] = "waiting" /\ victim[p] = e /\ task[p] = task[e]

CancelFits ==
  \A e \in Executions :
    /\ e \in cancelled => pc[e] \in Registered
    /\ e \in cancelled \/ pc[e] = "cancelling" => Awaited(e)

\* Nothing goes on between a crash and the restart.
DownInv ==
  boot = "down" => armed = {} /\ \A p \in Procs : pc[p] \in {"idle", "none", "done"}

OutcomeInv == TypeOK /\ EntryIsLive /\ RecordFits /\ CancelFits /\ DownInv

-----------------------------------------------------------------------------
(* Records.                                                                *)

LEMMA RecordStep ==
  ASSUME ~TablesFail, TypeOK, RecordFits, DownInv, [Next]_vars
  PROVE  RecordFits'
<1> USE TaskAssumption DEF TaskAssumption, TypeOK, RecordFits, Procs
<1>1. CASE UNCHANGED vars
  BY <1>1 DEF vars, tables, starting
<1>2. ASSUME NEW t \in Tasks, Fire(t) \/ FireSkipped(t)
      PROVE  RecordFits'
  BY <1>2 DEF Fire, FireSkipped, Spawn, Goto, tables, starting
<1>3. ASSUME NEW e \in Executions, ExecutionStep(e)
      PROVE  RecordFits'
  <2> USE DEF Goto, Leave, After, tables, starting, Final
  <2>1. CASE Load(e)
    BY <2>1 DEF Load
  <2>2. CASE Create(e)
    BY <2>2 DEF Create, Save, Fails
  <2>3. CASE Start(e)
    BY <2>3 DEF Start, Update, Fails
  <2>4. CASE Complete(e)
    BY <2>4 DEF Complete, Save, Fails
  <2>5. CASE Notify(e) \/ NotifyFailure(e)
    BY <2>5 DEF Notify, NotifyFailure
  <2>6. CASE TimesOut(e)
    BY <2>6 DEF TimesOut
  <2>7. CASE RecordFailure(e)
    BY <2>7 DEF RecordFailure, Save, Fails
  <2>8. CASE CancelDelivered(e)
    BY <2>8 DEF CancelDelivered, Save, Update
  <2>9. CASE MarkCancelled(e)
    BY <2>9 DEF MarkCancelled, Update, Fails
  <2>10. CASE Reap(e)
    BY <2>10 DEF Reap, BeginRemoval
  <2>. QED
    BY <1>3, <2>1, <2>2, <2>3, <2>4, <2>5, <2>6, <2>7, <2>8, <2>9, <2>10 DEF ExecutionStep
<1>4. ASSUME NEW e \in Executions, AgentEnds(e)
      PROVE  RecordFits'
  BY <1>4 DEF AgentEnds, tables, starting
<1>5. ASSUME NEW c \in Callers, NEW t \in Tasks, Register(c, t) \/ Unregister(c, t)
      PROVE  RecordFits'
  BY <1>5 DEF Register, Unregister, BeginRemoval, Goto, tables, starting
<1>6. ASSUME NEW c \in Callers, SaveDefinition(c)
      PROVE  RecordFits'
  BY <1>6 DEF SaveDefinition, Return, Goto, starting
<1>7. ASSUME NEW p \in Procs, RemovalStep(p)
      PROVE  RecordFits'
  <2>1. CASE VictimEnded(p)
    BY <2>1 DEF VictimEnded, Goto, tables, starting
  <2>2. CASE Delete(p)
    BY <2>2 DEF Delete, DeleteRecords, Return, Goto, starting, Final
  <2>. QED
    BY <1>7, <2>1, <2>2 DEF RemovalStep
<1>8. CASE Crash
  BY <1>8 DEF Crash, NoneStale, tables
<1>9. CASE ReadStale
  <2>1. ASSUME NEW e \in Executions
        PROVE  pc[e] \in {"none", "done"}
    BY <1>9 DEF ReadStale, DownInv, ExecutionStages, Starting, Registered, Removing
  <2>2. ASSUME NEW e \in Executions, stale'[e] = "running"
        PROVE  status[e] = "running"
    BY <1>9, <2>2 DEF ReadStale, Unfinished, NoneStale
  <2>. QED
    BY <1>9, <2>1, <2>2 DEF ReadStale, tables, Final
<1>10. ASSUME NEW e \in Executions, FailStale(e) \/ RetryStale(e)
       PROVE  RecordFits'
  BY <1>10 DEF FailStale, RetryStale, Update, Fails, Spawn, Goto, tables
<1>11. CASE LoadTasks
  BY <1>11 DEF LoadTasks, tables
<1>. QED
  BY <1>1, <1>2, <1>3, <1>4, <1>5, <1>6, <1>7, <1>8, <1>9, <1>10, <1>11 DEF Next, Startup

-----------------------------------------------------------------------------
(* Cancellations.                                                          *)

\* Who waits goes on waiting for the same execution.
StillWaiting ==
  \A p \in Procs :
    pc[p] = "waiting" =>
      pc'[p] = "waiting" /\ victim'[p] = victim[p] /\ task'[p] = task[p]

\* A step that cancels nobody new keeps CancelFits, if nobody stops waiting and
\* only cancelled executions come to record a cancellation.
LEMMA CancelKept ==
  ASSUME CancelFits, StillWaiting,
         \A e \in Executions :
           /\ e \in cancelled' => e \in cancelled /\ pc'[e] \in Registered
           /\ pc'[e] = "cancelling" => e \in cancelled \/ pc[e] = "cancelling"
           /\ pc[e] \in Registered => task'[e] = task[e]
  PROVE  CancelFits'
<1>1. ASSUME NEW e \in Executions, e \in cancelled' \/ pc'[e] = "cancelling"
      PROVE  Awaited(e)'
  <2>1. e \in cancelled \/ pc[e] = "cancelling"
    BY <1>1
  <2>2. Awaited(e) /\ task'[e] = task[e]
    BY <2>1 DEF CancelFits, Registered
  <2>3. PICK p \in Procs : pc[p] = "waiting" /\ victim[p] = e /\ task[p] = task[e]
    BY <2>2 DEF Awaited
  <2>. QED
    BY <2>2, <2>3 DEF StillWaiting, Awaited
<1>. QED
  BY <1>1 DEF CancelFits

\* Beginning a removal cancels the registered execution for whoever removes.
LEMMA RemovalCancels ==
  ASSUME TypeOK, EntryIsLive, CancelFits, NEW p \in Procs, NEW t \in Tasks,
         pc[p] \in {"idle", "reap"}, BeginRemoval(p, t),
         p \in Executions => task[p] = t
  PROVE  CancelFits'
<1> USE TaskAssumption DEF TaskAssumption, TypeOK, Procs
<1>1. StillWaiting
  BY DEF StillWaiting, BeginRemoval, Goto
<1>2. ASSUME NEW e \in Executions
      PROVE  task'[e] = task[e] /\ (pc[e] \in Registered => pc'[e] = pc[e])
  BY DEF BeginRemoval, Goto, Registered
<1>3. ASSUME NEW e \in Executions, pc'[e] = "cancelling"
      PROVE  pc[e] = "cancelling"
  BY <1>3 DEF BeginRemoval, Goto
<1>4. CASE ~AlreadyRunning(t)
  BY <1>1, <1>2, <1>3, <1>4, CancelKept DEF BeginRemoval, CancelFits
<1>5. CASE AlreadyRunning(t)
  <2>1. PICK f \in Executions : f = running[t] /\ pc[f] \in Registered /\ task[f] = t
    BY <1>5 DEF AlreadyRunning, EntryIsLive
  <2>2. cancelled' = cancelled \cup {f}
    BY <1>5, <2>1 DEF BeginRemoval
  <2>3. pc'[p] = "waiting" /\ victim'[p] = f /\ task'[p] = t
    BY <1>5, <2>1 DEF BeginRemoval, Goto
  <2>4. Awaited(f)'
    BY <1>2, <2>1, <2>3 DEF Awaited
  <2>5. ASSUME NEW e \in Executions, e \in cancelled \/ pc[e] = "cancelling"
        PROVE  Awaited(e)'
    <3>1. PICK q \in Procs : pc[q] = "waiting" /\ victim[q] = e /\ task[q] = task[e]
      BY <2>5 DEF CancelFits, Awaited
    <3>. QED
      BY <1>1, <1>2, <3>1 DEF StillWaiting, Awaited
  <2>6. ASSUME NEW e \in Executions, e \in cancelled'
        PROVE  pc'[e] \in Registered
    BY <1>2, <2>1, <2>2, <2>6 DEF CancelFits
  <2>7. ASSUME NEW e \in Executions, e \in cancelled' \/ pc'[e] = "cancelling"
        PROVE  Awaited(e)'
    BY <1>3, <2>2, <2>4, <2>5, <2>7
  <2>. QED
    BY <2>6, <2>7 DEF CancelFits
<1>. QED
  BY <1>4, <1>5

LEMMA CancelStep ==
  ASSUME TypeOK, EntryIsLive, CancelFits, [Next]_vars
  PROVE  CancelFits'
<1> USE TaskAssumption DEF TaskAssumption, TypeOK, Procs
<1>1. CASE UNCHANGED vars
  BY <1>1, CancelKept DEF vars, locals, StillWaiting, CancelFits
<1>2. ASSUME NEW t \in Tasks, Fire(t) \/ FireSkipped(t)
      PROVE  CancelFits'
  BY <1>2, CancelKept
  DEF Fire, FireSkipped, Spawn, Goto, StillWaiting, CancelFits, Registered, locals
<1>3. ASSUME NEW e \in Executions, ExecutionStep(e)
      PROVE  CancelFits'
  <2>1. CASE Reap(e)
    BY <2>1, RemovalCancels DEF Reap
  <2>2. CASE \/ Load(e) \/ Create(e) \/ Start(e) \/ Complete(e) \/ Notify(e)
             \/ TimesOut(e) \/ RecordFailure(e) \/ NotifyFailure(e)
             \/ CancelDelivered(e) \/ MarkCancelled(e)
    <3> USE DEF Load, Create, Start, Complete, Notify, TimesOut, RecordFailure, NotifyFailure,
                CancelDelivered, MarkCancelled, Leave, Goto, After, locals
    <3>1. UNCHANGED locals
      BY <2>2
    <3>2. \A p \in Procs \ {e} : pc'[p] = pc[p]
      BY <2>2
    <3>3. pc[e] # "waiting"
      BY <2>2 DEF Registered
    <3>4. \A f \in Executions \ {e} : f \in cancelled' <=> f \in cancelled
      BY <2>2
    <3>5. e \in cancelled' => e \in cancelled /\ pc'[e] \in Registered
      BY <2>2 DEF CancelFits, Registered
    <3>6. pc'[e] = "cancelling" => e \in cancelled \/ pc[e] = "cancelling"
      BY <2>2
    <3> USE DEF StillWaiting, CancelFits
    <3>. QED
      BY ONLY <3>1, <3>2, <3>3, <3>4, <3>5, <3>6, CancelFits, CancelKept
      DEF StillWaiting, CancelFits, locals, Procs
  <2>. QED
    BY <1>3, <2>1, <2>2 DEF ExecutionStep
<1>4. ASSUME NEW e \in Executions, AgentEnds(e)
      PROVE  CancelFits'
  BY <1>4, CancelKept DEF AgentEnds, locals, StillWaiting, CancelFits
<1>5. ASSUME NEW c \in Callers, NEW t \in Tasks, Register(c, t)
      PROVE  CancelFits'
  BY <1>5, CancelKept DEF Register, Goto, StillWaiting, CancelFits, Registered
<1>6. ASSUME NEW c \in Callers, NEW t \in Tasks, Unregister(c, t)
      PROVE  CancelFits'
  BY <1>6, RemovalCancels DEF Unregister
<1>7. ASSUME NEW c \in Callers, SaveDefinition(c)
      PROVE  CancelFits'
  BY <1>7, CancelKept DEF SaveDefinition, Return, Goto, StillWaiting, CancelFits, Registered
<1>8. ASSUME NEW p \in Procs, Delete(p)
      PROVE  CancelFits'
  <2>1. CASE p \in Callers
    BY <1>8, <2>1, CancelKept DEF Delete, Return, Goto, StillWaiting, CancelFits, Registered
  <2>2. CASE p \notin Callers
    BY <1>8, <2>2, CancelKept DEF Delete, Goto, StillWaiting, CancelFits, Registered, locals
  <2>. QED
    BY <2>1, <2>2
<1>9. ASSUME NEW p \in Procs, VictimEnded(p)
      PROVE  CancelFits'
  <2>1. ASSUME NEW e \in Executions, e \in cancelled' \/ pc'[e] = "cancelling"
        PROVE  pc'[e] \in Registered /\ Awaited(e)'
    <3>1. /\ e \in cancelled \/ pc[e] = "cancelling"
          /\ pc[e] \in Registered
          /\ pc'[e] = pc[e]
      BY <1>9, <2>1 DEF VictimEnded, Goto, CancelFits, Registered
    <3>2. PICK q \in Procs : pc[q] = "waiting" /\ victim[q] = e /\ task[q] = task[e]
      BY <3>1 DEF CancelFits, Awaited
    <3>3. q # p
      BY <1>9, <3>1, <3>2 DEF VictimEnded, Registered
    <3>. QED
      BY <1>9, <3>1, <3>2, <3>3 DEF VictimEnded, Goto, Awaited
  <2>. QED
    BY <2>1 DEF CancelFits
<1>10. CASE Crash
  BY <1>10 DEF Crash, CancelFits
<1>11. CASE ReadStale \/ LoadTasks \/ \E e \in Executions : FailStale(e)
  BY <1>11, CancelKept DEF ReadStale, LoadTasks, FailStale, StillWaiting, CancelFits, locals
<1>12. ASSUME NEW e \in Executions, RetryStale(e)
       PROVE  CancelFits'
  BY <1>12, CancelKept DEF RetryStale, Spawn, Goto, StillWaiting, CancelFits, Registered
<1>. QED
  BY <1>1, <1>2, <1>3, <1>4, <1>5, <1>6, <1>7, <1>8, <1>9, <1>10, <1>11, <1>12
  DEF Next, RemovalStep, Startup

-----------------------------------------------------------------------------
(* The theorem.                                                            *)

LEMMA DownStep ==
  ASSUME TypeOK, DownInv, [Next]_vars
  PROVE  DownInv'
<1> USE TaskAssumption DEF TaskAssumption, TypeOK, DownInv, Procs
<1>1. CASE boot = "down" /\ ~Startup /\ ~Crash
  <2>1. \A t \in Tasks : ~Fire(t) /\ ~FireSkipped(t)
    BY <1>1 DEF Fire, FireSkipped
  <2>2. \A e \in Executions : ~ExecutionStep(e)
    BY <1>1 DEF ExecutionStep, Load, Create, Start, Complete, Notify, TimesOut, RecordFailure,
       NotifyFailure, CancelDelivered, MarkCancelled, Reap
  <2>3. \A c \in Callers, t \in Tasks : ~Register(c, t) /\ ~Unregister(c, t)
    BY <1>1 DEF Register, Unregister
  <2>4. /\ \A c \in Callers : ~SaveDefinition(c)
        /\ \A p \in Procs : ~RemovalStep(p)
    BY <1>1 DEF SaveDefinition, RemovalStep, VictimEnded, Delete
  <2>. QED
    BY <1>1, <2>1, <2>2, <2>3, <2>4 DEF Next, AgentEnds, vars, starting
<1>2. CASE Startup
  BY <1>2 DEF Startup, ReadStale, FailStale, RetryStale, LoadTasks
<1>3. CASE Crash
  BY <1>3 DEF Crash, CallerStages
<1>4. CASE boot # "down" /\ ~Startup /\ ~Crash
  <2>1. UNCHANGED boot
    BY <1>4 DEF Next, vars, starting, Fire, FireSkipped, ExecutionStep, Load, Create, Start,
       Complete, Notify, TimesOut, RecordFailure, NotifyFailure, CancelDelivered, MarkCancelled,
       Reap, BeginRemoval, AgentEnds, SaveDefinition, Register, Unregister, RemovalStep,
       VictimEnded, Delete
  <2>. QED
    BY <1>4, <2>1
<1>. QED
  BY <1>1, <1>2, <1>3, <1>4

\* A step changes the outcome of an execution only while its task is removed.
LEMMA OutcomeStep ==
  ASSUME ~TablesFail, OutcomeInv, [Next]_vars, NEW f \in Executions, status[f] \in Final
  PROVE  status'[f] = status[f] \/ Removed(task[f])
<1> USE TaskAssumption DEF TaskAssumption, OutcomeInv, RecordFits, TypeOK, Procs
<1>1. CASE UNCHANGED status
  BY <1>1
<1>2. ASSUME NEW e \in Executions, ExecutionStep(e), status' # status
      PROVE  status'[f] = status[f] \/ Removed(task[f])
  <2>1. CASE e # f
    BY <1>2, <2>1 DEF ExecutionStep, Load, Create, Start, Complete, Notify, TimesOut,
       RecordFailure, NotifyFailure, CancelDelivered, MarkCancelled, Reap, BeginRemoval,
       Save, Update, Fails, tables
  <2>2. CASE e = f /\ (Create(e) \/ Start(e) \/ Complete(e) \/ RecordFailure(e))
    BY <2>2 DEF Create, Start, Complete, RecordFailure, Final
  <2>3. CASE e = f /\ (CancelDelivered(e) \/ MarkCancelled(e))
    <3>1. pc[f] # "failing"
      OBVIOUS
    <3>2. CASE pc[f] = "cancelling"
      BY <3>2 DEF CancelFits, Awaited, Removed
    <3>3. CASE pc[f] # "cancelling"
      BY <2>3, <3>1, <3>3 DEF CancelDelivered, MarkCancelled
    <3>. QED
      BY <3>2, <3>3
  <2>. QED
    BY <1>2, <2>1, <2>2, <2>3 DEF ExecutionStep, Load, Notify, TimesOut, NotifyFailure, Reap,
       BeginRemoval, tables
<1>3. ASSUME NEW p \in Procs, Delete(p)
      PROVE  status'[f] = status[f] \/ Removed(task[f])
  BY <1>3 DEF Delete, DeleteRecords, Removed
<1>4. ASSUME NEW e \in Executions, FailStale(e)
      PROVE  status'[f] = status[f]
  BY <1>4 DEF FailStale, Update, Fails
<1>. QED
  BY <1>1, <1>2, <1>3, <1>4 DEF Next, vars, tables, Fire, FireSkipped, AgentEnds,
     SaveDefinition, Register, Unregister, BeginRemoval, RemovalStep, VictimEnded, Crash,
     Startup, ReadStale, RetryStale, LoadTasks

LEMMA OutcomeInvAlways ==
  ASSUME ~TablesFail
  PROVE  Spec => []OutcomeInv
<1>1. Init => OutcomeInv
  <2>1. Init => RecordFits /\ CancelFits /\ DownInv
    BY TaskAssumption
    DEF TaskAssumption, Init, RecordFits, CancelFits, DownInv, Procs, NoneStale, Final
  <2>2. Init => EntryIsLive
    BY DEF Init, EntryIsLive
  <2>. QED
    BY <2>1, <2>2, TypeInit DEF OutcomeInv
<1>2. OutcomeInv /\ [Next]_vars => OutcomeInv'
  BY TypeStep, EntryStep, RecordStep, CancelStep, DownStep DEF OutcomeInv
<1>. QED
  BY <1>1, <1>2, PTL DEF Spec

\* BL1: if no statement fails, the outcome on record of an execution does not
\* change, unless its task is being removed.
THEOREM OutcomesAreFinal ==
  ASSUME ~TablesFail
  PROVE  Spec => OutcomeIsFinal
<1>1. OutcomeInv /\ [Next]_vars =>
        [\A e \in Executions :
           status[e] \in Final => status'[e] = status[e] \/ Removed(task[e])]_vars
  BY OutcomeStep
<1>. QED
  BY <1>1, OutcomeInvAlways, PTL DEF Spec, OutcomeIsFinal

-----------------------------------------------------------------------------
(* Running records are live, when no statement fails.                      *)

\* The stages in which the record may say that the execution runs.
Recorded == Registered \ {"notify", "failedCast"}

\* A record that says running is of an execution that has not recorded its
\* outcome, is among those that the startup has still to fail, or is about to
\* be deleted.
RunningRowFits ==
  boot # "down" =>
    \A e \in Executions :
      status[e] = "running" =>
        \/ pc[e] \in Recorded
        \/ boot = "restoring" /\ stale[e] = "running"
        \/ Removed(task[e])

RowInv == OutcomeInv /\ RunningRowFits

\* Who removes a task goes on removing it.
StillRemoving ==
  \A p \in Procs :
    pc[p] \in {"waiting", "deleting"} =>
      pc'[p] \in {"waiting", "deleting"} /\ task'[p] = task[p]

\* RunningRowFits is kept by a step that ends no removal, if a record that says
\* running afterwards is accounted for.
LEMMA RowKept ==
  ASSUME StillRemoving,
         \A e \in Executions :
           status'[e] = "running" =>
             \/ pc'[e] \in Recorded
             \/ boot' = "restoring" /\ stale'[e] = "running"
             \/ Removed(task[e]) /\ task'[e] = task[e]
  PROVE  RunningRowFits'
<1> SUFFICES ASSUME NEW e \in Executions, Removed(task[e]), task'[e] = task[e]
             PROVE  Removed(task[e])'
  BY DEF RunningRowFits
<1>1. Removed(task[e])' <=> \E p \in Procs : task'[p] = task'[e] /\ pc'[p] \in {"waiting", "deleting"}
  BY DEF Removed
<1>. QED
  BY <1>1 DEF Removed, StillRemoving

LEMMA RowExecution ==
  ASSUME ~TablesFail, RowInv, boot # "down", NEW e \in Executions, ExecutionStep(e)
  PROVE  RunningRowFits'
<1> USE TaskAssumption DEF TaskAssumption, TypeOK, Procs, Goto, Leave, After, Registered,
      Recorded, StillRemoving, tables, locals, starting
<1>0. TypeOK /\ RunningRowFits /\ RecordFits /\ CancelFits
  BY DEF RowInv, OutcomeInv
<1>1. CASE Load(e)
  BY <1>0, <1>1, RowKept DEF Load, RunningRowFits
<1>2. CASE Create(e)
  BY <1>0, <1>2, RowKept DEF Create, Save, Fails, RunningRowFits
<1>3. CASE Start(e)
  BY <1>0, <1>3, RowKept DEF Start, Update, Fails, RunningRowFits
<1>4. CASE Complete(e)
  BY <1>0, <1>4, RowKept DEF Complete, Save, Fails, RunningRowFits
<1>5. CASE Notify(e) \/ NotifyFailure(e)
  BY <1>0, <1>5, RowKept DEF Notify, NotifyFailure, RunningRowFits
<1>6. CASE TimesOut(e)
  BY <1>0, <1>6, RowKept DEF TimesOut, RunningRowFits
<1>7. CASE RecordFailure(e)
  BY <1>0, <1>7, RowKept DEF RecordFailure, Save, Fails, RunningRowFits
<1>8. CASE CancelDelivered(e)
  <2>1. Removed(task[e])
    BY <1>0, <1>8 DEF CancelDelivered, CancelFits, Awaited, Removed
  <2>. QED
    BY <1>0, <1>8, <2>1, RowKept DEF CancelDelivered, Save, Update, RunningRowFits
<1>9. CASE MarkCancelled(e)
  BY <1>0, <1>9, RowKept DEF MarkCancelled, Update, Fails, RunningRowFits
<1>10. CASE Reap(e)
  BY <1>0, <1>10, RowKept DEF Reap, BeginRemoval, RunningRowFits
<1>. QED
  BY <1>1, <1>2, <1>3, <1>4, <1>5, <1>6, <1>7, <1>8, <1>9, <1>10 DEF ExecutionStep

LEMMA RowStep ==
  ASSUME ~TablesFail, RowInv, [Next]_vars
  PROVE  RunningRowFits'
<1> USE TaskAssumption DEF TaskAssumption, TypeOK, Procs, Goto, Recorded, Registered,
      StillRemoving, tables, locals, starting
<1>0. TypeOK /\ RunningRowFits /\ RecordFits /\ DownInv
  BY DEF RowInv, OutcomeInv
<1>d. CASE boot' = "down"
  BY <1>d DEF RunningRowFits
<1>1. CASE UNCHANGED vars
  BY <1>0, <1>1, <1>d, RowKept DEF vars, RunningRowFits
<1>2. ASSUME NEW t \in Tasks, Fire(t) \/ FireSkipped(t)
      PROVE  RunningRowFits'
  BY <1>0, <1>2, <1>d, RowKept DEF Fire, FireSkipped, Spawn, RecordFits, RunningRowFits
<1>3. ASSUME NEW e \in Executions, ExecutionStep(e)
      PROVE  RunningRowFits'
  <2>1. CASE boot = "down"
    <3>1. pc[e] \in {"none", "done", "idle"}
      BY <1>0, <2>1 DEF DownInv
    <3>. QED
      BY <1>3, <3>1 DEF ExecutionStep, Load, Create, Start, Complete, Notify, TimesOut,
         RecordFailure, NotifyFailure, CancelDelivered, MarkCancelled, Reap
  <2>. QED
    BY <1>3, <2>1, RowExecution
<1>4. ASSUME NEW e \in Executions, AgentEnds(e)
      PROVE  RunningRowFits'
  BY <1>0, <1>4, <1>d, RowKept DEF AgentEnds, RunningRowFits
<1>5. ASSUME NEW c \in Callers, NEW t \in Tasks, Register(c, t) \/ Unregister(c, t)
      PROVE  RunningRowFits'
  BY <1>0, <1>5, <1>d, RowKept DEF Register, Unregister, BeginRemoval, RunningRowFits
<1>6. ASSUME NEW c \in Callers, SaveDefinition(c)
      PROVE  RunningRowFits'
  BY <1>0, <1>6, <1>d, RowKept DEF SaveDefinition, Return, RunningRowFits
<1>7. ASSUME NEW p \in Procs, VictimEnded(p)
      PROVE  RunningRowFits'
  BY <1>0, <1>7, <1>d, RowKept DEF VictimEnded, RunningRowFits
<1>8. ASSUME NEW p \in Procs, Delete(p)
      PROVE  RunningRowFits'
  BY <1>0, <1>8, <1>d DEF Delete, DeleteRecords, Return, Removed, RunningRowFits
<1>9. CASE Crash
  BY <1>9, <1>d DEF Crash
<1>10. CASE ReadStale
  BY <1>10 DEF ReadStale, Unfinished, RunningRowFits
<1>11. ASSUME NEW e \in Executions, FailStale(e)
       PROVE  RunningRowFits'
  BY <1>0, <1>11, RowKept DEF FailStale, Update, Fails, RunningRowFits
<1>12. ASSUME NEW e \in Executions, RetryStale(e)
       PROVE  RunningRowFits'
  BY <1>0, <1>12, RowKept DEF RetryStale, Spawn, RecordFits, RunningRowFits
<1>13. CASE LoadTasks
  BY <1>0, <1>13, RowKept DEF LoadTasks, NoneStale, RunningRowFits
<1>. QED
  BY <1>1, <1>2, <1>3, <1>4, <1>5, <1>6, <1>7, <1>8, <1>9, <1>10, <1>11, <1>12, <1>13
  DEF Next, RemovalStep, Startup

LEMMA RowInvAlways ==
  ASSUME ~TablesFail
  PROVE  Spec => []RunningRowFits
<1>1. Init => RunningRowFits
  BY DEF Init, RunningRowFits
<1>2. OutcomeInv /\ RunningRowFits /\ [Next]_vars => RunningRowFits'
  BY RowStep DEF RowInv
<1>. QED
  BY <1>1, <1>2, OutcomeInvAlways, PTL DEF Spec

\* If no statement fails, then once the process is up a record that says running
\* is of an execution in progress, or of a task that is being removed: neither
\* a crash nor a cancellation leaves one behind.
THEOREM RunningRowsAreLive ==
  ASSUME ~TablesFail
  PROVE  Spec => []RunningRowIsLive
<1>1. RunningRowFits => RunningRowIsLive
  BY DEF RunningRowFits, RunningRowIsLive, Recorded
<1>. QED
  BY <1>1, RowInvAlways, PTL

-----------------------------------------------------------------------------
(* BL3: one execution at a time of a task that this startup has not        *)
(* triggered again, when no statement fails and no timer overtakes the     *)
(* execution it has itself started.                                        *)

InProgressStages == Starting \cup Registered

OneInProgress ==
  \A e, f \in Executions :
    /\ task[e] = task[f]
    /\ task[e] \notin Loose
    /\ pc[e] \in InProgressStages
    /\ pc[f] \in InProgressStages
    => e = f

\* A registered execution is the entry of its task.
EntryKnown ==
  \A e \in Executions :
    pc[e] \in Registered /\ task[e] \notin Loose => running[task[e]] = e

\* An execution that has yet to begin has no history.
Unborn == \A e \in Executions : pc[e] = "none" => e \notin retried \cup oneshot

SingleInv == OneInProgress /\ EntryKnown /\ Unborn

\* An execution that has begun keeps its task.
LEMMA TasksKept ==
  ASSUME TypeOK, [Next]_vars, NEW f \in Executions, pc[f] # "none"
  PROVE  task'[f] = task[f] /\ pc'[f] # "none"
<1> USE TaskAssumption DEF TaskAssumption, TypeOK, Procs, Goto, locals
<1>1. CASE UNCHANGED vars
  BY <1>1 DEF vars
<1>2. ASSUME NEW t \in Tasks, Fire(t) \/ FireSkipped(t)
      PROVE  task'[f] = task[f] /\ pc'[f] # "none"
  BY <1>2 DEF Fire, FireSkipped, Spawn
<1>3. ASSUME NEW e \in Executions, ExecutionStep(e)
      PROVE  task'[f] = task[f] /\ pc'[f] # "none"
  BY <1>3 DEF ExecutionStep, Load, Create, Start, Complete, Notify, TimesOut, RecordFailure,
     NotifyFailure, CancelDelivered, MarkCancelled, Reap, BeginRemoval, Leave, After
<1>4. ASSUME NEW e \in Executions, AgentEnds(e) \/ FailStale(e) \/ RetryStale(e)
      PROVE  task'[f] = task[f] /\ pc'[f] # "none"
  BY <1>4 DEF AgentEnds, FailStale, RetryStale, Spawn
<1>5. ASSUME NEW c \in Callers, NEW t \in Tasks,
             SaveDefinition(c) \/ Register(c, t) \/ Unregister(c, t)
      PROVE  task'[f] = task[f] /\ pc'[f] # "none"
  BY <1>5 DEF SaveDefinition, Return, Register, Unregister, BeginRemoval
<1>6. ASSUME NEW p \in Procs, RemovalStep(p)
      PROVE  task'[f] = task[f] /\ pc'[f] # "none"
  BY <1>6 DEF RemovalStep, VictimEnded, Delete, Return
<1>7. CASE Crash \/ ReadStale \/ LoadTasks
  BY <1>7 DEF Crash, ReadStale, LoadTasks
<1>. QED
  BY <1>1, <1>2, <1>3, <1>4, <1>5, <1>6, <1>7 DEF Next, Startup

LEMMA UnbornStep ==
  ASSUME TypeOK, Unborn, [Next]_vars
  PROVE  Unborn'
<1> USE DEF Unborn
<1>1. \A e \in Executions : pc'[e] = "none" => pc[e] = "none"
  BY TasksKept
<1>2. CASE retried' \cup oneshot' \subseteq retried \cup oneshot
  BY <1>1, <1>2
<1>3. ASSUME NEW f \in Executions, NEW t, NEW wrapped, Spawn(f, t, wrapped),
             retried' \subseteq retried \cup {f}
      PROVE  Unborn'
  BY <1>1, <1>3 DEF Spawn, Goto, TypeOK, Procs
<1>4. ASSUME NEW e \in Executions, ExecutionStep(e)
      PROVE  Unborn'
  <2>1. UNCHANGED <<retried, oneshot>>
    BY <1>4 DEF ExecutionStep, Load, Create, Start, Complete, Notify, TimesOut, RecordFailure,
       NotifyFailure, CancelDelivered, MarkCancelled, Reap, BeginRemoval, locals, starting
  <2>. QED
    BY <2>1, <1>2
<1>5. ASSUME NEW e \in Executions, RetryStale(e)
      PROVE  Unborn'
  BY <1>3, <1>5 DEF RetryStale
<1>6. ASSUME NEW t \in Tasks, Fire(t)
      PROVE  Unborn'
  BY <1>3, <1>6 DEF Fire, starting
<1>. QED
  BY <1>2, <1>4, <1>5, <1>6 DEF Next, vars, locals, starting, FireSkipped, AgentEnds,
     SaveDefinition, Return, Register, Unregister, BeginRemoval, RemovalStep, VictimEnded, Delete,
     Crash, Startup, ReadStale, FailStale, LoadTasks

\* Only a startup that triggers a task again adds to the loose ones, and only a
\* crash takes them back.
LEMMA LooseKept ==
  ASSUME TypeOK, Unborn, [Next]_vars, UNCHANGED retried
  PROVE  Loose' = Loose
BY TasksKept DEF Loose, Unborn, TypeOK

LEMMA LooseAdded ==
  ASSUME TypeOK, Unborn, NEW e \in Executions, NEW f \in Executions, RetryStale(e),
         Spawn(f, task[e], FALSE), retried' = retried \cup {f}
  PROVE  Loose' = Loose \cup {task[e]}
<1>1. task'[f] = task[e] /\ f \notin retried
  BY DEF Spawn, Unborn, TypeOK, Procs
<1>2. \A g \in retried : task'[g] = task[g]
  BY <1>1 DEF Spawn, TypeOK, Procs
<1>. QED
  BY <1>1, <1>2 DEF Loose

\* A step that starts nobody and registers nobody: who is in progress was, and
\* who is registered has kept the entry of its task.
LEMMA SingleKept ==
  ASSUME TypeOK, SingleInv, Loose' = Loose,
         \A e \in Executions :
           pc'[e] \in InProgressStages => pc[e] \in InProgressStages /\ task'[e] = task[e],
         \A e \in Executions :
           pc'[e] \in Registered /\ task'[e] \notin Loose => running'[task'[e]] = e
  PROVE  OneInProgress' /\ EntryKnown'
BY DEF SingleInv, OneInProgress, EntryKnown

\* Starting an execution of a task that is loose, or of which none is in
\* progress.
LEMMA SingleSpawn ==
  ASSUME TypeOK, SingleInv, NEW t \in Tasks, NEW f \in Executions, NEW wrapped,
         Spawn(f, t, wrapped), UNCHANGED running, Loose \subseteq Loose',
         t \in Loose' \/ \A e \in Executions : task[e] = t => pc[e] \notin InProgressStages
  PROVE  OneInProgress' /\ EntryKnown'
<1>1. \A e \in Executions \ {f} : task'[e] = task[e] /\ pc'[e] = pc[e]
  BY DEF Spawn, Goto, TypeOK, Procs
<1>2. task'[f] = t /\ pc'[f] = "load"
  BY DEF Spawn, Goto, TypeOK, Procs
<1>3. OneInProgress'
  BY <1>1, <1>2 DEF SingleInv, OneInProgress
<1>4. EntryKnown'
  BY <1>1, <1>2 DEF SingleInv, EntryKnown, Registered
<1>. QED
  BY <1>3, <1>4

\* Leaving takes the entry of the task, which was the one of who leaves.
LEMMA SingleLeave ==
  ASSUME TypeOK, SingleInv, NEW e \in Executions, pc[e] \in InProgressStages, Loose' = Loose,
         NEW next, next \notin InProgressStages, Leave(e, next), UNCHANGED task
  PROVE  OneInProgress' /\ EntryKnown'
<1>1. \A f \in Executions :
        pc'[f] \in InProgressStages => f # e /\ pc'[f] = pc[f] /\ task'[f] = task[f]
  BY DEF Leave, Goto, TypeOK, Procs
<1>2. \A f \in Executions :
        pc'[f] \in InProgressStages /\ task[f] \notin Loose =>
          running'[task[f]] = running[task[f]]
  BY <1>1 DEF Leave, SingleInv, OneInProgress, TypeOK, Procs
<1>3. Registered \subseteq InProgressStages
  BY DEF InProgressStages
<1>. QED
  BY <1>1, <1>2, <1>3, SingleKept DEF SingleInv, EntryKnown

LEMMA SingleExecution ==
  ASSUME ~TablesFail, TypeOK, SingleInv, NEW e \in Executions, ExecutionStep(e)
  PROVE  OneInProgress' /\ EntryKnown'
<1> USE TaskAssumption
    DEF TaskAssumption, TypeOK, Procs, Goto, Starting, Registered, InProgressStages, tables, waits,
        locals
<1>0. After(e) \notin InProgressStages /\ Loose' = Loose
  <2>1. After(e) \notin InProgressStages
    BY DEF After
  <2>2. UNCHANGED <<retried, task>>
    BY DEF ExecutionStep, Load, Create, Start, Complete, Notify, TimesOut, RecordFailure,
       NotifyFailure, CancelDelivered, MarkCancelled, Reap, BeginRemoval, starting
  <2>. QED
    BY <2>1, <2>2 DEF Loose
<1>1. CASE Load(e)
  BY <1>0, <1>1, SingleKept, SingleLeave DEF Load, SingleInv, EntryKnown
<1>2. CASE Create(e)
  BY <1>0, <1>2, SingleKept DEF Create, Fails, SingleInv, EntryKnown
<1>3. CASE Start(e)
  <2>1. /\ pc[e] = "start" /\ pc' = [pc EXCEPT ![e] = "wait"]
        /\ running' = [running EXCEPT ![task[e]] = e]
        /\ task' = task
    BY <1>3 DEF Start, Fails
  <2>2. \A f \in Executions \ {e} :
         pc[f] \in Registered /\ task[f] \notin Loose => task[f] # task[e]
    BY <2>1 DEF SingleInv, OneInProgress
  <2>3. \A f \in Executions :
         pc'[f] \in Registered /\ task[f] \notin Loose => running'[task[f]] = f
    BY <2>1, <2>2 DEF SingleInv, EntryKnown
  <2>. QED
    BY <1>0, <2>1, <2>3, SingleKept
<1>4. CASE Complete(e)
  BY <1>0, <1>4, SingleKept DEF Complete, Fails, SingleInv, EntryKnown
<1>5. CASE Notify(e)
  BY <1>0, <1>5, SingleLeave DEF Notify
<1>6. CASE TimesOut(e)
  BY <1>0, <1>6, SingleKept DEF TimesOut, SingleInv, EntryKnown
<1>7. CASE RecordFailure(e)
  BY <1>0, <1>7, SingleKept DEF RecordFailure, Fails, SingleInv, EntryKnown
<1>8. CASE NotifyFailure(e)
  BY <1>0, <1>8, SingleLeave DEF NotifyFailure
<1>9. CASE CancelDelivered(e)
  <2>1. CASE Goto(e, "cancelling") /\ UNCHANGED waits
    BY <1>0, <1>9, <2>1, SingleKept DEF CancelDelivered, SingleInv, EntryKnown
  <2>2. CASE Leave(e, "done")
    BY <1>0, <1>9, <2>2, SingleLeave DEF CancelDelivered
  <2>. QED
    BY <1>9, <2>1, <2>2 DEF CancelDelivered
<1>10. CASE MarkCancelled(e)
  BY <1>0, <1>10, SingleLeave DEF MarkCancelled
<1>11. CASE Reap(e)
  BY <1>0, <1>11, SingleKept DEF Reap, BeginRemoval, SingleInv, EntryKnown
<1>. QED
  BY <1>1, <1>2, <1>3, <1>4, <1>5, <1>6, <1>7, <1>8, <1>9, <1>10, <1>11 DEF ExecutionStep

LEMMA SingleOthers ==
  ASSUME ~Overlaps, TypeOK, SingleInv, [Next]_vars,
         \A e \in Executions : ~ExecutionStep(e)
  PROVE  OneInProgress' /\ EntryKnown'
<1> USE TaskAssumption
    DEF TaskAssumption, TypeOK, Procs, Goto, Starting, Registered, InProgressStages, tables, waits,
        locals, starting
<1>0. UNCHANGED retried => Loose' = Loose
  BY LooseKept DEF SingleInv
<1>1. CASE UNCHANGED vars
  BY <1>0, <1>1, SingleKept DEF vars, SingleInv, EntryKnown
<1>2. ASSUME NEW t \in Tasks, Fire(t)
      PROVE  OneInProgress' /\ EntryKnown'
  <2>1. PICK f \in Executions : Spawn(f, t, t \in OneshotTasks)
    BY <1>2 DEF Fire
  <2>2. t \in Loose \/ \A e \in Executions : task[e] = t => pc[e] \notin InProgressStages
    <3>1. StartingOf(t) \subseteq retried /\ running[t] = None
      BY <1>2 DEF Fire, AlreadyRunning
    <3>2. t \in Loose \/ StartingOf(t) = {}
      BY <3>1 DEF StartingOf, Loose
    <3>. QED
      BY <3>1, <3>2 DEF StartingOf, SingleInv, EntryKnown
  <2>3. UNCHANGED <<running, retried>>
    BY <1>2 DEF Fire
  <2>. QED
    BY <1>0, <2>1, <2>2, <2>3, SingleSpawn
<1>3. ASSUME NEW t \in Tasks, FireSkipped(t)
      PROVE  OneInProgress' /\ EntryKnown'
  BY <1>0, <1>3, SingleKept DEF FireSkipped, SingleInv, EntryKnown
<1>4. ASSUME NEW e \in Executions, AgentEnds(e)
      PROVE  OneInProgress' /\ EntryKnown'
  BY <1>0, <1>4, SingleKept DEF AgentEnds, SingleInv, EntryKnown
<1>5. ASSUME NEW c \in Callers, NEW t \in Tasks, Register(c, t) \/ Unregister(c, t)
      PROVE  OneInProgress' /\ EntryKnown'
  BY <1>0, <1>5, SingleKept DEF Register, Unregister, BeginRemoval, SingleInv, EntryKnown
<1>6. ASSUME NEW c \in Callers, SaveDefinition(c)
      PROVE  OneInProgress' /\ EntryKnown'
  BY <1>0, <1>6, SingleKept DEF SaveDefinition, Return, SingleInv, EntryKnown
<1>7. ASSUME NEW p \in Procs, VictimEnded(p)
      PROVE  OneInProgress' /\ EntryKnown'
  BY <1>0, <1>7, SingleKept DEF VictimEnded, SingleInv, EntryKnown
<1>8. ASSUME NEW p \in Procs, Delete(p)
      PROVE  OneInProgress' /\ EntryKnown'
  BY <1>0, <1>8, SingleKept DEF Delete, Return, SingleInv, EntryKnown
<1>9. CASE Crash
  <2>1. \A e \in Executions : pc'[e] \notin InProgressStages
    BY <1>9 DEF Crash
  <2>. QED
    BY <2>1 DEF OneInProgress, EntryKnown
<1>10. CASE ReadStale \/ LoadTasks \/ \E e \in Executions : FailStale(e)
  BY <1>0, <1>10, SingleKept DEF ReadStale, LoadTasks, FailStale, SingleInv, EntryKnown
<1>11. ASSUME NEW e \in Executions, RetryStale(e)
       PROVE  OneInProgress' /\ EntryKnown'
  <2>1. PICK f \in Executions : Spawn(f, task[e], FALSE) /\ retried' = retried \cup {f}
    BY <1>11 DEF RetryStale
  <2>2. Loose' = Loose \cup {task[e]}
    BY <1>11, <2>1, LooseAdded DEF SingleInv
  <2>3. task[e] \in Tasks /\ UNCHANGED running
    BY <1>11 DEF RetryStale
  <2>. QED
    BY <2>1, <2>2, <2>3, SingleSpawn
<1>. QED
  BY <1>1, <1>2, <1>3, <1>4, <1>5, <1>6, <1>7, <1>8, <1>9, <1>10, <1>11
  DEF Next, RemovalStep, Startup

LEMMA SingleInvAlways ==
  ASSUME ~TablesFail, ~Overlaps
  PROVE  Spec => []SingleInv
<1>1. Init => SingleInv
  BY TaskAssumption
  DEF TaskAssumption, Init, SingleInv, OneInProgress, EntryKnown, Unborn,
      InProgressStages, Starting, Registered, Procs
<1>2. TypeOK /\ SingleInv /\ [Next]_vars => SingleInv'
  BY SingleExecution, SingleOthers, UnbornStep DEF SingleInv
<1>. QED
  BY <1>1, <1>2, TypeCorrect, PTL DEF Spec

\* BL3: if no statement fails, and no timer fires again before the execution it
\* has started registers, then of a task that this startup has not triggered
\* again at most one execution is in progress, however often the process
\* crashes.
THEOREM OneExecutionAtATime ==
  ASSUME ~TablesFail, ~Overlaps
  PROVE  Spec => []OneExecution
<1>1. SingleInv => OneExecution
  <2> SUFFICES ASSUME SingleInv, NEW t \in Tasks \ Loose
               PROVE  Cardinality(InProgress(t)) <= 1
    BY DEF OneExecution
  <2>1. \A e, f \in InProgress(t) : e = f
    BY DEF InProgress, SingleInv, OneInProgress, InProgressStages
  <2>2. CASE InProgress(t) = {}
    BY <2>2, FS_EmptySet
  <2>3. CASE InProgress(t) # {}
    <3>1. PICK e : e \in InProgress(t)
      BY <2>3
    <3>2. InProgress(t) = {e}
      BY <2>1, <3>1
    <3>. QED
      BY <3>2, FS_Singleton
  <2>. QED
    BY <2>2, <2>3
<1>. QED
  BY <1>1, SingleInvAlways, PTL

-----------------------------------------------------------------------------
(* The refinement of TaskRuns, under the assumptions of BL3.               *)

\* Once an execution has registered, its record does not say pending.
RegisteredRecorded == \A e \in Executions : pc[e] \in Registered => status[e] # "pending"

\* Until the startup is over no timer is armed, and nobody removes a task or is
\* about to.
BootQuiet ==
  boot # "up" =>
    /\ armed = {}
    /\ \A c \in Callers : pc[c] = "idle"
    /\ \A e \in Executions :
         pc[e] \notin Removing /\ (pc[e] \in InProgressStages => e \notin oneshot)

\* So a record that the startup has read as pending still is when its task is
\* triggered.
StalePending ==
  boot = "restoring" =>
    \A e \in Executions : stale[e] = "pending" => pc[e] = "done" /\ status[e] = "pending"

RunsInv == RowInv /\ SingleInv /\ RegisteredRecorded /\ BootQuiet /\ StalePending

\* A step in which nobody begins or ends to remove a task.
LEMMA RemovingSame ==
  ASSUME \A p \in Procs :
           /\ pc'[p] \in {"waiting", "deleting"} <=> pc[p] \in {"waiting", "deleting"}
           /\ pc[p] \in {"waiting", "deleting"} => task'[p] = task[p]
  PROVE  BeingRemoved' = BeingRemoved
BY DEF BeingRemoved, Removed

\* An execution in progress goes on, or leaves.
LEMMA StageGoes ==
  ASSUME TypeOK, NEW e \in Executions, NEW next, Goto(e, next), UNCHANGED <<task, retried>>,
         pc[e] \in InProgressStages, next \notin {"none", "waiting", "deleting"}
  PROVE  /\ Stage[e] = "active"
         /\ Stage' = IF next \in InProgressStages THEN Stage ELSE [Stage EXCEPT ![e] = "over"]
         /\ Owner' = Owner
         /\ BeingRemoved' = BeingRemoved
         /\ Loose' = Loose
<1> USE DEF Starting, Registered, InProgressStages, Goto, Procs
<1>1. BeingRemoved' = BeingRemoved
  BY RemovingSame DEF TypeOK
<1>2. Loose' = Loose
  BY DEF Loose
<1>. QED
  BY <1>1, <1>2 DEF Stage, Owner, TypeOK

LEMMA RecordSaved ==
  ASSUME TypeOK, NEW e \in Executions, NEW s, Save(e, s)
  PROVE  Record' = [Record EXCEPT ![e] = IF s \in {"pending", "running"} THEN "open" ELSE s]
BY DEF TypeOK, Save, Record

LEMMA RecordUpdated ==
  ASSUME TypeOK, NEW e \in Executions, NEW s, Update(e, s)
  PROVE  Record' = IF status[e] = "none" THEN Record
                   ELSE [Record EXCEPT ![e] = IF s \in {"pending", "running"} THEN "open" ELSE s]
BY DEF TypeOK, Update, Record

LEMMA RecordValues ==
  ASSUME TypeOK, NEW e \in Executions
  PROVE  /\ Record[e] = "open" <=> status[e] \in {"pending", "running"}
         /\ Record[e] \in Runs!Outcomes <=> status[e] \in Final
         /\ Record[e] = "none" <=> status[e] = "none"
         /\ Record = [Record EXCEPT ![e] = Record[e]]
BY DEF TypeOK, Record, Runs!Outcomes, Final

\* An execution that leaves ends with its record closed, or is cut off.
LEMMA RunsLeave ==
  ASSUME RunsInv, NEW e \in Executions, NEW next \in {"reap", "done"}, Leave(e, next),
         pc[e] \in InProgressStages, UNCHANGED <<task, retried>>,
         \/ UNCHANGED status /\ (Removed(task[e]) \/ status[e] \notin {"pending", "running"})
         \/ /\ Removed(task[e])
            /\ \E s \in Final : Save(e, s) \/ Update(e, s)
  PROVE  Runs!Next
<1>0. TypeOK
  BY DEF RunsInv, RowInv, OutcomeInv
<1>1. /\ Stage[e] = "active" /\ Stage' = [Stage EXCEPT ![e] = "over"]
      /\ Owner' = Owner /\ BeingRemoved' = BeingRemoved /\ Loose' = Loose
  BY <1>0, StageGoes DEF Leave, InProgressStages, Starting, Registered
<1>2. CASE UNCHANGED status /\ status[e] \notin {"pending", "running"}
  <2>1. Record' = Record /\ Record[e] # "open"
    BY <1>0, <1>2, RecordValues DEF Record
  <2>2. Runs!End(e)
    BY <1>1, <2>1 DEF Runs!End, Runs!Goes, BeingRemoved
  <2>. QED
    BY <2>2 DEF Runs!Next
<1>3. CASE Removed(task[e])
  <2>1. Owner[e] \in BeingRemoved
    BY <1>0, <1>3 DEF Owner, BeingRemoved, TypeOK, Procs
  <2>2. \E r \in Runs!Outcomes \cup {Record[e]} : Record' = [Record EXCEPT ![e] = r]
    <3>1. CASE UNCHANGED status
      <4>1. Record' = Record
        BY <3>1 DEF Record
      <4>. QED
        BY <1>0, <4>1, RecordValues
    <3>2. ASSUME NEW s \in Final, Save(e, s) \/ Update(e, s)
          PROVE  \E r \in Runs!Outcomes \cup {Record[e]} : Record' = [Record EXCEPT ![e] = r]
      <4>1. s \in Runs!Outcomes /\ s \notin {"pending", "running"}
        BY DEF Runs!Outcomes, Final
      <4>2. Record' = [Record EXCEPT ![e] = s] \/ Record' = Record
        BY <1>0, <3>2, <4>1, RecordSaved, RecordUpdated
      <4>. QED
        BY <1>0, <4>1, <4>2, RecordValues
    <3>. QED
      BY <3>1, <3>2
  <2>3. Runs!CutOff(e)
    BY <1>1, <2>1, <2>2 DEF Runs!CutOff, Runs!Goes, Runs!Sets, BeingRemoved
  <2>. QED
    BY <2>3 DEF Runs!Next
<1>. QED
  BY <1>2, <1>3

RunsVars == <<Stage, Owner, Record, BeingRemoved, Loose>>

\* An execution records its outcome and goes on.
LEMMA RunsClose ==
  ASSUME TypeOK, NEW e \in Executions, NEW s \in Final, NEW next \in Registered, Save(e, s),
         Goto(e, next), UNCHANGED <<task, retried>>, pc[e] \in InProgressStages,
         status[e] \notin Final
  PROVE  Runs!Next
<1>1. /\ Stage[e] = "active" /\ Stage' = Stage /\ Owner' = Owner
      /\ BeingRemoved' = BeingRemoved /\ Loose' = Loose
  BY StageGoes DEF InProgressStages, Registered
<1>2. /\ Record[e] \notin Runs!Outcomes
      /\ s \in Runs!Outcomes
      /\ Record' = [Record EXCEPT ![e] = s]
  BY RecordSaved, RecordValues DEF Runs!Outcomes, Final
<1>3. Runs!Close(e)
  BY <1>1, <1>2 DEF Runs!Close, Runs!Sets
<1>. QED
  BY <1>3 DEF Runs!Next

\* Who begins to remove a task is idle, or an execution that is over.
LEMMA RunsRemove ==
  ASSUME TypeOK, NEW p \in Procs, NEW t \in Tasks, BeginRemoval(p, t),
         pc[p] \in {"idle", "reap"},
         p \in Executions => t = task[p]
  PROVE  Runs!Next
<1>1. /\ pc'[p] \in {"waiting", "deleting"} /\ task'[p] = t /\ status' = status
      /\ \A q \in Procs \ {p} : pc'[q] = pc[q] /\ task'[q] = task[q]
  BY DEF BeginRemoval, Goto, TypeOK, tables
<1>2. BeingRemoved' = BeingRemoved \cup {t}
  BY <1>1 DEF BeingRemoved, Removed
<1>3. \A e \in Executions : task'[e] = task[e]
  BY <1>1 DEF Procs
<1>4. \A e \in Executions :
        pc'[e] = pc[e] \/ (pc[e] = "reap" /\ pc'[e] \in {"waiting", "deleting"})
  BY <1>1, TaskAssumption DEF TaskAssumption, Procs, TypeOK, ExecutionStages, Starting,
     Registered, Removing
<1>5. Stage' = Stage /\ Owner' = Owner /\ Record' = Record
  BY <1>1, <1>3, <1>4 DEF Stage, Owner, Record, Starting, Registered
<1>6. Loose' = Loose
  <2>1. UNCHANGED retried
    BY DEF BeginRemoval, starting
  <2>. QED
    BY <1>3, <2>1 DEF Loose, TypeOK
<1>7. Runs!Remove(t)
  BY <1>2, <1>5, <1>6 DEF Runs!Remove
<1>. QED
  BY <1>7 DEF Runs!Next

LEMMA RunsExecution ==
  ASSUME ~TablesFail, RunsInv, NEW e \in Executions, ExecutionStep(e)
  PROVE  [Runs!Next]_(RunsVars)
<1> USE DEF Starting, Registered, InProgressStages, RunsVars, starting
<1>0. /\ TypeOK /\ RecordFits /\ CancelFits /\ DownInv /\ RunningRowFits
      /\ RegisteredRecorded
  BY DEF RunsInv, RowInv, OutcomeInv
<1>1. After(e) \in {"reap", "done"}
  BY DEF After
<1>2. CASE Load(e)
  <2>1. CASE Goto(e, "create")
    BY <1>0, <1>2, <2>1, StageGoes DEF Load, Record, tables, locals
  <2>2. CASE Leave(e, After(e))
    BY <1>0, <1>1, <1>2, <2>2, RunsLeave DEF Load, RecordFits, tables, locals
  <2>. QED
    BY <1>2, <2>1, <2>2 DEF Load
<1>3. CASE Create(e)
  <2>1. Goto(e, "start") /\ Save(e, "pending") /\ UNCHANGED <<task, retried>>
    BY <1>3 DEF Create, Fails, locals
  <2>2. /\ Stage[e] = "active" /\ Stage' = Stage /\ Owner' = Owner
        /\ BeingRemoved' = BeingRemoved /\ Loose' = Loose
    BY <1>0, <1>3, <2>1, StageGoes DEF Create
  <2>3. Record[e] = "none" /\ Record' = [Record EXCEPT ![e] = "open"]
    BY <1>0, <1>3, <2>1, RecordSaved, RecordValues DEF Create, RecordFits
  <2>4. Runs!Open(e)
    BY <2>2, <2>3 DEF Runs!Open, Runs!Sets
  <2>. QED
    BY <2>4 DEF Runs!Next
<1>4. CASE Start(e)
  <2>1. Goto(e, "wait") /\ Update(e, "running") /\ UNCHANGED <<task, retried>> /\ pc[e] = "start"
    BY <1>4 DEF Start, Fails, locals
  <2>2. Stage' = Stage /\ Owner' = Owner /\ BeingRemoved' = BeingRemoved /\ Loose' = Loose
    BY <1>0, <2>1, StageGoes
  <2>3. Record' = Record
    BY <1>0, <2>1, RecordUpdated, RecordValues DEF RecordFits, TypeOK, Final
  <2>. QED
    BY <2>2, <2>3
<1>5. CASE Complete(e)
  <2>1. Goto(e, "notify") /\ Save(e, "completed") /\ UNCHANGED <<task, retried>> /\ pc[e] = "wait"
    BY <1>5 DEF Complete, Fails, locals
  <2>. QED
    BY <1>0, <2>1, RunsClose DEF RecordFits, Final
<1>6. CASE Notify(e) \/ NotifyFailure(e)
  <2>1. Leave(e, After(e)) /\ pc[e] \in {"notify", "failedCast"} /\ UNCHANGED <<status, task, retried>>
    BY <1>6 DEF Notify, NotifyFailure, tables, locals
  <2>2. boot # "down"
    BY <1>0, <2>1 DEF DownInv, Procs
  <2>3. status[e] \notin {"pending", "running"} \/ Removed(task[e])
    BY <1>0, <2>1, <2>2 DEF RunningRowFits, Recorded, RecordFits, RegisteredRecorded
  <2>. QED
    BY <1>1, <2>1, <2>3, RunsLeave
<1>7. CASE TimesOut(e)
  BY <1>0, <1>7, StageGoes DEF TimesOut, Record, tables, locals
<1>8. CASE RecordFailure(e)
  <2>1. Goto(e, "failedCast") /\ Save(e, "failed") /\ UNCHANGED <<task, retried>> /\ pc[e] = "failing"
    BY <1>8 DEF RecordFailure, Fails, locals
  <2>. QED
    BY <1>0, <2>1, RunsClose DEF RecordFits, Final
<1>9. CASE CancelDelivered(e)
  <2>1. Removed(task[e])
    BY <1>0, <1>9 DEF CancelDelivered, CancelFits, Awaited, Removed
  <2>2. CASE Goto(e, "cancelling") /\ UNCHANGED status
    BY <1>0, <1>9, <2>2, StageGoes DEF CancelDelivered, Record, locals
  <2>3. CASE Leave(e, "done")
    BY <1>9, <2>1, <2>3, RunsLeave DEF CancelDelivered, Final, locals
  <2>. QED
    BY <1>9, <2>2, <2>3 DEF CancelDelivered
<1>10. CASE MarkCancelled(e)
  <2>1. Removed(task[e])
    BY <1>0, <1>10 DEF MarkCancelled, CancelFits, Awaited, Removed
  <2>. QED
    BY <1>10, <2>1, RunsLeave DEF MarkCancelled, Fails, Final, locals
<1>11. CASE Reap(e)
  <2>1. BeginRemoval(e, task[e]) /\ pc[e] = "reap"
    BY <1>11 DEF Reap
  <2>. QED
    BY <1>0, <2>1, RunsRemove DEF TypeOK, Procs, Removing
<1>. QED
  BY <1>2, <1>3, <1>4, <1>5, <1>6, <1>7, <1>8, <1>9, <1>10, <1>11 DEF ExecutionStep

\* A trigger begins an execution of a task that is loose, or of which none is in
\* progress.
LEMMA SpawnMaps ==
  ASSUME TypeOK, NEW t \in Tasks, NEW e \in Executions, NEW wrapped,
         Spawn(e, t, wrapped), UNCHANGED status
  PROVE  /\ Stage[e] = "new" /\ Runs!Goes(e, "active")
         /\ Owner' = [Owner EXCEPT ![e] = t]
         /\ Record' = Record /\ BeingRemoved' = BeingRemoved
<1>1. /\ pc[e] = "none" /\ pc' = [pc EXCEPT ![e] = "load"] /\ task' = [task EXCEPT ![e] = t]
  BY DEF Spawn, Goto
<1>2. Stage[e] = "new" /\ Stage' = [Stage EXCEPT ![e] = "active"]
  BY <1>1 DEF Stage, Starting, TypeOK, Procs
<1>3. Owner' = [Owner EXCEPT ![e] = t] /\ Record' = Record
  BY <1>1 DEF Owner, Record, TypeOK, Procs
<1>4. BeingRemoved' = BeingRemoved
  BY <1>1, RemovingSame DEF TypeOK, Procs
<1>. QED
  BY <1>2, <1>3, <1>4 DEF Runs!Goes

LEMMA RunsFire ==
  ASSUME ~Overlaps, TypeOK, SingleInv, [Next]_vars, NEW t \in Tasks, Fire(t)
  PROVE  Runs!Next
<1>1. PICK e \in Executions : Spawn(e, t, t \in OneshotTasks)
  BY DEF Fire
<1>2. /\ running[t] = None /\ StartingOf(t) \subseteq retried
      /\ UNCHANGED <<status, retried>>
  BY DEF Fire, AlreadyRunning, tables, starting
<1>3. Loose' = Loose
  BY <1>2, LooseKept DEF SingleInv
<1>4. t \in Loose \/ \A f \in Executions : Stage[f] = "active" => Owner[f] # t
  <2>1. t \in Loose \/ StartingOf(t) = {}
    BY <1>2 DEF StartingOf, Loose
  <2>2. \A f \in Executions : pc[f] \in Registered /\ t \notin Loose => task[f] # t
    BY <1>2, TaskAssumption DEF TaskAssumption, SingleInv, EntryKnown
  <2>. QED
    BY <2>1, <2>2 DEF StartingOf, Stage, Owner
<1>5. Runs!Begin(e, t)
  BY <1>1, <1>2, <1>3, <1>4, SpawnMaps DEF Runs!Begin
<1>. QED
  BY <1>5 DEF Runs!Next

\* A startup makes up for an execution whose record is still open.
LEMMA RunsRetry ==
  ASSUME TypeOK, SingleInv, StalePending, NEW e \in Executions, RetryStale(e)
  PROVE  Runs!Next
<1>1. PICK f \in Executions : Spawn(f, task[e], FALSE) /\ retried' = retried \cup {f}
  BY DEF RetryStale
<1>2. pc[e] = "done" /\ status[e] = "pending" /\ UNCHANGED status
  BY DEF RetryStale, StalePending, tables
<1>3. Stage[e] = "over" /\ Record[e] = "open" /\ Owner[e] = task[e]
  BY <1>2 DEF Stage, Record, Owner, Starting, Registered
<1>4. Loose' = Loose \cup {task[e]}
  BY <1>1, LooseAdded DEF SingleInv
<1>5. task[e] \in Tasks
  BY DEF TypeOK, Procs
<1>6. Runs!Again(f, e)
  BY <1>1, <1>2, <1>3, <1>4, <1>5, SpawnMaps DEF Runs!Again
<1>. QED
  BY <1>6 DEF Runs!Next

\* A step of anybody but an execution that leaves stages and records alone.
LEMMA RunsSame ==
  ASSUME UNCHANGED <<status, retried>>, TypeOK,
         \A e \in Executions :
           /\ pc'[e] = pc[e] \/ {pc[e], pc'[e]} \subseteq {"waiting", "deleting", "done"}
           /\ task'[e] = task[e],
         BeingRemoved' = BeingRemoved
  PROVE  UNCHANGED RunsVars
<1>1. Loose' = Loose
  BY DEF Loose, TypeOK
<1>. QED
  BY <1>1 DEF RunsVars, Stage, Owner, Record, Starting, Registered

LEMMA RunsOthers ==
  ASSUME ~TablesFail, ~Overlaps, RunsInv, [Next]_vars,
         \A e \in Executions : ~ExecutionStep(e)
  PROVE  [Runs!Next]_(RunsVars)
<1> USE TaskAssumption
    DEF TaskAssumption, TypeOK, Procs, Goto, tables, waits, locals, starting
<1>0. TypeOK /\ RecordFits /\ SingleInv /\ StalePending
  BY DEF RunsInv, RowInv, OutcomeInv
<1>1. CASE UNCHANGED vars
  BY <1>0, <1>1, RunsSame DEF vars, BeingRemoved, Removed
<1>2. ASSUME NEW t \in Tasks, Fire(t)
      PROVE  Runs!Next
  BY <1>0, <1>2, RunsFire
<1>3. ASSUME NEW t \in Tasks, FireSkipped(t)
      PROVE  UNCHANGED RunsVars
  BY <1>0, <1>3, RunsSame DEF FireSkipped, BeingRemoved, Removed
<1>4. ASSUME NEW e \in Executions, AgentEnds(e)
      PROVE  UNCHANGED RunsVars
  BY <1>0, <1>4, RunsSame DEF AgentEnds, BeingRemoved, Removed
<1>5. ASSUME NEW c \in Callers, NEW t \in Tasks, Register(c, t)
      PROVE  UNCHANGED RunsVars
  <2>1. BeingRemoved' = BeingRemoved
    BY <1>0, <1>5, RemovingSame DEF Register
  <2>. QED
    BY <1>0, <1>5, <2>1, RunsSame DEF Register
<1>6. ASSUME NEW c \in Callers, NEW t \in Tasks, Unregister(c, t)
      PROVE  [Runs!Next]_(RunsVars)
  BY <1>0, <1>6, RunsRemove DEF Unregister
<1>7. ASSUME NEW c \in Callers, SaveDefinition(c)
      PROVE  UNCHANGED RunsVars
  <2>1. BeingRemoved' = BeingRemoved
    BY <1>0, <1>7, RemovingSame DEF SaveDefinition, Return
  <2>. QED
    BY <1>0, <1>7, <2>1, RunsSame DEF SaveDefinition, Return
<1>8. ASSUME NEW p \in Procs, VictimEnded(p)
      PROVE  UNCHANGED RunsVars
  <2>1. BeingRemoved' = BeingRemoved
    BY <1>0, <1>8, RemovingSame DEF VictimEnded
  <2>. QED
    BY <1>0, <1>8, <2>1, RunsSame DEF VictimEnded
<1>9. ASSUME NEW p \in Procs, Delete(p)
      PROVE  Runs!Next
  <2>1. /\ pc[p] = "deleting" /\ DeleteRecords(task[p])
        /\ \/ p \in Callers /\ Return(p)
           \/ p \in Executions /\ Goto(p, "done") /\ UNCHANGED task
    BY <1>9 DEF Delete
  <2>2. /\ pc'[p] \in {"idle", "done"}
        /\ \A q \in Procs \ {p} : pc'[q] = pc[q] /\ task'[q] = task[q]
        /\ \A e \in Executions : task'[e] = task[e]
    BY <1>0, <2>1 DEF Return
  <2>3. task[p] \in BeingRemoved
    BY <1>0, <2>1 DEF BeingRemoved, Removed
  <2>4. BeingRemoved' \in {BeingRemoved, BeingRemoved \ {task[p]}}
    <3>1. ASSUME NEW t \in Tasks, t # task[p]
          PROVE  t \in BeingRemoved' <=> t \in BeingRemoved
      BY <2>2, <3>1 DEF BeingRemoved, Removed
    <3>2. BeingRemoved' \subseteq Tasks /\ BeingRemoved \subseteq Tasks
      BY DEF BeingRemoved
    <3>3. task[p] \in BeingRemoved' => BeingRemoved' = BeingRemoved
      BY <2>3, <3>1, <3>2
    <3>4. task[p] \notin BeingRemoved' => BeingRemoved' = BeingRemoved \ {task[p]}
      BY <3>1, <3>2
    <3>. QED
      BY <3>3, <3>4
  <2>5. \A e \in Executions :
          pc'[e] = pc[e] \/ (pc[e] = "deleting" /\ pc'[e] \in {"idle", "done"})
    BY <2>1, <2>2
  <2>6. Stage' = Stage /\ Owner' = Owner
    BY <2>2, <2>5 DEF Stage, Owner, Starting, Registered
  <2>7. Loose' = Loose
    BY <1>0, <1>9, <2>2 DEF Delete, Loose
  <2>8. Record' = [e \in Executions |-> IF Owner[e] = task[p] THEN "none" ELSE Record[e]]
    BY <2>1 DEF DeleteRecords, Record, Owner
  <2>9. Runs!Erase(task[p])
    BY <2>3, <2>4, <2>6, <2>7, <2>8 DEF Runs!Erase
  <2>. QED
    BY <1>0, <2>9 DEF Runs!Next
<1>10. CASE Crash
  <2>1. /\ \A e \in Executions :
             /\ pc'[e] = IF pc[e] = "none" THEN "none" ELSE "done"
             /\ task'[e] = task[e]
        /\ \A p \in Procs : pc'[p] \in {"idle", "none", "done"}
        /\ status' = status
    BY <1>10 DEF Crash
  <2>2. BeingRemoved' = {}
    BY <2>1 DEF BeingRemoved, Removed
  <2>3. Owner' = Owner /\ Record' = Record
    BY <2>1 DEF Owner, Record
  <2>4. Stage' = [e \in Executions |-> IF Stage[e] = "active" THEN "over" ELSE Stage[e]]
    BY <2>1 DEF Stage, Starting, Registered
  <2>5. Loose' = {}
    BY <1>10 DEF Crash, Loose
  <2>6. Runs!Crash
    BY <2>2, <2>3, <2>4, <2>5 DEF Runs!Crash
  <2>. QED
    BY <2>6 DEF Runs!Next
<1>11. CASE ReadStale \/ LoadTasks
  BY <1>0, <1>11, RunsSame DEF ReadStale, LoadTasks, BeingRemoved, Removed
<1>12. ASSUME NEW e \in Executions, FailStale(e)
       PROVE  [Runs!Next]_(RunsVars)
  <2>1. /\ Update(e, "failed") /\ UNCHANGED <<pc, task, retried>>
        /\ pc[e] = "done" /\ status[e] \notin Final
    BY <1>0, <1>12 DEF FailStale, Fails, RecordFits
  <2>2. /\ Stage[e] = "over" /\ Stage' = Stage /\ Owner' = Owner
        /\ BeingRemoved' = BeingRemoved /\ Loose' = Loose
    BY <2>1 DEF Stage, Owner, BeingRemoved, Removed, Loose, Starting, Registered
  <2>3. CASE status[e] = "none"
    BY <1>0, <2>1, <2>2, <2>3, RecordUpdated DEF RunsVars
  <2>4. CASE status[e] # "none"
    <3>1. Record[e] = "open" /\ Record' = [Record EXCEPT ![e] = "failed"]
      BY <1>0, <2>1, <2>4, RecordUpdated, RecordValues DEF Final
    <3>2. Runs!Recover(e)
      BY <2>2, <3>1 DEF Runs!Recover, Runs!Sets
    <3>. QED
      BY <3>2 DEF Runs!Next
  <2>. QED
    BY <2>3, <2>4
<1>13. ASSUME NEW e \in Executions, RetryStale(e)
       PROVE  Runs!Next
  BY <1>0, <1>13, RunsRetry
<1>. QED
  BY <1>1, <1>2, <1>3, <1>4, <1>5, <1>6, <1>7, <1>8, <1>9, <1>10, <1>11, <1>12, <1>13
  DEF Next, RemovalStep, Startup

\* A registered execution has said in its record that it runs.
LEMMA RecordedStep ==
  ASSUME ~TablesFail, TypeOK, RecordFits, RegisteredRecorded, [Next]_vars
  PROVE  RegisteredRecorded'
<1> USE TaskAssumption DEF TaskAssumption, TypeOK, Procs, Goto, Registered, RegisteredRecorded,
      tables, waits, locals, starting
<1>1. CASE UNCHANGED vars
  BY <1>1 DEF vars
<1>2. ASSUME NEW t \in Tasks, Fire(t) \/ FireSkipped(t)
      PROVE  RegisteredRecorded'
  BY <1>2 DEF Fire, FireSkipped, Spawn
<1>3. ASSUME NEW e \in Executions, ExecutionStep(e)
      PROVE  RegisteredRecorded'
  <2> USE DEF Leave, After, Save, Update, Fails
  <2>1. CASE Load(e) \/ Create(e)
    BY <2>1 DEF Load, Create
  <2>2. CASE Start(e)
    BY <2>2 DEF Start
  <2>3. CASE Complete(e) \/ TimesOut(e) \/ RecordFailure(e)
    BY <2>3 DEF Complete, TimesOut, RecordFailure
  <2>4. CASE Notify(e) \/ NotifyFailure(e)
    BY <2>4 DEF Notify, NotifyFailure
  <2>5. CASE CancelDelivered(e) \/ MarkCancelled(e)
    BY <2>5 DEF CancelDelivered, MarkCancelled
  <2>6. CASE Reap(e)
    BY <2>6 DEF Reap, BeginRemoval
  <2>. QED
    BY <1>3, <2>1, <2>2, <2>3, <2>4, <2>5, <2>6 DEF ExecutionStep
<1>4. ASSUME NEW e \in Executions, AgentEnds(e) \/ FailStale(e) \/ RetryStale(e)
      PROVE  RegisteredRecorded'
  BY <1>4 DEF AgentEnds, FailStale, RetryStale, Spawn, Update, Fails
<1>5. ASSUME NEW c \in Callers, NEW t \in Tasks, Register(c, t) \/ Unregister(c, t)
      PROVE  RegisteredRecorded'
  BY <1>5 DEF Register, Unregister, BeginRemoval
<1>6. ASSUME NEW c \in Callers, SaveDefinition(c)
      PROVE  RegisteredRecorded'
  BY <1>6 DEF SaveDefinition, Return
<1>7. ASSUME NEW p \in Procs, RemovalStep(p)
      PROVE  RegisteredRecorded'
  BY <1>7 DEF RemovalStep, VictimEnded, Delete, DeleteRecords, Return
<1>8. CASE Crash \/ ReadStale \/ LoadTasks
  BY <1>8 DEF Crash, ReadStale, LoadTasks
<1>. QED
  BY <1>1, <1>2, <1>3, <1>4, <1>5, <1>6, <1>7, <1>8 DEF Next, Startup

\* Whether the startup is over changes with a crash and the startup alone, and
\* until then only the executions it has triggered do anything.
LEMMA QuietStep ==
  ASSUME TypeOK, Unborn, DownInv, BootQuiet, [Next]_vars
  PROVE  BootQuiet'
<1> USE TaskAssumption
    DEF TaskAssumption, TypeOK, BootQuiet, Procs, Goto, starting, locals
<1>1. CASE UNCHANGED vars
  BY <1>1 DEF vars
<1>2. ASSUME NEW t \in Tasks, Fire(t) \/ FireSkipped(t)
      PROVE  BootQuiet'
  BY <1>2 DEF Fire, FireSkipped
<1>3. ASSUME NEW e \in Executions, ExecutionStep(e)
      PROVE  BootQuiet'
  <2> SUFFICES ASSUME boot # "up"
               PROVE  BootQuiet'
    BY <1>3 DEF ExecutionStep, Load, Create, Start, Complete, Notify, TimesOut, RecordFailure,
       NotifyFailure, CancelDelivered, MarkCancelled, Reap, BeginRemoval
  <2>1. pc[e] \in InProgressStages /\ ~Reap(e)
    BY <1>3 DEF ExecutionStep, Load, Create, Start, Complete, Notify, TimesOut, RecordFailure,
       NotifyFailure, CancelDelivered, MarkCancelled, Reap, InProgressStages, Starting,
       Registered, Removing
  <2>2. UNCHANGED <<armed, boot, oneshot>>
    BY <1>3, <2>1 DEF ExecutionStep, Load, Create, Start, Complete, Notify, TimesOut,
       RecordFailure, NotifyFailure, CancelDelivered, MarkCancelled
  <2>3. After(e) = "done"
    BY <2>1 DEF After
  <2>4. pc'[e] \in InProgressStages \cup {"done"} /\ \A p \in Procs \ {e} : pc'[p] = pc[p]
    BY <1>3, <2>1, <2>3 DEF ExecutionStep, Load, Create, Start, Complete, Notify, TimesOut,
       RecordFailure, NotifyFailure, CancelDelivered, MarkCancelled, Leave, InProgressStages,
       Starting, Registered
  <2>. QED
    BY <2>1, <2>2, <2>4 DEF InProgressStages, Starting, Registered, Removing
<1>4. ASSUME NEW e \in Executions, AgentEnds(e)
      PROVE  BootQuiet'
  BY <1>4 DEF AgentEnds
<1>5. ASSUME NEW c \in Callers, NEW t \in Tasks, Register(c, t) \/ Unregister(c, t)
      PROVE  BootQuiet'
  BY <1>5 DEF Register, Unregister, BeginRemoval
<1>6. ASSUME NEW c \in Callers, SaveDefinition(c)
      PROVE  BootQuiet'
  BY <1>6 DEF SaveDefinition
<1>7. ASSUME NEW p \in Procs, RemovalStep(p)
      PROVE  BootQuiet'
  BY <1>7 DEF RemovalStep, VictimEnded, Delete, Return, Removing
<1>8. CASE Crash
  BY <1>8 DEF Crash, InProgressStages, Starting, Registered, Removing
<1>9. CASE ReadStale \/ LoadTasks \/ \E e \in Executions : FailStale(e)
  BY <1>9 DEF ReadStale, LoadTasks, FailStale
<1>10. ASSUME NEW e \in Executions, RetryStale(e)
       PROVE  BootQuiet'
  <2>1. PICK f \in Executions : Spawn(f, task[e], FALSE)
    BY <1>10 DEF RetryStale
  <2>2. f \notin oneshot /\ pc'[f] = "load" /\ UNCHANGED <<oneshot, armed, boot>>
    BY <1>10, <2>1 DEF Spawn, Unborn, RetryStale
  <2>3. \A p \in Procs \ {f} : pc'[p] = pc[p]
    BY <2>1 DEF Spawn
  <2>. QED
    BY <2>2, <2>3 DEF Removing
<1>. QED
  BY <1>1, <1>2, <1>3, <1>4, <1>5, <1>6, <1>7, <1>8, <1>9, <1>10 DEF Next, Startup

\* A record that the startup has read as pending is of an execution that is over
\* for good.
LEMMA StalePendingStep ==
  ASSUME ~TablesFail, TypeOK, RecordFits, DownInv, BootQuiet, StalePending, [Next]_vars
  PROVE  StalePending'
<1> USE TaskAssumption
    DEF TaskAssumption, TypeOK, StalePending, Procs, Goto, tables, locals, starting
<1>1. CASE UNCHANGED vars
  BY <1>1 DEF vars
<1>2. ASSUME NEW t \in Tasks, Fire(t) \/ FireSkipped(t)
      PROVE  StalePending'
  BY <1>2 DEF Fire, FireSkipped, BootQuiet
<1>3. ASSUME NEW e \in Executions, ExecutionStep(e)
      PROVE  StalePending'
  <2>1. pc[e] # "done" /\ UNCHANGED <<boot, stale>>
    BY <1>3 DEF ExecutionStep, Load, Create, Start, Complete, Notify, TimesOut, RecordFailure,
       NotifyFailure, CancelDelivered, MarkCancelled, Reap, BeginRemoval
  <2>2. \A f \in Executions \ {e} : pc'[f] = pc[f] /\ status'[f] = status[f]
    BY <1>3 DEF ExecutionStep, Load, Create, Start, Complete, Notify, TimesOut, RecordFailure,
       NotifyFailure, CancelDelivered, MarkCancelled, Reap, BeginRemoval, Leave, Save, Update,
       Fails
  <2>. QED
    BY <2>1, <2>2
<1>4. ASSUME NEW e \in Executions, AgentEnds(e)
      PROVE  StalePending'
  BY <1>4 DEF AgentEnds
<1>5. ASSUME NEW c \in Callers, NEW t \in Tasks,
             SaveDefinition(c) \/ Register(c, t) \/ Unregister(c, t)
      PROVE  StalePending'
  BY <1>5 DEF SaveDefinition, Register, Unregister, BeginRemoval, BootQuiet
<1>6. ASSUME NEW p \in Procs, RemovalStep(p)
      PROVE  StalePending'
  BY <1>6 DEF RemovalStep, VictimEnded, Delete, BootQuiet, Removing
<1>7. CASE ReadStale
  <2>1. boot = "down" /\ stale' = Unfinished /\ UNCHANGED <<pc, status>>
    BY <1>7 DEF ReadStale
  <2>2. \A e \in Executions : pc[e] \in {"idle", "none", "done"}
    BY <2>1 DEF DownInv
  <2>3. \A e \in Executions : status[e] = "pending" => pc[e] = "done"
    BY <2>2 DEF RecordFits, ExecutionStages, Starting, Registered, Removing
  <2>. QED
    BY <2>1, <2>3 DEF Unfinished
<1>8. ASSUME NEW e \in Executions, FailStale(e)
      PROVE  StalePending'
  BY <1>8 DEF FailStale, Update, Fails
<1>9. ASSUME NEW e \in Executions, RetryStale(e)
      PROVE  StalePending'
  BY <1>9 DEF RetryStale, Spawn
<1>10. CASE Crash \/ LoadTasks
  BY <1>10 DEF Crash, LoadTasks
<1>. QED
  BY <1>1, <1>2, <1>3, <1>4, <1>5, <1>6, <1>7, <1>8, <1>9, <1>10 DEF Next, Startup

\* Under the assumptions of BL3 the scheduler implements TaskRuns: executions of
\* a task follow one another, unless a startup has triggered the task again, and
\* each closes its record once, with its outcome, before it leaves, unless its
\* task is removed or the process crashes.
THEOREM SchedulerImplementsRuns ==
  ASSUME ~TablesFail, ~Overlaps
  PROVE  Spec => ImplementsTaskRuns
<1>1. Init => Runs!Init
  BY TaskAssumption, AnyTaskIsTask
  DEF TaskAssumption, Init, Procs, Runs!Init, Stage, Owner, Record, BeingRemoved, Removed, Loose
<1>2. Init => RegisteredRecorded /\ BootQuiet /\ StalePending
  BY DEF Init, RegisteredRecorded, BootQuiet, StalePending
<1>3. /\ OutcomeInv /\ SingleInv /\ RegisteredRecorded /\ BootQuiet /\ StalePending
      /\ [Next]_vars
      => RegisteredRecorded' /\ BootQuiet' /\ StalePending'
  BY RecordedStep, QuietStep, StalePendingStep DEF OutcomeInv, SingleInv
<1>4. /\ OutcomeInv /\ RunningRowFits /\ SingleInv /\ RegisteredRecorded /\ BootQuiet
      /\ StalePending /\ [Next]_vars
      => [Runs!Next]_(RunsVars)
  BY RunsExecution, RunsOthers DEF RunsInv, RowInv
<1>. QED
  BY <1>1, <1>2, <1>3, <1>4, OutcomeInvAlways, RowInvAlways, SingleInvAlways, PTL
  DEF Spec, ImplementsTaskRuns, Runs!Spec, RunsVars

-----------------------------------------------------------------------------
(* Removals do not wait in a circle, whatever fails.                       *)

\* An execution that has been cancelled and is on its way out, or is gone.
Ending(e) ==
  \/ pc[e] \in {"cancelling", "done"}
  \/ e \in cancelled /\ pc[e] \in Registered

\* Whoever removes a task awaits an execution of that task, and one that ends
\* without waiting for anybody itself: a one-shot task that unregisters itself
\* never awaits itself, and two removals never await each other.
AwaitedIsEnding ==
  \A p \in Procs :
    pc[p] = "waiting" =>
      /\ victim[p] \in Executions
      /\ task[victim[p]] = task[p]
      /\ Ending(victim[p])

\* A step that lets nobody begin to wait, and lets an execution that is ending
\* only go on to its end.
LEMMA WaitKept ==
  ASSUME AwaitedIsEnding,
         \A p \in Procs :
           pc'[p] = "waiting" =>
             pc[p] = "waiting" /\ victim'[p] = victim[p] /\ task'[p] = task[p],
         \A e \in Executions : Ending(e) => Ending(e)' /\ task'[e] = task[e]
  PROVE  AwaitedIsEnding'
<1>1. ASSUME NEW p \in Procs, pc'[p] = "waiting"
      PROVE  /\ victim'[p] \in Executions
             /\ task'[victim'[p]] = task'[p]
             /\ Ending(victim[p])' /\ victim'[p] = victim[p]
  BY <1>1 DEF AwaitedIsEnding
<1>. QED
  BY <1>1 DEF AwaitedIsEnding, Ending

LEMMA WaitRemoval ==
  ASSUME TypeOK, EntryIsLive, AwaitedIsEnding, NEW p \in Procs, NEW t \in Tasks,
         pc[p] \in {"idle", "reap"}, BeginRemoval(p, t), p \in Executions => task[p] = t
  PROVE  AwaitedIsEnding'
<1> USE TaskAssumption DEF TaskAssumption, TypeOK, Procs, Goto
<1>1. \A e \in Executions :
        /\ task'[e] = task[e]
        /\ pc[e] \in Registered \cup {"done"} => pc'[e] = pc[e]
        /\ e \in cancelled => e \in cancelled'
  BY DEF BeginRemoval, Registered
<1>2. \A e \in Executions :
        pc[e] \in {"cancelling", "done"} \/ (e \in cancelled /\ pc[e] \in Registered)
          => pc'[e] \in {"cancelling", "done"} \/ (e \in cancelled' /\ pc'[e] \in Registered)
  BY <1>1 DEF Registered
<1>3. \A q \in Procs \ {p} : pc'[q] = pc[q] /\ victim'[q] = victim[q] /\ task'[q] = task[q]
  BY DEF BeginRemoval
<1>4. ASSUME pc'[p] = "waiting"
      PROVE  /\ victim'[p] \in Executions
             /\ task'[victim'[p]] = task'[p]
             /\ victim'[p] \in cancelled' /\ pc'[victim'[p]] \in Registered
  <2>1. AlreadyRunning(t)
    BY <1>4 DEF BeginRemoval
  <2>2. running[t] \in Executions /\ task[running[t]] = t /\ pc[running[t]] \in Registered
    BY <2>1 DEF AlreadyRunning, EntryIsLive
  <2>3. victim'[p] = running[t] /\ cancelled' = cancelled \cup {running[t]} /\ task'[p] = t
    BY <2>1 DEF BeginRemoval
  <2>. QED
    BY <1>1, <2>2, <2>3
<1>. QED
  BY <1>2, <1>1, <1>3, <1>4 DEF AwaitedIsEnding, Ending

LEMMA WaitStep ==
  ASSUME TypeOK, EntryIsLive, CancelFits, AwaitedIsEnding, [Next]_vars
  PROVE  AwaitedIsEnding'
<1> USE TaskAssumption DEF TaskAssumption, TypeOK, Procs, Goto, Ending, locals
<1>1. CASE UNCHANGED vars
  BY <1>1, WaitKept DEF vars
<1>2. ASSUME NEW t \in Tasks, Fire(t) \/ FireSkipped(t)
      PROVE  AwaitedIsEnding'
  BY <1>2, WaitKept DEF Fire, FireSkipped, Spawn, Registered
<1>3. ASSUME NEW e \in Executions, ExecutionStep(e)
      PROVE  AwaitedIsEnding'
  <2>1. CASE Reap(e)
    BY <2>1, WaitRemoval DEF Reap
  <2>2. CASE \/ Load(e) \/ Create(e) \/ Start(e) \/ Complete(e) \/ Notify(e)
             \/ TimesOut(e) \/ RecordFailure(e) \/ NotifyFailure(e)
             \/ CancelDelivered(e) \/ MarkCancelled(e)
    <3>1. /\ UNCHANGED locals
          /\ \A p \in Procs \ {e} : pc'[p] = pc[p]
          /\ \A f \in Executions \ {e} : f \in cancelled => f \in cancelled'
          /\ pc'[e] # "waiting"
      BY <2>2 DEF Load, Create, Start, Complete, Notify, TimesOut, RecordFailure, NotifyFailure,
         CancelDelivered, MarkCancelled, Leave, After
    <3>2. ASSUME Ending(e)
          PROVE  pc'[e] \in {"cancelling", "done"}
      <4>1. CASE e \in cancelled
        <5>1. pc[e] \notin {"load", "create", "start"}
          BY <4>1 DEF CancelFits, Registered
        <5>2. CancelDelivered(e)
          BY <2>2, <4>1, <5>1 DEF Load, Create, Start, Complete, Notify, TimesOut, RecordFailure,
             NotifyFailure, MarkCancelled
        <5>. QED
          BY <5>2 DEF CancelDelivered, Leave
      <4>2. CASE e \notin cancelled
        <5>1. MarkCancelled(e)
          BY <2>2, <3>2, <4>2 DEF Load, Create, Start, Complete, Notify, TimesOut, RecordFailure,
             NotifyFailure, CancelDelivered, MarkCancelled
        <5>. QED
          BY <5>1 DEF MarkCancelled, Leave
      <4>. QED
        BY <4>1, <4>2
    <3>. QED
      BY <3>1, <3>2, WaitKept
  <2>. QED
    BY <1>3, <2>1, <2>2 DEF ExecutionStep
<1>4. ASSUME NEW e \in Executions, AgentEnds(e)
      PROVE  AwaitedIsEnding'
  BY <1>4, WaitKept DEF AgentEnds
<1>5. ASSUME NEW c \in Callers, NEW t \in Tasks, Register(c, t)
      PROVE  AwaitedIsEnding'
  BY <1>5, WaitKept DEF Register
<1>6. ASSUME NEW c \in Callers, NEW t \in Tasks, Unregister(c, t)
      PROVE  AwaitedIsEnding'
  BY <1>6, WaitRemoval DEF Unregister
<1>7. ASSUME NEW c \in Callers, SaveDefinition(c)
      PROVE  AwaitedIsEnding'
  BY <1>7, WaitKept DEF SaveDefinition, Return
<1>8. ASSUME NEW p \in Procs, VictimEnded(p) \/ Delete(p)
      PROVE  AwaitedIsEnding'
  <2>1. /\ \A e \in Executions : pc[e] \in Registered \cup {"done"} => e # p
        /\ \A e \in Executions \ {p} : pc'[e] = pc[e] /\ task'[e] = task[e]
        /\ \A q \in Procs \ {p} : pc'[q] = pc[q] /\ task'[q] = task[q] /\ victim'[q] = victim[q]
        /\ pc'[p] # "waiting" /\ cancelled' = cancelled
    BY <1>8 DEF VictimEnded, Delete, Return, Registered
  <2>. QED
    BY <2>1, WaitKept DEF Registered
<1>9. CASE Crash
  BY <1>9 DEF Crash, AwaitedIsEnding
<1>10. CASE ReadStale \/ LoadTasks \/ \E e \in Executions : FailStale(e)
  BY <1>10, WaitKept DEF ReadStale, LoadTasks, FailStale
<1>11. ASSUME NEW e \in Executions, RetryStale(e)
       PROVE  AwaitedIsEnding'
  BY <1>11, WaitKept DEF RetryStale, Spawn, Registered
<1>. QED
  BY <1>1, <1>2, <1>3, <1>4, <1>5, <1>6, <1>7, <1>8, <1>9, <1>10, <1>11
  DEF Next, RemovalStep, Startup

\* Whatever fails, overlaps or is restarted, who removes a task awaits an
\* execution that has been cancelled and waits for nobody: the safety half of
\* RemovalEnds.
THEOREM AwaitedExecutionsEnd == Spec => []AwaitedIsEnding
<1>1. Init => CancelFits /\ AwaitedIsEnding
  BY TaskAssumption DEF TaskAssumption, Init, CancelFits, AwaitedIsEnding, Procs
<1>2. TypeOK /\ EntryIsLive /\ CancelFits /\ [Next]_vars => CancelFits'
  BY CancelStep
<1>3. TypeOK /\ EntryIsLive /\ CancelFits /\ AwaitedIsEnding /\ [Next]_vars => AwaitedIsEnding'
  BY WaitStep
<1>. QED
  BY <1>1, <1>2, <1>3, TypeCorrect, EntriesAreLive, PTL DEF Spec

-----------------------------------------------------------------------------
(* An execution gets to its end: it only goes forward through its stages,  *)
(* and at each of them it can go on, or waits for its agent or for an      *)
(* execution that can.                                                     *)

\* Whoever waits for a result has a future for it, and somebody to give it.
ResultExpected ==
  \A e \in Executions : pc[e] = "wait" => e \in futures /\ e \in agents \cup results

\* Only the event loop keeps e from its next step.
MayStep(e) ==
  \/ pc[e] \in Starting \cup (Registered \ {"wait"}) \cup {"reap", "deleting"}
  \/ pc[e] = "wait" /\ (e \in results \cup cancelled \/ Late)
  \/ pc[e] = "waiting" /\ pc[victim[e]] = "done"

ExecutionsGoOn ==
  \A e \in Executions :
    pc[e] \notin {"none", "done"} =>
      \/ MayStep(e)
      \/ pc[e] = "wait" /\ e \in agents
      \/ pc[e] = "waiting" /\ victim[e] \in Executions /\ MayStep(victim[e])

Place(stage) ==
  CASE stage = "load"       -> 1
    [] stage = "create"     -> 2
    [] stage = "start"      -> 3
    [] stage = "wait"       -> 4
    [] stage = "notify"     -> 5
    [] stage = "failing"    -> 6
    [] stage = "failedCast" -> 7
    [] stage = "cancelling" -> 8
    [] stage = "reap"       -> 9
    [] stage = "waiting"    -> 10
    [] stage = "deleting"   -> 11
    [] stage = "done"       -> 12
    [] OTHER                -> 0

Forward(e) == Place(pc[e]) < Place(pc'[e])

\* Every step of an execution brings it forward, and nothing takes it back.
ExecutionsAdvance ==
  \A e \in Executions :
    /\ pc'[e] = pc[e] \/ Forward(e)
    /\ ExecutionStep(e) \/ RemovalStep(e) => Forward(e)

LEMMA OwnStepAdvances ==
  ASSUME TypeOK, NEW e \in Executions, ExecutionStep(e) \/ RemovalStep(e)
  PROVE  Forward(e)
<1> USE DEF TypeOK, Goto, Leave, After, Procs, Forward
<1>1. CASE Load(e) \/ Create(e) \/ Start(e)
  <2>1. /\ pc[e] \in Starting
        /\ \/ <<pc[e], pc'[e]>> \in {<<"load", "create">>, <<"create", "start">>,
                                     <<"start", "wait">>}
           \/ pc'[e] \in {"failing", "reap", "done"}
    BY <1>1 DEF Load, Create, Start, Starting
  <2>. QED
    BY <2>1 DEF Place, Starting
<1>2. CASE Complete(e) \/ TimesOut(e) \/ Notify(e)
  <2>1. \/ pc[e] = "wait" /\ pc'[e] \in {"notify", "failing"}
        \/ pc[e] = "notify" /\ pc'[e] \in {"failing", "reap", "done"}
    BY <1>2 DEF Complete, TimesOut, Notify
  <2>. QED
    BY <2>1 DEF Place
<1>3. CASE RecordFailure(e) \/ NotifyFailure(e) \/ MarkCancelled(e)
  <2>1. \/ pc[e] = "failing" /\ pc'[e] \in {"failedCast", "reap", "done"}
        \/ pc[e] \in {"failedCast", "cancelling"} /\ pc'[e] \in {"reap", "done"}
    BY <1>3 DEF RecordFailure, NotifyFailure, MarkCancelled
  <2>. QED
    BY <2>1 DEF Place
<1>4. CASE CancelDelivered(e)
  <2>1. \/ pc[e] \in {"wait", "notify"} /\ pc'[e] = "cancelling"
        \/ pc[e] \in {"failing", "failedCast", "cancelling"} /\ pc'[e] = "done"
    BY <1>4 DEF CancelDelivered
  <2>. QED
    BY <2>1 DEF Place
<1>5. CASE Reap(e)
  <2>1. pc[e] = "reap" /\ pc'[e] \in {"waiting", "deleting"}
    BY <1>5 DEF Reap, BeginRemoval
  <2>. QED
    BY <2>1 DEF Place
<1>6. CASE RemovalStep(e)
  <2>1. \/ pc[e] = "waiting" /\ pc'[e] = "deleting"
        \/ pc[e] = "deleting" /\ pc'[e] = "done"
    BY <1>6, TaskAssumption DEF TaskAssumption, RemovalStep, VictimEnded, Delete
  <2>. QED
    BY <2>1 DEF Place
<1>. QED
  BY <1>1, <1>2, <1>3, <1>4, <1>5, <1>6 DEF ExecutionStep

LEMMA AdvanceStep ==
  ASSUME TypeOK, Next
  PROVE  ExecutionsAdvance
<1> USE TaskAssumption DEF TaskAssumption, TypeOK, Procs, Goto
<1> DEFINE Onward == \A e \in Executions : pc'[e] = pc[e] \/ Forward(e)
<1>1. ASSUME NEW p \in Procs, \A q \in Procs \ {p} : pc'[q] = pc[q],
             p \in Executions => pc'[p] = pc[p] \/ Forward(p)
      PROVE  Onward
  BY <1>1
<1>2. ASSUME NEW t \in Tasks, Fire(t) \/ FireSkipped(t)
      PROVE  Onward
  BY <1>2 DEF Fire, FireSkipped, Spawn, Forward, Place
<1>3. ASSUME NEW e \in Executions, ExecutionStep(e)
      PROVE  Onward
  <2>1. \A q \in Procs \ {e} : pc'[q] = pc[q]
    BY <1>3 DEF ExecutionStep, Load, Create, Start, Complete, TimesOut, Notify, RecordFailure,
       NotifyFailure, CancelDelivered, MarkCancelled, Reap, BeginRemoval, Leave
  <2>. QED
    BY <1>1, <1>3, <2>1, OwnStepAdvances
<1>4. ASSUME NEW p \in Procs, RemovalStep(p)
      PROVE  Onward
  <2>1. \A q \in Procs \ {p} : pc'[q] = pc[q]
    BY <1>4 DEF RemovalStep, VictimEnded, Delete, Return
  <2>. QED
    BY <1>1, <1>4, <2>1, OwnStepAdvances
<1>5. ASSUME NEW c \in Callers, NEW t \in Tasks,
             SaveDefinition(c) \/ Register(c, t) \/ Unregister(c, t)
      PROVE  Onward
  BY <1>5 DEF SaveDefinition, Register, Unregister, BeginRemoval, Return
<1>6. ASSUME NEW e \in Executions, AgentEnds(e) \/ FailStale(e)
      PROVE  Onward
  BY <1>6 DEF AgentEnds, FailStale
<1>7. ASSUME NEW e \in Executions, RetryStale(e)
      PROVE  Onward
  BY <1>7 DEF RetryStale, Spawn, Forward, Place
<1>8. ASSUME Crash
      PROVE  Onward
  BY <1>8 DEF Crash, Forward, Place, ExecutionStages, Starting, Registered, Removing
<1>9. ASSUME ReadStale \/ LoadTasks
      PROVE  Onward
  BY <1>9 DEF ReadStale, LoadTasks
<1>10. Onward
  BY <1>2, <1>3, <1>4, <1>5, <1>6, <1>7, <1>8, <1>9 DEF Next, Startup
<1>. QED
  BY <1>10, OwnStepAdvances DEF ExecutionsAdvance

LEMMA ResultStep ==
  ASSUME TypeOK, ResultExpected, [Next]_vars
  PROVE  ResultExpected'
<1> USE TaskAssumption DEF TaskAssumption, TypeOK, Procs, Goto, ResultExpected
<1>1. CASE UNCHANGED vars
  BY <1>1 DEF vars, waits
<1>2. ASSUME NEW t \in Tasks, Fire(t) \/ FireSkipped(t)
      PROVE  ResultExpected'
  BY <1>2 DEF Fire, FireSkipped, Spawn, waits
<1>3. ASSUME NEW e \in Executions, ExecutionStep(e)
      PROVE  ResultExpected'
  <2>1. CASE Start(e)
    BY <2>1 DEF Start, waits
  <2>2. CASE ExecutionStep(e) /\ ~Start(e)
    <3>1. /\ \A p \in Procs \ {e} : pc'[p] = pc[p]
          /\ pc'[e] # "wait"
          /\ agents' = agents /\ futures \ {e} \subseteq futures' /\ results \ {e} \subseteq results'
      BY <2>2 DEF ExecutionStep, Load, Create, Complete, TimesOut, Notify, RecordFailure,
         NotifyFailure, CancelDelivered, MarkCancelled, Reap, BeginRemoval, Leave, After, waits
    <3>. QED
      BY <3>1
  <2>. QED
    BY <1>3, <2>1, <2>2
<1>4. ASSUME NEW e \in Executions, AgentEnds(e)
      PROVE  ResultExpected'
  BY <1>4 DEF AgentEnds
<1>5. ASSUME NEW p \in Procs, RemovalStep(p)
      PROVE  ResultExpected'
  BY <1>5 DEF RemovalStep, VictimEnded, Delete, Return, waits
<1>6. ASSUME NEW c \in Callers, NEW t \in Tasks,
             SaveDefinition(c) \/ Register(c, t) \/ Unregister(c, t)
      PROVE  ResultExpected'
  BY <1>6 DEF SaveDefinition, Register, Unregister, BeginRemoval, Return, waits
<1>7. ASSUME NEW e \in Executions, FailStale(e) \/ RetryStale(e)
      PROVE  ResultExpected'
  BY <1>7 DEF FailStale, RetryStale, Spawn, waits
<1>8. CASE Crash
  BY <1>8 DEF Crash
<1>9. CASE ReadStale \/ LoadTasks
  BY <1>9 DEF ReadStale, LoadTasks, waits
<1>. QED
  BY <1>1, <1>2, <1>3, <1>4, <1>5, <1>6, <1>7, <1>8, <1>9 DEF Next, Startup

LEMMA WaitersGoOn ==
  ASSUME TypeOK, ResultExpected, AwaitedIsEnding
  PROVE  ExecutionsGoOn
<1> SUFFICES ASSUME NEW e \in Executions, pc[e] \notin {"none", "done"}, ~MayStep(e)
             PROVE  \/ pc[e] = "wait" /\ e \in agents
                    \/ pc[e] = "waiting" /\ victim[e] \in Executions /\ MayStep(victim[e])
  BY DEF ExecutionsGoOn
<1>1. pc[e] \in {"wait", "waiting"}
  BY DEF TypeOK, MayStep, ExecutionStages, Starting, Registered, Removing
<1>2. CASE pc[e] = "wait"
  BY <1>2 DEF ResultExpected, MayStep
<1>3. CASE pc[e] = "waiting"
  <2>1. victim[e] \in Executions /\ Ending(victim[e])
    BY <1>3 DEF AwaitedIsEnding, Procs
  <2>2. pc[victim[e]] # "done"
    BY <1>3 DEF MayStep
  <2>. QED
    BY <1>3, <2>1, <2>2 DEF Ending, MayStep, Registered
<1>. QED
  BY <1>1, <1>2, <1>3

\* An execution takes at most twelve steps to its end, whatever fails, and is
\* never left where nobody will take its next step: the safety half of
\* ExecutionEnds.
THEOREM ExecutionsEnd == Spec => []ExecutionsGoOn /\ [][ExecutionsAdvance]_vars
<1>1. Init => ResultExpected
  BY DEF Init, ResultExpected, Procs
<1>2. TypeOK /\ ResultExpected /\ [Next]_vars => ResultExpected'
  BY ResultStep
<1>3. TypeOK /\ ResultExpected /\ AwaitedIsEnding => ExecutionsGoOn
  BY WaitersGoOn
<1>4. TypeOK /\ [Next]_vars => [ExecutionsAdvance]_vars
  BY AdvanceStep
<1>. QED
  BY <1>1, <1>2, <1>3, <1>4, TypeCorrect, AwaitedExecutionsEnd, PTL DEF Spec
=============================================================================
