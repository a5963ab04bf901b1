# PandaPal Buddy in TLA+

TLA+ specifications of the concurrent and persistent core of PandaPal Buddy, model-checked with TLC and, for the
properties that matter most, proved with TLAPS. Paths below are relative to the repository, which the project files
call `src/`.

Contents: [the system](#the-system) · [components](#components-state-operations-what-makes-them-correct) ·
[modules](#modules-and-how-they-correspond-to-the-code) · [runs](#what-tlc-checks) · [proofs](#what-is-proved) ·
[findings](#where-the-code-and-its-documentation-disagree) · [not modelled](#abstractions-and-what-is-not-modelled) ·
[plan](#plan)

## The system

Four sub-projects. `pandaren/` is the agent SDK: one run of an agent is a loop of LLM calls and tool calls behind
guards. `pandapal/` is the backend: one asyncio process that takes messages from the desktop (JSON lines over stdio) and
from the relay (a WebSocket), runs agents for them, and keeps its tables in SQLite. `pandapal_desktop/` is a Tauri
shell with a React interface, `pandapal_relay/` a FastAPI service that connects WeCom and XiaoZhi speakers.

A message goes `Gateway | desktop IPC -> dispatch -> MessageRouter -> AgentScheduler | HITLBridge | ... ->
AgentExecutor -> SessionAgentPool -> Agent.run_stream`, and events go back through `MessageBroadcast`. Everything in
the backend shares one event loop: two steps interleave only where a task awaits something that really suspends, which
is what decides the grain of the actions below. Each frame the gateway receives is handled by a task of its own
(`gateway/gateway.py:972`), so handlers of different messages do interleave.

### What is hard

* **Interleaving.** Every message of every session may be at any `await` of `SessionAgentPool.acquire` while others are
  served, cancelled, or evicted. State is read before an await and used after it (pool entries, approvals, run states,
  the budget ledger, running executions of scheduled tasks).
* **Failure.** Each statement on SQLite may fail or time out on its own. Many failures are logged and swallowed, and
  some are read as "not there" (`hitl/bridge.py:129`, `:315`).
* **Crash and restart.** `run_states`, `approval_requests`, the tasks' execution records and the ledger outlive the
  process; a crash falls between any two writes, and startup serves clicks while it repairs the tables.
* **Time.** Idle TTL of agents, TTL of run states and approvals, the router's handler timeout, timeouts of scheduled
  tasks.
* **Order.** Semaphore queue and lock queue of the pool; cards answered late, twice, or on another channel; acknowledgements that
  overtake the entry they acknowledge; calls of an abandoned step that report into the next one.
* **One loop for all.** A coroutine that never suspends stops the whole process; `gateway/gateway.py:1428` is one.

## Components, state, operations, what makes them correct

| Component | State | Operations | Correct when |
|---|---|---|---|
| Session agent pool (`scheduler/agent_pool.py`) | semaphore, `_agents` with `running_since`, `last_used`, `bound_mode`, `_session_locks`, `_pending_acquires`, `_queued_count` | `acquire`, `cancel_session`, idle sweep, `stop` | never more than `max_concurrent` sessions; no slot, wake-up or count is lost by a cancellation; one instruction of a session at a time, first come first served; agents in use are not dropped; whoever queues is served |
| Executor (`scheduler/executor.py`) | none of its own | `execute` | holds the pool exactly as long as the run; hands every pause to a manager |
| HITL (`scheduler/hitl_manager.py`, `hitl/bridge.py`) | tables `run_states`, `approval_requests` | pause, click, text answer, resume, restore, TTL cleanup | one final decision per call; the agent makes only calls approved as such; a pause is resumed at most once; nothing is left that locks a session |
| Instruction dispatch (`scheduler/scheduler.py`) | the handlers it registered | user instruction, stop, task instruction, startup maintenance | a paused session takes no new instruction; a stop reaches the run |
| Router (`router/router.py`) | handler table, dedup window | inject, dispatch with timeout, freeze | a message id is handled once within the window |
| Interaction and plan managers | `run_states`, owner tables | ask, answer, decide, restore | as HITL, for questions and plans |
| Task scheduler (`task_scheduler/task_scheduler.py`) | tables `task_definitions`, `task_executions`; `_cron_handles`, `_running_executions`, `_pending_futures` | register, remove, timer, execute with timeout, cancel, restart recovery | one execution of a task at a time; every execution ends, with one outcome; a removal returns; no record says running for ever |
| Budget ledger (`config/budget/ledger.py`, `repo.py`) | spent and limit per account, dirty set, seeded flag, the JSON file and its lock | seed, record, flush, set budget | no cost is counted twice; a change of the file undoes no other; the lock is always released |
| Tool guards (`pandaren/behavior/harness/`) | permits, breaker, idempotency cache with its futures, call counts | dispatch of a batch, the guards before and after a tool, `reset_turn`, kill | one execution per step and arguments; a permanent breaker stays open; nobody waits for ever |
| Run loop (`pandaren/engine/run_core.py`) | step count, loop detector, counters of failures and refusals, cancel token, RunState, the memory's turns | start, resume, reject, LLM attempt, checks, pause, execution, commit, stop, timeouts | a call is executed once and only when allowed; every call of a turn has a result; the limits hold over pauses; every run ends |
| Session list, session manager | `sessions` rows, groups | create, touch, name, delete | deletion takes approvals and run states along |
| Storage, broadcast, container, dispatch, IPC | connection, channels, wiring | statements, fan-out, startup order | plumbing of the above |
| Agent task tools | task list per session | create, start, complete tasks | legal transitions only |
| Gateway (`gateway/gateway.py`) and relay | connection state, socket, tasks of each connection, `_pending_ack`, `_outbound_queue`, token | connect, renew, reconnect, send, acknowledge, retry, flush, close | a frame is in one place and comes to an end; the gateway comes back; the process is never blocked |
| Knowledge base, MCP, quality, dashboard, SDK memory and tools, desktop | files, indexes, views | I/O and transformation | left to tests |

`PROJECT.json` lists each of them with its status, and under `hazards` what is hard to test, line by line.

## Modules and how they correspond to the code

| Module | What it is |
|---|---|
| `SessionSlots` | abstract: at most `MaxConcurrent` tasks served, one per session |
| `AgentPool` | `SessionAgentPool`, detailed |
| `AgentPoolHistory` | the same with a history variable, for the order of service |
| `AgentPoolProofs`, `AgentPoolServing` | theorems: conservation and counting; locking, sequence, refinement, order, freedom from deadlock |
| `MCAgentPool`, `MCAgentPoolHistory` | instances |
| `ApprovalGate` | abstract: a call is decided once, answered once, and made only if approved |
| `HitlApproval` | pause, answer, resume, restart of one run, detailed |
| `HitlApprovalProofs` | theorems |
| `MCHitlApproval` | instances |
| `TaskRuns` | abstract: executions of a task follow one another, each closes its record once before it ends; only a removal or a crash interferes |
| `TaskScheduler` | timers, executions, removal and restart of stored tasks |
| `TaskSchedulerProofs` | theorems |
| `MCTaskScheduler` | instances |
| `CallLifecycle` | abstract: a tool call is proposed, allowed if it must be, executed once, answered |
| `RunLoop` | the engine's step loop, detailed |
| `RunLoopProofs`, `MCRunLoop` | theorems, instance |
| `ToolHarness` | the guards around the tool calls of a step |
| `ToolHarnessProofs`, `MCToolHarness` | theorems, instance |
| `BudgetStore` | abstract: rows of accounts with atomic requests |
| `BudgetLedger` | the ledger of costs and limits and its file |
| `BudgetLedgerProofs`, `MCBudgetLedger` | theorems, instance |
| `GatewayLink` | the gateway's connection and outbound frames, with the relay's side of it |
| `GatewayLinkProofs`, `MCGatewayLink` | theorems, instances |

How they fit together: `AgentPool` decides when a run may begin, `RunLoop` is that run, `ToolHarness` what its `Execute` and
`ToolReturns` stand for, `HitlApproval` and `TaskScheduler` are two of those who start runs, `BudgetLedger` is charged by each step, and
`GatewayLink` carries what the run says. Where one module touches another it has the other's behaviour as a choice: the pool lets a run
last as long as it likes, the loop lets each tool return, halt or hang, the harness lets the engine kill a batch at any time.

### AgentPool

A task is one `executor.execute` call, and is described by where it is suspended (`pc`):

    idle -> queuedCast -> semWait -> semGranted -> lockWait -> startCast -> prep -> run -> releaseCast -> idle
            "queued"      semaphore  future done   session     "started"    with     run_     "released"
            broadcast                not resumed   lock        broadcast    block    stream   broadcast

`Enter`, `TrySemaphore`, `ResumeSemaphore`, `LockAcquired`, `MarkRunning`, `BeginStream`, `Finish`, `ReleaseDone` are the
stretches of `acquire` and `execute` between two suspensions. `CancelDelivered` is the `CancelledError` raised at whichever
suspension the task is in, and `Cleanup` the `finally` block all ways out share. `CancelSession`, `TtlElapses`,
`EvictScan`, `StopBegin`, `StopFinish` are the other operations.

* *Where a task suspends.* No body under `_pool_lock` awaits, so the lock is never contended; `materialize`,
  `Agent.aclose` and the sweep never suspend either. That makes one pass of the sweep one step.
* *Semaphore and lock* are the standard library's (Python 3.12 or later, as `pyproject.toml` asks), modelled from its
  documented behaviour: first in first out, a completed future owns its slot before its task resumes, a cancelled waiter passes
  the wake-up on. `semAhead` and `lockAhead` hold, for each waiter, the waiters ahead of it: queues without sequences,
  which is also what keeps the proofs in first-order logic.
* *The lock object.* The sweep drops the lock from `_session_locks`, not from under the tasks that use it. `lockOn[s]` are the
  tasks on the lock that is registered now; a task that is on no registered lock goes on with the one it has.
* *Time.* `idle` holds the sessions whose `last_used` is older than `idle_ttl_seconds`. `LongRuns` says whether that may
  happen while a run goes on; `last_used` is not touched during a run.

### HitlApproval

One run of one session, which pauses several times and keeps its `run_id`. An approval id stands for the call it was
asked for. `runState` is the row of the run in `run_states` (the call its snapshot waits for), `approval` the rows of
`approval_requests`. A *handler* is a task that handles an inbound message, a *runner* a background task that executes
the run. An action is what a task does up to and including one statement on a table, because every statement suspends:

| Code | Actions |
|---|---|
| `HITLManager.pause`, `HITLBridge.handle_approval_needed` | `Pause`, `SaveRunState`, `AskApproval`, `AskFails` |
| `HITLBridge.handle_approval_response` | `Click`, `CheckRunState`, `Expire`, `Resolve` |
| `AgentScheduler.handle_user_instruction`, `HITLManager.handle_text_decision` | `TextDecision` |
| `HITLManager.resume`, `spawn_background` | `LoadRunState`, `DeleteAndSpawn`, `DeleteFails` |
| `AgentExecutor.execute`, the pool's lock | `BeginRun`, `EndRun` |
| `MessageRouter` timeout | `TimesOut` |
| `SessionListManager.soft_delete_session` | `DeleteSession`, `WipeSession` |
| startup in `app.py`, `startup_maintenance` | `Crash`, `ReadPending`, `RestoreOne`, `RestoreDone`, `CleanupExpired` |

`resolve_approval_request` is an UPDATE with `status = 'pending'` in its WHERE clause, so `ResolveRequests` is the
compare-and-set everything rests on. `given[a][d]` counts how often an agent was started with decision `d` for call `a`;
it is the history the properties are about. `TextReplies` and `TablesFail` turn on text answers and failing statements.

An INSERT of an approval that times out counts as failed, and the bridge resumes the run with a rejection (`bridge.py:211-224`); but the connection's
thread may execute it all the same, before the next statement. `AskFails` therefore leaves the row or not. Such an approval is pending although its call
is answered; nobody sees its card (`unseen`) until a restart shows it (`RestoreOne`), unless startup finds its RunState gone and rejects it. `late` holds these
approvals, and `misled` becomes true when a button answers one: from there on the code keeps none of the promises below (see "Where the code and its documentation disagree"), so they are stated
until then. An approval leaves `late` when the process dies while the RunState still waits for that very call: the rejection is lost with the process and the call is open again.

### TaskScheduler

An execution is described by where its coroutine is (`pc`):

    none -> load -> create -> start -> wait -> notify -> done          one-shot: -> reap -> waiting -> deleting -> done
            find    INSERT    UPDATE   agent's  after                  the wrapper removes its own task
            task    pending   running  result   completed
                                 \        \_______\__ failing -> failedCast -> done     error, timeout
                                                  \__ cancelling -> done                 CancelledError

`status` holds the records of `task_executions`, `running` the entry of each task in `_running_executions` (with
`_task_execution_map`, which is written with it), `futures` the keys of `_pending_futures`, `armed` the keys of `_cron_handles`,
`agents` the agents at work, which nothing stops. Every way out of an execution runs the `finally` block, `Leave`, which removes the
entry of the *task*, whoever registered it. A one-shot execution is wrapped (`_execute_oneshot`): the wrapper then removes the task. So
the same coroutine can be an execution and the one who removes, and `Procs` are both executions and callers.

A restart triggers executions again without the check that the task is running, and arms the timers right after. Such an execution has no entry before its `Start`, so a timer, or another pending
record of the task, starts a second one beside it. `retried` holds the executions this startup has triggered, and `Fire` may overtake them. What `Fire` may not do with `Overlaps = FALSE` is to fire while an execution that
a timer of the same process started has yet to register. `Loose` are the tasks of `retried`.

| Code | Actions |
|---|---|
| `_on_cron_fire`, `_trigger_scheduled_execution` | `Fire`, `FireSkipped` |
| `_execute_task` | `Load`, `Create`, `Start`, `Complete`, `Notify`, `TimesOut`, `RecordFailure`, `NotifyFailure`, `CancelDelivered`, `MarkCancelled` |
| `AgentScheduler.handle_task_instruction`, `resolve_task_execution` | `AgentEnds` |
| `register_task_definition` | `Register`, `SaveDefinition` |
| `unregister_task_definition`, `_cancel_running_execution` | `Unregister`, `Reap`, `VictimEnded`, `Delete` |
| process death, `initialize_scheduler` | `Crash`, `ReadStale`, `FailStale`, `RetryStale`, `LoadTasks` |

### RunLoop

The phases are the points at which the loop waits:

    idle -> start -> head -> llm -> check -> ready -> act -> head        grace: cancelled, tools have a last moment
     |      restore   ^      one     guard    sandbox, tools  |
     |      memory    |    attempt   HITL    budget   run     |
     +-- RunState <-- pause (check) --------------------------+-> idle with terminal_reason

A turn is the set of calls of one answer, and calls are numbered in the order the LLM makes them, so "the calls before the one that waits" is a
comparison of numbers. `kind` is what the checks will say of a call; `saved` is the RunState. `End` is the common way out of a run (audit
record, event, the `finally` block with its new cancel token), which may itself fail to write its record.

| Code | Actions |
|---|---|
| entry, the three resume decisions, restore | `Start`, `Resume`, `Reject`, `Begin` |
| the loop's head (961-984), 3109-3133 | `HeadEnds` |
| LLM attempts and what ends them | `AskLlm`, `Retry`, `LlmEnds`, `Respond` |
| prescan, pause, refusals | `Pause`, `Ready`, `CommitRefused` |
| `_execute_tools_with_cancel_race` | `Execute`, `ToolReturns`, `CancelWins`, `GraceEnds`, `StepTimeout` |
| results, loop detector, refusal count | `CollectTurn`, `CollectApproved`, `CollectAnswered`, with `Commit` and `Settle` |
| exceptions | `StepFails`, `AuditFailure` |
| `AgentLoop.cancel` | `Stop` |

### ToolHarness

The calls of one tool, in several steps of one agent. `where` says where each coroutine is: `queued` at the semaphore, `waiting` for the future of
the same call, `running` in the tool, `after` it at the feedback stage, `over`. `batch` are the calls the engine's `gather` still waits for; calls that it has
left behind (`gather` raised with another call) go on. `NewTurn` is `reset_turn` with `update_enabled_tools`, `Dispatch` the batch, at
once or after a pause; `Refuse`, `Deduplicate`, `Wait`, `Start`, `StartDisabled` are the five ways through R1, R3, R4 and the registry, `Woken`, `ToolEnds`,
`Finish` what follows; `Return` and `Kill` end the batch. The asyncio locks of the guards are never contended, so they are not in the model.
Time is a choice: a cooldown may be over at any moment. `level` counts how often the cooldown was doubled, up to the maximum.

### BudgetLedger

Callers are runs and setters of a limit. A run enters through `seed_from_store`, is checked, is charged a unit at each step and flushes at its end; a
setter changes a limit and saves it, with the rollback. `line` is `_write_lock` with its queue; under it a worker thread reads the rows (`ReadRows`),
changes its copy and replaces the file (`WriteRows`), or fails. A read that fails gives no rows, and the write then drops those of the others (`blind` holds the callers it happened to). Costs are whole units. `charged` counts what the LLM calls really cost.

A run can be cancelled at each of its awaits, by the router's `wait_for` or with its session (a setter runs in the handler of the desktop's commands, which nothing cancels). `CancelStart` is
a run that had not begun; `CancelSeed` one that waited for the rows of the seed, which are then never taken over although `_seeded` is set; `CancelSave` one at the repository. The last
gives up its place in the line or the lock, but the thread goes on (`"left"`) and so works next to that of the next caller: `beside` holds all whose copies were open together. They share the temporary file, so a write
may also fail or leave a file that cannot be read.

### GatewayLink

A socket is one WebSocket connection, and each has its receive loop (`receivers`) and its ping and ACK loops (`timers`); `latest` is the connection
whose tasks the gateway still knows, so a loop that is not `latest` is one nobody will cancel. Whoever runs `_connect` is a dialer: the application, once
(`"first"`), or the reconnect loop (`"again"`); `Renewers` are the tasks that a refused handshake starts. `at` says where each is, `loop` where the reconnect
loop is. A frame is in `queue`, in a `hand` that sends it, or `pending`; `done` is how it ended. `relayWs`, `wire`, `Replaced` are the relay's side:
it acknowledges on its newest connection and closes the one that was replaced.

| Code | Actions |
|---|---|
| `send_message_frame`, `_ws_send`, `_enqueue_outbound` | `Send`, `SendEnds`, `SendCancelled`, with `Enqueue`, `StartsSending` |
| `_check_pending_ack_timeouts`, `_on_ack_received` | `Retry`, `Expire`, `ReceiveAck` |
| `_receive_loop`, `_ping_loop` | `ReceiveEnds`, `Inactive`, `TimersEnd` |
| `_connect`, `_flush_outbound_queue` | `Establish`, `DialSucceeds`, `DialFails`, `DialRefused`, `Flush`, `Flushed` |
| `_ensure_fresh_token`, `_safe_refresh_and_reconnect` | `TakeLock`, `Renewed`, `NotRenewed`, `CalledBack`, with `GoesOn` |
| `_reconnect_with_backoff`, `_stop_background_tasks` | `Reconnects`, `Stop`, `Wake`, `LoopAfter` |
| `close_relay_connection` | `CloseBegins`, `CloseEnds` |
| network, clock, relay | `Drop`, `TokenExpires`, `Replaced` |

`SendCancelled` is the `CancelledError` at the await of the send: the handler of a message broadcasts through this call, under the router's timeout and the pool's `cancel_session`.
`except Exception` does not see it, so the frame is recorded nowhere and its fate is `"dropped"`. The gateway's own senders, the flush and the retries, run in tasks that are cancelled only when the gateway closes or replaces a connection's loops (`Stop`).

Four timing assumptions, each from the code: between two sends of a flush there is no await, so nothing else runs (`Flushing`); a send to a
socket that is gone raises at once, and in any case before a new handshake completes (`DialSucceeds`); a task that has nothing to wait for has run before a
backoff of at least a second is over (`Wake`); a frame that was written to a live connection is under way when the send returns (`Writes`).

## What TLC checks

| Run | Instance | Checks | Distinct states |
|---|---|---|---|
| `AgentPoolSafety` | 4 interchangeable tasks of one session, 2 slots, long runs, order of service | `TypeOK`, `SlotsConserved`, `NoLostWakeup`, `QueuedCountExact`, `LockExclusive`, `AgentKeptWhileStarting`, `JoinOrder` | 68,562 |
| `AgentPoolShortRuns` | 2 tasks of one session, 1 of another, 2 slots, no long runs | `SessionSequential`, `ImplementsSlots`, `QueuedIsServed` | 126,650 |
| `AgentPoolLongRun` | the same, long runs | `SessionSequential` is violated | |
| `HitlButtons` | 3 pauses, 2 handlers, 2 runners, failing tables, until `misled` | `TypeOK`, `OwnCallOnly`, `ResumedOnce`, `ImplementsGate` | 834,590 |
| `HitlTexts` | 2 pauses, 1 handler, 2 runners, texts | `DecidedOnce`, `StartupRejectsOrphans` | 50,542 |
| `TaskFaults` | 1 one-shot task, 2 executions, 1 caller, 1 crash, all faults | `TypeOK`, `EntryIsLive`, `ExecutionEnds`, `RemovalEnds` | 83,854 |
| `TaskRecords` | 1 recurring and 1 one-shot task, 3 executions, 1 caller, 1 crash, late agents | `OneExecution`, `RunningRowIsLive`, `OutcomeIsFinal` | 1,316,923 |
| `RunLoopSteps` | 2 runs, 3 calls, 2 in an answer, 4 steps; 2 LLM attempts, failures, refusals and corrections | `TypeOK`, `AllowedFirst`, `StartedOnce`, `TurnsAnswered`, `RunIsCutOff`, `ImplementsLifecycle`, `RunEnds` | 1,115,383 |
| `ToolCalls` | 4 calls, 2 argument values, 3 steps, 3 permits, 3 calls a step, breaker at 1 failure, 2 doublings | `TypeOK`, `OncePerTurn`, `StaysOpen`, `BatchEnds` | 435,092 |
| `BudgetRows` | 2 runs, 1 setter, 2 providers, 2 limits, 2 steps, 1 crash | `TypeOK`, `CountedOnce`, `ImplementsStore` | 2,772,432 |
| `GatewayFrames` | 2 frames, 4 sockets, 2 renewers, queue of 1, 1 retry, 4 faults | `TypeOK`, `OnePlace`, `FrameSettles` | 170,440 |
| `GatewayFlush` | the same, 1 fault | `NeverStuck` is violated | |

**Bounds.** Four tasks and two slots are the least that put a task in every place of the pool at once: one running, one
waiting for its lock, one woken and not resumed, one waiting behind it, which is what a lost wake-up or a lost slot needs.
Two sessions are needed only where the lock must not hold up others (`AgentPoolShortRuns`). Three pauses let an
approval of the first meet the RunState of the second and of the third; two handlers let two clicks race, on one
approval or on two; two runners let a resumed run start while the paused one has not yet left. Nothing else is bounded in these:
tasks return to `idle` and call `acquire` again without limit, and handlers and runners are reused. Crashes may happen at
any time and any number of times. The constraint `MCPromised` of `HitlButtons` does not go on from a state in which `misled` holds: all four properties but `TypeOK` hold there
by their first condition, `misled` never becomes false again, and `TypeOK` is proved for those states, too. `given` is bounded because each approval id is drawn once. Symmetry is used only in
runs without liveness properties. In `TaskScheduler` an execution id is used once, as in the code, so the number of executions bounds a
behaviour, and so do the crashes (`MaxCrashes`). A crash that leaves fewer unused ids than pending records is not followed (`IdsSuffice`).
Two executions of a one-shot task are the least in which one removes the task while another runs, and a caller removes it at the same
time; three executions of two tasks add an execution that was interrupted, its repetition after the restart, and a timer.

In `RunLoop` two calls in one answer are the least in which one is kept and one dropped at a pause, three calls let a second turn or a second
pause follow, and four steps let a run pause at its last step and go on; two runs let a new message take over from an abandoned pause. The limits of two
(attempts, failures, refusals, corrections) make each counter be incremented once without effect and once with. In `ToolHarness` four calls let one execute,
one wait for it, one raise or queue behind them and one come in a later step; three permits are the least with which a call can be left
waiting for ever, for the executing, the waiting and the raising call hold one each; a breaker with two doublings goes through every state. In `BudgetLedger` two runs of
one or two providers and a setter meet in the line of the lock in every order; the crash makes a second seed. In `GatewayLink` four sockets let a connection be
replaced while an older one is still being read; four faults are enough to lose a connection, to be refused after it, and to fail a
renewal; the queue of one makes an eviction happen at the second frame. Three frames, a queue of two and two faults (177,147 states) were checked by hand.

**Fairness.** `AgentPool!Fairness` asks that a task that can go on does: the event loop resumes it, a broadcast ends, and
a run ends. `WF` is enough, because the queues are ordered. Nobody has to call `acquire`, `cancel_session` or `stop`, and
the idle sweep need not run. That runs end rests on the engine's step limit and the timeouts of its LLM calls. `TaskScheduler!FairSpec`
asks the same of the steps of an execution and of a removal: statements return or fail within the query timeout, notifications end, and
`TimesOut` is the timer of `wait_for`. Neither `AgentEnds` nor any timer nor the restart is fair: an execution must end although its agent hangs. In
`HitlApproval` only `Startup` is fair: startup goes on by itself until it is done or the process dies. No user has to
answer. `RunLoop!Fairness` is one weak fairness of `Engine`: the loop's task is scheduled, and every wait of it has a timeout, which is why the
action includes `StepTimeout`; no tool has to return, nobody has to stop or resume a run. `ToolHarness!Fairness` assumes that a tool returns, for
otherwise the batch ends only by the engine's timeout, which is `Kill`. In `GatewayLink` the tasks of the gateway go on and sends, handshakes and
renewals end; no fault has to happen, the relay need not acknowledge anything, and since faults are bounded a connection stays some time.

**What the properties say**, beyond their names: `NoLostWakeup` says that a slot is never free next to a waiter nobody
will wake, and `QueuedIsServed` uses it; `JoinOrder` covers the order through both queues, semaphore and lock, with
cancellations in both; `ImplementsSlots` and `ImplementsGate` are refinements, so they cover every step and not only
every state; `StartupRejectsOrphans` is about an approval whose RunState the startup cleanup has deleted and holds although
clicks and pauses go on during startup; `RemovalEnds` is the absence of a circle of coroutines that wait for each other;
`OwnCallOnly`, `ResumedOnce` and `ImplementsGate` promise nothing once a button has answered an approval whose failed INSERT took effect;
`OneExecution` excepts the tasks that this startup has triggered again, until the next restart; both are exceptions because the code breaks its promise there, and both are in the list of findings below.
`OutcomeIsFinal` and `RunningRowIsLive` make an exception for a task that is being removed, because a removal cancels an execution at any
await and then deletes its records; `RunIsCutOff` excepts runs with a question to the user, whose RunState does forget the loop detector; `TurnsAnswered`
excepts an approved batch that a tool halts, which the code commits without the results after the halting one; `BatchEnds` holds although
a call of an abandoned step may wait for ever and keep its permit; `CountedOnce` bounds what is counted from above only, because the ledger
may lose cost; `ImplementsStore` says that of two changes of the file neither undoes the other, unless the thread of one could not read the file or has worked next to the thread of a cancelled run: of those (`exposed`) `BudgetStore` promises only that what
was asked for is in the file, if anything is; all other requests stay atomic while they go on. `OnePlace` is the at-least-once promise of the gateway as
a state, and `FrameSettles` as a promise about the future; a frame whose sender was cancelled counts as settled in both, since the gateway loses it.

## What is proved

TLAPS proves these for all values of the constants that satisfy the named assumptions (`PoolAssumption`:
finitely many tasks, `max_concurrent` positive, as `__init__` enforces; `HitlAssumption`: handlers and runners differ;
`TaskAssumption`: executions and callers differ, there is a task; `RunLoopAssumption`, `ToolHarnessAssumption`, `BudgetAssumption`,
`GatewayAssumption`: bounds are natural numbers, the limits that the configuration requires to be positive are, and the kinds of processes differ).

| Theorem | Property | Extra assumption |
|---|---|---|
| `AgentPoolProofs!TypeCorrect` | `TypeOK` | |
| `AgentPoolProofs!SlotsAreConserved` | `SlotsConserved` | |
| `AgentPoolProofs!QueuedCountIsExact` | `QueuedCountExact` | |
| `AgentPoolProofs!WakeupsAreNotLost` | `NoLostWakeup` | |
| `AgentPoolServing!LockIsExclusive` | `LockExclusive` | |
| `AgentPoolServing!AgentIsKept` | `AgentKeptWhileStarting` | |
| `AgentPoolServing!SessionsAreSequential` | `SessionSequential` | no long runs |
| `AgentPoolServing!PoolImplementsSlots` | `ImplementsSlots` | no long runs |
| `AgentPoolServing!OrderIsKept` | `JoinOrder` | |
| `AgentPoolServing!NobodyWaitsInCircles` | (`NobodyIsStuck`, for `QueuedIsServed`) | |
| `HitlApprovalProofs!TypeCorrect` | `TypeOK` | |
| `HitlApprovalProofs!DecisionsAreFinal` | `DecidedOnce` | |
| `HitlApprovalProofs!OnlyApprovedCallsAreMade` | `OwnCallOnly` | button answers (until `misled`, as the property says) |
| `HitlApprovalProofs!RunsAreResumedOnce` | `ResumedOnce` | button answers (until `misled`, as the property says) |
| `HitlApprovalProofs!HitlImplementsGate` | `ImplementsGate` | button answers (until `misled`, as the property says) |
| `TaskSchedulerProofs!TypeCorrect` | `TypeOK` | |
| `TaskSchedulerProofs!EntriesAreLive` | `EntryIsLive` | |
| `TaskSchedulerProofs!OutcomesAreFinal` | `OutcomeIsFinal` | no statement fails |
| `TaskSchedulerProofs!RunningRowsAreLive` | `RunningRowIsLive` | no statement fails |
| `TaskSchedulerProofs!OneExecutionAtATime` | `OneExecution` | no statement fails, no timer overtakes the execution it started |
| `TaskSchedulerProofs!SchedulerImplementsRuns` | (`ImplementsTaskRuns`) | the same |
| `TaskSchedulerProofs!AwaitedExecutionsEnd` | (`AwaitedIsEnding`, for `RemovalEnds`) | |
| `TaskSchedulerProofs!ExecutionsEnd` | (`ExecutionsGoOn`, `ExecutionsAdvance`, for `ExecutionEnds`) | |
| `RunLoopProofs!TypeCorrect` | `TypeOK` | |
| `RunLoopProofs!NothingIsExecutedUnasked` | `AllowedFirst` | |
| `RunLoopProofs!CallsAreStartedOnce` | `StartedOnce` | |
| `RunLoopProofs!TurnsAreAnswered` | `TurnsAnswered` | |
| `RunLoopProofs!RunsAreCutOff` | `RunIsCutOff` | |
| `RunLoopProofs!LoopImplementsLifecycle` | `ImplementsLifecycle` | |
| `RunLoopProofs!RunsNearTheirEnd` | (`RunNearsItsEnd`, for `RunEnds`) | |
| `ToolHarnessProofs!TypeCorrect` | `TypeOK` | |
| `ToolHarnessProofs!ToolRunsOncePerTurn` | `OncePerTurn` | |
| `ToolHarnessProofs!PermanentBreakerStaysOpen` | `StaysOpen` | |
| `ToolHarnessProofs!BatchesGoOn` | (`BatchGoesOn`, for `BatchEnds`) | |
| `BudgetLedgerProofs!TypeCorrect` | `TypeOK` | |
| `BudgetLedgerProofs!CostsAreCountedOnce` | `CountedOnce` | |
| `BudgetLedgerProofs!LedgerImplementsStore` | `ImplementsStore` | |
| `GatewayLinkProofs!TypeCorrect` | `TypeOK` | |
| `GatewayLinkProofs!FramesAreKept` | `OnePlace` | |
| `GatewayLinkProofs!UnsettledFramesGoOn` | (`FramesGoOn`, for `FrameSettles`) | |

A property in parentheses is stated in the model or beside the theorem and checked by no run.

The extra assumptions are the ones under which the code keeps the promise: without them TLC shows how it is broken
(`AgentPoolLongRun`; with text answers, two answers may both load the RunState before either deletes it; when
the query a notification starts with fails, `COMPLETED` becomes `FAILED`, and when the statement that records an outcome fails, the record says
running for ever; a timer that fires again before the execution it started has registered starts a second one, as nothing has been entered yet for the
duplicate check to see). `TaskRecords` keeps to the same assumptions, `TaskFaults` turns all
the faults on.

**The pool.** `PoolInv` is `TypeOK` with "a pending task is suspended before its run, and one suspended there is pending
until `stop`"; type correctness needs it because the counter must not go below zero. Slots and the queue counter
(`CountersInv`) follow by counting the tasks that an action moves in or out of `Permit` and `Queued`: an action moves at
most one task itself and the set `W` it wakes, and `W` is a subset of the waiters with as many elements as the semaphore
lost. `NoLostWakeup` is inductive beside these because whoever frees a slot wakes somebody if somebody waits. For the lock, `LockInv`
says that of two tasks on one registered lock one is ahead of the other, unless one of them was cancelled while waiting; hence
`LockExclusive`. `ServingInv` adds that, without long runs, a task that has the lock of its session is on the *registered* lock:
the sweep drops a lock only of an entry that is idle and has no pending task, and a holder is pending, or started less than the TTL
ago. Sequence and the refinement follow.

The order (`OrderInv`) holds with long runs too. `WaitersRegistered` is what saves it: until `stop` clears the table, whoever *waits* for a session lock waits for the registered one, because a waiter
is pending and the sweep spares the sessions of pending tasks; only holders are left on dropped locks. `Before(u, t)` then says where u is while t waits behind it: in the semaphore's line ahead of t, or one queue
further; and u has been woken if t has. A wake-up keeps it because the waiters it wakes are a prefix of the line.

Deadlock freedom rests on two facts about the lines: what is ahead of a task includes what is ahead of those (`SlotChain`), for the locks up to tasks that were cancelled (`LockChain`), for a waiter that was
cancelled before it got the lock does not hold up a newcomer. In such a line a nonempty set of tasks has one that waits for no other of the set (`FirstOfLine`, from the least number of tasks ahead).
Hence whoever waits for a session lock waits in the end for a task of the session that can go on; if everybody waited for a slot, no slot would be taken (`SlotsConserved`) and none would be free beside a waiter (`NoLostWakeup`), and there is at least one; and a wake-up always
finds the waiters it is to wake, so no action of the model is disabled for want of them. `CanGoOn` repeats the guards of the actions, as the prover does not deal with `ENABLED`; that what can go on does is the fairness of `QueuedIsServed`, which stays with TLC.

**HITL.** `GateInv` is the inductive invariant. Its heart is `OneThread`: the run is at exactly one place, in a runner, in a
handler that won the compare-and-set and carries the decision, or in a pending approval. An action either removes the
run from its place (a crash, a timeout, an end) or passes it from one place to the next, and never duplicates it. The
rest ties the places together: what is stored fits the pause it is about (`SavedForCall`), only the last pause can be
unanswered (`AnsweredLast`), a carried decision is the stored one (`DecisionFits`). It is needed because `ResumedOnce` alone says
nothing about decisions under way. TLC checked `GateInv` on the instance of `HitlButtons` before it was proved. All this is claimed only until `misled` (`Orderly`). An approval in `late` is
not one the run waits for (`Awaited`): it counts as never asked (`Unasked`), in the invariant as in the abstract specification, and the compare-and-set that would let somebody carry its decision is the step that makes `misled` true. The types, the stored decisions (`AskInv`) and
`LateInv`, that what is late was drawn and stored, hold beyond.

**The task scheduler.** `EntryIsLive` is inductive together with `TypeOK`: whoever leaves takes the entry of its own task along. For the
outcomes, `OutcomeInv` adds what each place of an execution implies about its record (`RecordFits`; before `Complete` it cannot be final, and
what startup has read as running is of an execution that is gone), that a cancelled execution is awaited by somebody who removes its task
(`CancelFits`), which is what makes the change from completed to cancelled harmless, and that nothing runs between crash and restart (`DownInv`).
`RunningRowFits` adds the converse for records that say running: their execution is at a stage that has yet to record its outcome, or among those the startup has read and still has to fail, or its task is being removed.

One execution at a time needs `SingleInv` beside that: of a task that is not `Loose` at most one execution is in progress (`OneInProgress`), a registered one of it is the entry of the task (`EntryKnown`), and an execution that has not begun has no history (`Unborn`). A timer finds either the entry or
an execution that has yet to register, and only one that the startup has triggered may be overtaken, which makes its task loose. A crash empties `retried` and leaves nothing in progress, so the number of restarts does not matter. The refinement of `TaskRuns` follows:
an execution is active from its start to its leaving, its record is open while it says pending or running, a task is being removed while somebody waits for its execution or deletes its rows. Most steps are invisible; those that are not are `Begin` (`Spawn`), `Open` (`Create`),
`Close` (`Complete`, `RecordFailure`), `End`, `CutOff` (`MarkCancelled`), `Remove`, `Erase`, `Crash`, `Recover` (`FailStale`) and `Again` (`RetryStale`), which makes the task loose. TLC confirmed the refinement on the instance of `TaskRecords`; it is in no run, as it makes that one four times as long. `AwaitedIsEnding` is the safety half of
`RemovalEnds`, for all faults: who removes a task awaits an execution of that task which was cancelled and itself waits for nobody, so a one-shot task that removes itself never awaits itself, nor do two removals await each other.
`ExecutionsEnd` says the same of every execution. Each step of its own brings it to a later one of twelve places (`Place`), a cancellation included, and nothing takes it back. Until it is done it can take its next step, or it awaits an
execution that can, or it has a future and its agent is at work or has left the result (`ResultExpected`): no result gets lost between the agent and the execution that waits for it, whatever is removed, restarted or times out meanwhile.

**The run loop.** `LoopInv` says what each phase has at hand (`ShapeInv`: what executes is the turn without its refused calls), that a RunState keeps a turn
that nothing has executed or committed and in which only the call it waits for needs the user (`SavedInv`), that the same holds of a turn under way until it is executed (`TurnInv`), and
that nothing is started, committed or allowed that the LLM has not proposed (`KnownInv`). The properties of the calls are inductive only beside these: a resumed batch is executed
without new checks, and only `SavedInv` tells that it holds no other call that must wait. `CutInv` ties the counters of a run to what a RunState carries: a resumed run has a step more than it may
ask in, because its first step asks nothing (`StepsInv`), and an approval keeps the count of corrections (`WarnedInv`). For the refinement `AnsweredInv` adds that only calls of a turn are answered in it.

`RunsNearTheirEnd` gives a run under way a measure, `ToDo`: the steps the `for` loop has left; the phase within the step; and what can still happen within the phase, namely LLM attempts to repeat (`AttemptInv`: there always is one), tools that
have not returned, and a stop request not yet made. Each step lowers it in the lexicographic order, or ends the run. That the order is well-founded is part of the theorem, from the library's `WFLexPairOrdering`. A correction by the loop detector, a
refused batch and a step that fails all cost a step, which is why none of them can keep a run going.

**The harness.** `HarnessInv` rests on `TraceInv`: arguments that were executed in this step are registered, cached or noted as failed, or the batch is over and nothing is queued. The second case is there because
a killed batch cancels futures of which no trace remains; it is harmless because the semaphore lets calls through in the order of their dispatch, so calls left over from an earlier step are past it (`OrderInv`).
`ExecInv` says that whoever is registered for arguments has them and is past the semaphore. `StaysOpen` needs that a breaker is tried only below its last cooldown (`Sound`).

That a batch goes on needs to know whom a reset forgets (`GoesOnInv`). A waiting call is `Told` when the future it waits for is settled or its executor is still registered, to settle it some time. `NewTurn` alone
takes the registration away without settling the future, and `Forgotten` calls then wait for ever, with a permit each. But they never hold all permits: at the reset that forgets a call its executor holds
one too, and nobody becomes forgotten later, as no action but `NewTurn` drops a registration and leaves its future. So if nothing executes and nobody is told, a permit is free, and the first in line gets it. Of the batch itself nobody is ever forgotten, since a
reset comes only after the batch has been given up.

**The ledger.** `LedgerInv` is `TypeOK` with `LineInv` and `CopyInv`. `LineInv`: nobody is twice in the line, whoever has a copy of the rows is at its head or was left behind, and only those who are at the repository ask it for something. `CopyInv`: a copy is still the file unless its caller is in `beside` or
`blind`, and if two callers have copies both are in `beside`. The second is what makes the first inductive: a write changes the file under all other copies, and these are then exposed already. A run that is cancelled keeps its copy and leaves the line, and the
next `ReadRows` finds it there. The refinement follows: a caller in neither set writes what the abstract store would. For `CountedOnce`, `SpentInv` puts the same bound on every
amount under way: the rows a seed has read, each copy and each request, those of cancelled runs included. A write of a stale copy can therefore take amounts back, never raise them. That an exposed request still leaves what was asked for in the file is `SavedTwice`: saving it once more changes nothing.

**The gateway.** `OnePlace` is inductive beside `TypeOK`: each action moves one frame from one place to the next; a cancelled sender takes its frame from the hand to its end. `Enqueue` takes two cases, and in an eviction the head differs from the new tail because a frame is queued
once; so most of the proof is about what appending and removing do to the positions of a queue.

That an unsettled frame is not forgotten (`FramesGoOn`) needs to know who is at work on the link (`LinkInv`, while the gateway is not closed). While it takes itself for connected, the timers and the receive loop of its connection run, a lost
connection on which a frame is being sent has a receive loop that has yet to notice, and a queue is not empty only until a receive loop notices a loss or a flush is done (`ConnectedInv`). If neither the reconnect loop nor a renewal nor the first dialer is at
work, then it does take itself for connected (`QuietInv`), unless it has spent its token in vain. Renewals exclude each other (`TokenInv`), the first dialer is alone until it has connected (`FirstInv`), and a reconnect loop ends
only when it finds the gateway connected, or closed. So a frame in the queue has somebody who is bringing a link, and one that awaits its ACK has its timer. A dial counts as work under way: that it ends, with a connection or a failure, is
the network's part (and the bound `Sockets` ends it in the model).

**Only model-checked.** `QueuedIsServed`, `StartupRejectsOrphans`, `ExecutionEnds`, `RemovalEnds`, `RunEnds`, `BatchEnds` and `FrameSettles`, as liveness under fairness is beyond the prover, and the properties that are violated. Of all but
`StartupRejectsOrphans`, whose safety part only repeats what each startup action does, theorems give the part that is safety: somebody can always go on, and for an execution and a run also that finitely many steps lead to the end. Every other property of the runs is stated by a theorem.

## Where the code and its documentation disagree

1. **Two runs of one session** (`AgentPoolLongRun`). The `finally` block of `acquire` resets `running_since` whoever leaves. A
   stop request while a run of the session is under way and a second message waits cancels only the waiter; from then on the
   entry looks idle, after the TTL the sweep drops agent and lock, and the next message runs beside the first run.
2. **The flush that never ends** (`GatewayFlush`). A frame that cannot be sent while the queue is flushed goes back into that queue without an await, and the flush takes it out again. A
   connection lost at that moment stops the whole process, where `gateway.py:24` promises that a lost connection blocks nothing.

Found while reading and modelling, without a run of their own:

* *Pool.* `bound_mode` dies with the entry: an approval given after the idle TTL continues in the default mode, which `agent_pool.py:601` says must never happen (line 561). A stop
  between the end of `acquire` and `run_stream` is forgotten, as `run_stream` replaces the cancel token (`run_core.py:597`, against `scheduler.py:357`). The header of `agent_pool.py`
  promises LRU eviction and there is none (line 13); `_get_or_materialize`'s branch for a lost race (533-555) cannot be reached; locks of sessions whose agent never materialised are
  never dropped; waiters for a session lock hold a slot meanwhile.
* *HITL.* A text answer leaves its approval pending and the run keeps its `run_id`, so clicking the first card later approves the call the run waits for then (`hitl_manager.py:333`,
  against `bridge.py:6`). With text answers a pause may be resumed twice, although deleting the RunState is documented to prevent it (`sqlite_run_state_repo.py:4`). `cleanup_orphans` is
  documented as part of startup (`sqlite_run_state_repo.py:115`) and never called. An INSERT of an approval that times out and takes effect leaves a pending approval of a call that was refused; a restart shows its card, and clicking it
  decides the call the run waits for by then, or resumes the run a second time (`bridge.py:211-224`, against `bridge.py:6`; TLC finds `OwnCallOnly` and `ResumedOnce` violated without their condition `~misled`). The router's comment at line 375 says a handler that timed out goes on in the background; `wait_for` cancels it.
* *Tasks.* A pending record is triggered again at every restart and never closed; once there are two of one task, the next startup runs both at once (`task_scheduler.py:998`, against lines 9 and 19). The re-triggered execution is not entered before line 546, so the task's timer, armed right after (1043-1049),
  may start a second one beside it; and as each takes the other's entry along when it leaves, the executions of that task may go on overlapping until the next restart.
* *Run loop.* A guard's halt is documented as audited (`behavior/step_guard.py:7`) and writes no audit record (1942-1967). An approved batch that a tool halts commits calls without results
  (1097-1112), against the comment at 505. Entering or leaving the plan mode in a resumed batch has no effect (1075-1332). Calls after a halting one were executed but are recorded as having
  produced no result (2667-2674). A question forgets the loop detector (2339-2370). An exception in a resumed step loses the approved call (1002). A pause at the last step allows one step more (928).
* *Harness.* A breaker that opened cannot recover in a later step: the tool is disabled at the step's start while it is open, the trial call is then refused by the registry, and that counts as a failure
  (`circuit_breaker.py:3` promises the recovery). HALF_OPEN lets every call through. A call that waits when `reset_turn` drops its future waits for ever and keeps its permit (`idempotency.py:116`).
  `execute_tools_concurrent` says it never raises (`executor.py:469`) and does when the same call follows a failed one (`idempotency.py:52`).
* *Ledger.* `flush` clears the whole dirty set after its await (`ledger.py:305`), `seed` replaces what was charged while it read (283), the rollback of a failed `set_budget` undoes a limit set meanwhile (242): all three
  against `ledger.py:12-15`. A failed read inside a change of the file drops the other rows (`repo.py:125`). A run that is cancelled during its flush releases `_write_lock` while its thread still reads or writes, so the next request may undo what it saves or be undone, and the two share
  the temporary file (`repo.py:160`): both against the class comment (`repo.py:107-111`). A run that is cancelled while it seeds leaves `_seeded` set and the accounts empty until the process ends (`ledger.py:281-288`, `executor.py:392`): limits are not enforced, and later flushes overwrite the stored amounts with smaller ones.
* *Gateway.* A frame whose sender is cancelled at the await of the send is neither queued nor awaiting its ACK (`gateway.py:287`; line 295 catches `Exception` only), against I2 and I4 in lines 280-282. An ACK that overtakes the entry it acknowledges is ignored, and the frame sent again and at last reported as failed although it arrived; nothing registers for that report. A late receive
  loop of an old connection marks the new one disconnected (826). The reconnect loop dials again without stopping the tasks of a connection that was lost during its own flush, so ping loops accumulate. A close during a
  handshake leaves an open connection. A 403 with a token that has not expired "renews" without a request. Inbound, the ACK is sent before the handler's task starts (963-972), so a crash loses the message; the relay clears its
  buffer before it drains it and stops at the first failure (`pandapal_relay/server.py:377-387`).

## Abstractions and what is not modelled

* Pool: prompts and their refresh, statistics and the payload of broadcasts. A stop request by a user who does not own the session
  changes nothing. `start()` is called once per process, so a stopped pool stays stopped. In the model a task takes a free session
  lock in a step of its own, which only adds interleavings. The awaits between `acquire` and `run_stream` take less than the idle TTL.
* HITL: the SQLite repositories. A timed-out statement that takes effect does so before the next statement: the one connection has one thread and one queue. Broadcasting does not fail. A row with a missing `model_id` or another session's
  snapshot is a resume that gives up. Soft deletion rejects the approvals one by one; the model does it in one step over any subset,
  which is the same to every property here, as each is a compare-and-set of its own. The hint for other texts changes no table.
  `is_pending` returns "not pending" when its query fails; the instruction then starts another run, which the model of one run leaves out.
* Task scheduler: manual and event triggers and `shutdown_scheduler`, which nothing in the repository calls; the 50-task limit, the check for equal
  names and of the cron expression, after which a registration is refused without any change; whom a notification is sent to. Each save, update and
  delete is one step with its commit. A timer does not fire again before the execution it started itself has registered, a few statements later, except
  with `Overlaps` (a cron expression is at best by the second); it may overtake an execution that the restart has triggered. The task tools are not called during startup, as an agent has to answer first, nor for
  one task by two calls at once, which would leave a timer without a handle. A failing `inject_inbound_message` looks like a timeout.
* Run loop: prompts, token and cost counts, events, skills; the plan mode except that a `submit` call ends a run; tools that outlive the grace period; a RunState of another session, which is refused. What a check says of a
  call (`kind`) is chosen when the call is made: checks have no state of their own that the model keeps.
* Harness: one tool. Argument validation and the feedback stage's content change nothing here; the count of calls is per tool and step, as in the code.
* Ledger: whole units in place of amounts in several currencies; the bucket of unattributed cost. The requests of setters and the status query are not cancelled, as nothing cancels the handler of the desktop's commands.
* Gateway: inbound messages, offline batches and their acknowledgements; `force_reconnect`, which nothing calls; the relay beyond what it does to the gateway's frames. Ping and ACK loops of a connection are one member of `timers`.
* Several paused runs of one session, ask_user and plan pauses, and the Markdown repositories are not in the model.
* Everything with status `not_modelled` in `PROJECT.json`, for the reason given there.

## Plan

Done: 1. `AgentPool` with `SessionSlots`, 2. `HitlApproval` with `ApprovalGate`, 3. `TaskScheduler` with `TaskRuns`, 4. `BudgetLedger` with `BudgetStore`, 5. `ToolHarness`, 6. `RunLoop` with `CallLifecycle`,
7. `GatewayLink`; each with theorems.

Left, in order of importance:

1. The inbound half of the link with the relay's buffers: a message is handled at least once.
2. `Interaction`: questions and plans with their owner tables, which have a cap (`plan_manager.py:72`); the double answer. A scheduled task that pauses there counts as completed (`scheduler.py:446`).
3. `RouterDedup`: the window as a bounded queue with ages; a message inside the window is handled once.
4. The plan mode of the run loop, the session list and the agent task tools.
5. `RunLoop` composed with `ToolHarness`: calls left behind by one step in the batches of the next.

## Running

    tlc -workers 2 -config AgentPoolSafety.cfg MCAgentPoolHistory
    tlapm AgentPoolServing.tla

Every `.cfg` names its run; `PROJECT.json` gives the module. Each property of a passing run has a mutant there: a plausible error in
one definition under which TLC finds that property violated.
