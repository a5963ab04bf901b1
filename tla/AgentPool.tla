------------------------------ MODULE AgentPool ------------------------------
(***************************************************************************)
(* SessionAgentPool (src/pandapal/scheduler/agent_pool.py): an asyncio     *)
(* semaphore bounds the number of sessions served at once, a lock per      *)
(* session serialises the instructions of one session, and an idle sweep   *)
(* drops the agent and the lock of a session nobody used for a while.      *)
(*                                                                         *)
(* One action is the code between two points where a task really suspends. *)
(* No body guarded by _pool_lock awaits anything, so that lock is never    *)
(* contended and taking it never suspends; materialize, Agent.aclose and   *)
(* the eviction sweep never suspend either.  What suspends is a broadcast, *)
(* the semaphore, the session lock, and the run itself.  One scheduling    *)
(* point is added: a task that finds the session lock free takes it in an  *)
(* action of its own, where the code goes on without yielding.             *)
(***************************************************************************)
EXTENDS Naturals, FiniteSets

CONSTANTS
  Tasks,          \* instruction tasks, each of them may call acquire again
  Sessions,
  SessionOf,      \* the session a task works for
  Modes,          \* prompt modes a message may name
  NoMode,         \* a message that names no mode, as every resume does
  ModeOf,         \* the mode the task's message names
  DefaultMode,
  MaxConcurrent,
  LongRuns        \* may a run outlast idle_ttl_seconds?

ASSUME PoolAssumption ==
  /\ IsFiniteSet(Tasks)
  /\ SessionOf \in [Tasks -> Sessions]
  /\ NoMode \notin Modes
  /\ DefaultMode \in Modes
  /\ ModeOf \in [Tasks -> Modes \cup {NoMode}]
  /\ MaxConcurrent \in Nat \ {0}
  /\ LongRuns \in BOOLEAN

VARIABLES
  phase,          \* "up", "stopping" (_shutdown is set), "stopped"
  pc,             \* where each task is suspended
  cancelling,     \* tasks with a task.cancel() still to be delivered
  pending,        \* _pending_acquires
  queuedCount,    \* _queued_count
  semVal,         \* _semaphore._value
  semAhead,       \* _semaphore._waiters, as the waiters ahead of each task
  lockOn,         \* holder and waiters of the lock _session_locks has for s
  lockAhead,      \* tasks ahead of each task on its session lock
  agents,         \* keys of _agents
  running,        \* entries with running_since set
  idle,           \* entries whose last_used is older than the TTL
  boundMode,      \* entry.bound_mode
  stopFlag        \* entries whose agent's cancel token is set

semVars  == <<semVal, semAhead>>
lockVars == <<lockOn, lockAhead>>
entryVars == <<agents, running, idle, boundMode, stopFlag>>
vars == <<phase, pc, cancelling, pending, queuedCount,
          semVars, lockVars, entryVars>>

-----------------------------------------------------------------------------
(* Where a task may be suspended, in the order of acquire().               *)

Queued  == {"queuedCast", "semWait", "semGranted"}  \* was_queued, no slot yet
Holding == {"startCast", "prep", "run"}             \* has the session lock
Using   == {"prep", "run"}                          \* inside the with block
Pending == Queued \cup {"lockWait", "startCast"}
Permit  == {"semGranted", "lockWait"} \cup Holding
Stages  == {"idle", "releaseCast"} \cup Pending \cup Using

In(S) == {t \in Tasks : pc[t] \in S}
TasksOf(s) == {t \in Tasks : SessionOf[t] = s}

TypeOK ==
  /\ phase \in {"up", "stopping", "stopped"}
  /\ pc \in [Tasks -> Stages]
  /\ cancelling \subseteq Tasks
  /\ pending \subseteq Tasks
  /\ queuedCount \in Nat
  /\ semVal \in Nat
  /\ semAhead \in [Tasks -> SUBSET Tasks]
  /\ lockOn \in [Sessions -> SUBSET Tasks]
  /\ lockAhead \in [Tasks -> SUBSET Tasks]
  /\ agents \subseteq Sessions
  /\ running \subseteq agents
  /\ idle \subseteq agents
  /\ stopFlag \subseteq agents
  /\ boundMode \in [Sessions -> Modes \cup {NoMode}]

Init ==
  /\ phase = "up"
  /\ pc = [t \in Tasks |-> "idle"]
  /\ cancelling = {}
  /\ pending = {}
  /\ queuedCount = 0
  /\ semVal = MaxConcurrent
  /\ semAhead = [t \in Tasks |-> {}]
  /\ lockOn = [s \in Sessions |-> {}]
  /\ lockAhead = [t \in Tasks |-> {}]
  /\ agents = {}
  /\ running = {}
  /\ idle = {}
  /\ stopFlag = {}
  /\ boundMode = [s \in Sessions |-> NoMode]

-----------------------------------------------------------------------------
(* The asyncio semaphore.  A waiter whose future was cancelled no longer   *)
(* counts; one whose future was completed owns a slot but has not resumed. *)

SemWaiters == {t \in Tasks : pc[t] = "semWait" /\ t \notin cancelling}

SemLocked == semVal = 0 \/ SemWaiters # {} \/ In({"semGranted"}) # {}

\* W is what up to k calls of _wake_up_next complete: the first k waiters.
FirstWaiters(k, W) ==
  /\ W \subseteq SemWaiters
  /\ Cardinality(W) = IF k < Cardinality(SemWaiters)
                      THEN k ELSE Cardinality(SemWaiters)
  /\ \A u \in W : semAhead[u] \cap SemWaiters \subseteq W

(* The session lock: a task owns it when nobody is ahead of it.  A waiter  *)
(* cancelled before it got the lock does not hold up a newcomer.           *)
LockBlockersAnyCancelled(s) == {u \in lockOn[s] : u \notin cancelling}

LockBlockers(s) ==
  {u \in lockOn[s] : \/ u \notin cancelling
                     \/ pc[u] # "lockWait"
                     \/ lockAhead[u] = {}}

JoinLock(t) ==
  /\ lockAhead' = [lockAhead EXCEPT ![t] = LockBlockers(SessionOf[t])]
  /\ lockOn' = [lockOn EXCEPT ![SessionOf[t]] = @ \cup {t}]

-----------------------------------------------------------------------------
(* acquire                                                                 *)

\* Up to the first suspension: a free slot is taken at once, otherwise the
\* task is counted as queued and broadcasts "queued".
Enter(t) ==
  /\ phase = "up"
  /\ pc[t] = "idle"
  /\ pending' = pending \cup {t}
  /\ \/ /\ ~SemLocked
        /\ semVal' = semVal - 1
        /\ JoinLock(t)
        /\ pc' = [pc EXCEPT ![t] = "lockWait"]
        /\ UNCHANGED queuedCount
     \/ /\ SemLocked
        /\ queuedCount' = queuedCount + 1
        /\ pc' = [pc EXCEPT ![t] = "queuedCast"]
        /\ UNCHANGED <<semVal, lockVars>>
  /\ UNCHANGED <<phase, cancelling, semAhead, entryVars>>

\* _queued_count = max(0, _queued_count - 1)
DecrementQueued == IF queuedCount > 0 THEN queuedCount - 1 ELSE 0

\* The "queued" broadcast is done: the semaphore is tried.
TrySemaphore(t) ==
  /\ pc[t] = "queuedCast"
  /\ t \notin cancelling
  /\ \/ /\ ~SemLocked
        /\ semVal' = semVal - 1
        /\ queuedCount' = DecrementQueued
        /\ JoinLock(t)
        /\ pc' = [pc EXCEPT ![t] = "lockWait"]
        /\ UNCHANGED semAhead
     \/ /\ SemLocked
        /\ semAhead' = [semAhead EXCEPT ![t] = In({"semWait", "semGranted"})]
        /\ pc' = [pc EXCEPT ![t] = "semWait"]
        /\ UNCHANGED <<semVal, queuedCount, lockVars>>
  /\ UNCHANGED <<phase, cancelling, pending, entryVars>>

\* A woken waiter resumes, first woken first, wakes others while slots are
\* left, and queues for the lock of its session.
ResumeSemaphore(t) ==
  /\ pc[t] = "semGranted"
  /\ t \notin cancelling
  /\ semAhead[t] \cap In({"semGranted"}) = {}
  /\ \E W \in SUBSET SemWaiters :
        /\ FirstWaiters(semVal, W)
        /\ semVal' = semVal - Cardinality(W)
        /\ pc' = [u \in Tasks |-> IF u = t THEN "lockWait"
                                  ELSE IF u \in W THEN "semGranted" ELSE pc[u]]
  /\ semAhead' = [u \in Tasks |-> semAhead[u] \ {t}]
  /\ queuedCount' = DecrementQueued
  /\ JoinLock(t)
  /\ UNCHANGED <<phase, cancelling, pending, entryVars>>

\* The mode a fresh entry is bound to; an entry in place keeps its mode.
Bind(t) ==
  IF SessionOf[t] \in agents
  THEN boundMode
  ELSE [boundMode EXCEPT ![SessionOf[t]] =
          IF ModeOf[t] = NoMode THEN DefaultMode ELSE ModeOf[t]]

\* The task owns the session lock: the agent is reused or materialised, and
\* "started" is broadcast.
LockAcquired(t) ==
  /\ pc[t] = "lockWait"
  /\ t \notin cancelling
  /\ lockAhead[t] = {}
  /\ boundMode' = Bind(t)
  /\ agents' = agents \cup {SessionOf[t]}
  /\ pc' = [pc EXCEPT ![t] = "startCast"]
  /\ UNCHANGED <<phase, cancelling, pending, queuedCount, semVars, lockVars,
                 running, idle, stopFlag>>

\* The "started" broadcast is done: the entry is marked running, the task is
\* no longer pending, and the with block is entered.
MarkRunning(t) ==
  /\ pc[t] = "startCast"
  /\ t \notin cancelling
  /\ running' = running \cup ({SessionOf[t]} \cap agents)
  /\ pending' = pending \ {t}
  /\ pc' = [pc EXCEPT ![t] = "prep"]
  /\ UNCHANGED <<phase, cancelling, queuedCount, semVars, lockVars,
                 agents, idle, boundMode, stopFlag>>

\* The agent of the current entry gets a new cancel token.  A task that is
\* not on the registered lock works with an agent the pool has dropped.
RebuildToken(t) ==
  IF t \in lockOn[SessionOf[t]] THEN stopFlag \ {SessionOf[t]} ELSE stopFlag

\* After the naming hook, the ledger and the REPLY_START broadcast,
\* run_stream starts and rebuilds the cancel token.
BeginStream(t) ==
  /\ pc[t] = "prep"
  /\ stopFlag' = RebuildToken(t)
  /\ pc' = [pc EXCEPT ![t] = "run"]
  /\ UNCHANGED <<phase, cancelling, pending, queuedCount, semVars, lockVars,
                 agents, running, idle, boundMode>>

-----------------------------------------------------------------------------
(* The finally block of acquire, entered from wherever the task was.       *)

\* Does the task hand a slot back?  A waiter cancelled after its future was
\* completed returns the slot inside Semaphore.acquire.
ReturnedUnlessGranted(t) == IF pc[t] \in Permit \ {"semGranted"} THEN 1 ELSE 0

Returned(t) == IF pc[t] \in Permit THEN 1 ELSE 0

\* How many waiters may be woken: release() wakes one; a cancelled
\* Semaphore.acquire wakes as many as there are free slots.
WakeOnReleaseOnly(t) ==
  CASE pc[t] \in Queued -> 0
    [] OTHER -> 1

WakeLimit(t) ==
  CASE pc[t] = "queuedCast" -> 0
    [] pc[t] \in {"semWait", "semGranted"} -> semVal + Returned(t)
    [] OTHER -> 1

\* A task that leaves before it got its slot stops being counted as queued.
QueuedAfterWaitOnly(t) ==
  IF pc[t] \in {"semWait", "semGranted"} THEN DecrementQueued ELSE queuedCount

QueuedAfterUnclamped(t) ==
  IF pc[t] \in Queued THEN queuedCount - 1 ELSE queuedCount

QueuedAfter(t) == IF pc[t] \in Queued THEN DecrementQueued ELSE queuedCount

\* The entry of the session, whoever is running on it, becomes idle from now.
Cleanup(t) ==
  LET s == SessionOf[t] IN
  /\ queuedCount' = QueuedAfter(t)
  /\ running' = running \ {s}
  /\ idle' = idle \ {s}
  /\ lockOn' = [lockOn EXCEPT ![s] = @ \ {t}]
  /\ lockAhead' = [u \in Tasks |-> lockAhead[u] \ {t}]
  /\ semAhead' = [u \in Tasks |-> semAhead[u] \ {t}]
  /\ \E W \in SUBSET SemWaiters :
        /\ FirstWaiters(WakeLimit(t), W)
        /\ semVal' = semVal + Returned(t) - Cardinality(W)
        /\ pc' = [u \in Tasks |-> IF u = t THEN "releaseCast"
                                  ELSE IF u \in W THEN "semGranted" ELSE pc[u]]
  /\ pending' = pending \ {t}
  /\ cancelling' = cancelling \ {t}
  /\ UNCHANGED <<phase, agents, boundMode>>

\* The run returned, paused or raised (a budget halt never starts it).
Finish(t) ==
  /\ pc[t] \in Using
  /\ stopFlag' = IF pc[t] = "run" THEN RebuildToken(t) ELSE stopFlag
  /\ Cleanup(t)

\* CancelledError surfaces at the point where the task is suspended.
CancelDelivered(t) ==
  /\ t \in cancelling
  /\ Cleanup(t)
  /\ UNCHANGED stopFlag

\* blueprint.materialize() raises: no entry is left behind.
MaterializeFails(t) ==
  /\ pc[t] = "lockWait"
  /\ t \notin cancelling
  /\ lockAhead[t] = {}
  /\ SessionOf[t] \notin agents
  /\ Cleanup(t)
  /\ UNCHANGED stopFlag

\* The "released" broadcast is done.
ReleaseDone(t) ==
  /\ pc[t] = "releaseCast"
  /\ pc' = [pc EXCEPT ![t] = "idle"]
  /\ UNCHANGED <<phase, cancelling, pending, queuedCount, semVars, lockVars,
                 entryVars>>

-----------------------------------------------------------------------------
(* cancel_session, the idle sweep, shutdown                                *)

\* A stop request: the agent's cancel token is set and the pending tasks are
\* cancelled; a task inside the with block is left to the token.  A request
\* of a user who does not own the session changes nothing.
CancelSession(s) ==
  /\ cancelling' = cancelling \cup (pending \cap TasksOf(s))
  /\ stopFlag' = stopFlag \cup ({s} \cap agents)
  /\ UNCHANGED <<phase, pc, pending, queuedCount, semVars, lockVars,
                 agents, running, idle, boundMode>>

\* last_used of the entry becomes older than idle_ttl_seconds.  The awaits
\* before a run starts are taken to be shorter than that.
TtlElapses(s) ==
  /\ s \in agents
  /\ idle' = idle \cup {s}
  /\ \A t \in TasksOf(s) : /\ pc[t] # "prep"
                           /\ LongRuns \/ pc[t] # "run"
  /\ UNCHANGED <<phase, pc, cancelling, pending, queuedCount, semVars, lockVars,
                 agents, running, boundMode, stopFlag>>

EvictRunning == {s \in agents : s \in idle /\ pending \cap TasksOf(s) = {}}

EvictPending == (agents \ running) \cap idle

Evictable ==
  {s \in agents : /\ s \notin running
                  /\ s \in idle
                  /\ pending \cap TasksOf(s) = {}}

\* One pass of the evict loop drops agent and lock of every evictable session.
EvictScan ==
  /\ phase = "up"
  /\ Evictable # {}
  /\ agents' = agents \ Evictable
  /\ idle' = idle \ Evictable
  /\ stopFlag' = stopFlag \ Evictable
  /\ boundMode' = [s \in Sessions |->
                     IF s \in Evictable THEN NoMode ELSE boundMode[s]]
  /\ lockOn' = [s \in Sessions |-> IF s \in Evictable THEN {} ELSE lockOn[s]]
  /\ UNCHANGED <<phase, pc, cancelling, pending, queuedCount, semVars,
                 lockAhead, running>>

\* stop() sets _shutdown and waits for the evict task to end ...
StopBegin ==
  /\ phase = "up"
  /\ phase' = "stopping"
  /\ UNCHANGED <<pc, cancelling, pending, queuedCount, semVars, lockVars,
                 entryVars>>

\* ... then cancels the pending tasks and clears every table.
StopFinish ==
  /\ phase = "stopping"
  /\ phase' = "stopped"
  /\ cancelling' = cancelling \cup pending
  /\ pending' = {}
  /\ agents' = {}
  /\ running' = {}
  /\ idle' = {}
  /\ stopFlag' = {}
  /\ boundMode' = [s \in Sessions |-> NoMode]
  /\ lockOn' = [s \in Sessions |-> {}]
  /\ queuedCount' = 0
  /\ UNCHANGED <<pc, semVars, lockAhead>>

\* Nothing is left to do.
Quiescent ==
  /\ phase = "stopped"
  /\ In({"idle"}) = Tasks
  /\ UNCHANGED vars

Resume(t) ==
  \/ TrySemaphore(t)
  \/ ResumeSemaphore(t)
  \/ LockAcquired(t)
  \/ MarkRunning(t)
  \/ BeginStream(t)
  \/ Finish(t)
  \/ CancelDelivered(t)
  \/ ReleaseDone(t)

Next ==
  \/ \E t \in Tasks : Enter(t) \/ Resume(t) \/ MaterializeFails(t)
  \/ \E s \in Sessions : CancelSession(s) \/ TtlElapses(s)
  \/ EvictScan
  \/ StopBegin
  \/ StopFinish
  \/ Quiescent

\* The event loop resumes every task that can go on, every run ends, and
\* stop() does not hang.  Nobody has to call acquire, cancel or stop.
Fairness ==
  /\ \A t \in Tasks : WF_vars(Resume(t))
  /\ WF_vars(StopFinish)

Spec == Init /\ [][Next]_vars

FairSpec == Spec /\ Fairness

-----------------------------------------------------------------------------
(* Properties                                                              *)

\* No slot is lost or made up, whatever is cancelled wherever it waits: the
\* semaphore's value and the tasks that own a slot add up to max_concurrent.
SlotsConserved == semVal + Cardinality(In(Permit)) = MaxConcurrent

\* No lost wake-up: a task waits for a slot while one is free only if a task
\* already woken is about to pass the wake-up on.
NoLostWakeup == semVal > 0 /\ SemWaiters # {} => In({"semGranted"}) # {}

\* _queued_count, broadcast as queue_length, is the number of tasks that were
\* told "queued" and have no slot, through every cancellation, until stop().
QueuedCountExact ==
  phase # "stopped" => queuedCount = Cardinality(In(Queued))

\* The tasks that share the lock object registered for a session never hold
\* it together, though waiters are cancelled at any point.
LockExclusive ==
  \A s \in Sessions : \A t, u \in lockOn[s] :
    pc[t] \in Holding /\ pc[u] \in Holding => t = u

\* The sweep never takes the agent away between the moment acquire got it
\* and the moment the entry is marked running.
AgentKeptWhileStarting ==
  \A t \in Tasks :
    phase # "stopped" /\ pc[t] = "startCast" => SessionOf[t] \in agents

\* The instructions of one session are served one after the other.
SessionSequential ==
  \A t, u \in Tasks :
    /\ SessionOf[t] = SessionOf[u]
    /\ pc[t] \in Holding
    /\ pc[u] \in Holding
    => t = u

\* The pool as the abstract specification sees it: the tasks that hold the
\* lock of their session are the ones being served.
Slots == INSTANCE SessionSlots WITH active <- In(Holding)

\* Every step of the pool serves one more task, one task less, or is invisible;
\* never two of a session and never more than max_concurrent.
ImplementsSlots == Slots!Spec

\* A task that queued for a slot gets to its agent or is cancelled: slots are
\* handed over in order and none gets stuck, with cancels and retries going on.
QueuedIsServed ==
  \A t \in Tasks :
    pc[t] = "queuedCast" ~> pc[t] \in {"startCast", "releaseCast"}
=============================================================================
