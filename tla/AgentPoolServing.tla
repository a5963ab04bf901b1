-------------------------- MODULE AgentPoolServing --------------------------
(***************************************************************************)
(* Who is served: the lock of a session, the sweep that drops it, the      *)
(* abstract specification SessionSlots, and the order within a session.    *)
(***************************************************************************)
EXTENDS AgentPoolProofs, AgentPoolHistory, WellFoundedInduction

\* A task is registered as pending exactly while it is inside acquire and has
\* not been marked running; stop() leaves none but cancelled ones.
PendingExact ==
  /\ phase # "stopped" => pending = In(Pending)
  /\ phase = "stopped" => In(Pending) \subseteq cancelling

\* Only tasks of the session wait for or hold its lock.
OnLock ==
  \A s \in Sessions :
    lockOn[s] \subseteq TasksOf(s) \cap In({"lockWait"} \cup Holding)

HoldersFirst == \A t \in In(Holding) : lockAhead[t] = {}

\* Two tasks on one lock are ordered, unless one of them was cancelled before
\* it got the lock.
LockQueue ==
  \A s \in Sessions : \A t, u \in lockOn[s] :
    t # u => \/ t \in lockAhead[u]
             \/ u \in lockAhead[t]
             \/ t \in cancelling /\ pc[t] = "lockWait"
             \/ u \in cancelling /\ pc[u] = "lockWait"

LockInv ==
  PendingExact /\ OnLock /\ HoldersFirst /\ LockQueue /\ AgentKeptWhileStarting

-----------------------------------------------------------------------------

\* Joining the lock of one's session keeps the lock's queue ordered.
LEMMA JoinLockInv ==
  ASSUME PoolInv, LockInv, NEW t \in Tasks, NEW W \in SUBSET SemWaiters,
         pc[t] \notin {"lockWait"} \cup Holding, t \notin W,
         Moves(t, "lockWait", W), JoinLock(t), cancelling' = cancelling
  PROVE  OnLock' /\ HoldersFirst' /\ LockQueue'
<1> DEFINE s == SessionOf[t]
<1>1. /\ s \in Sessions
      /\ lockOn \in [Sessions -> SUBSET Tasks]
      /\ lockAhead \in [Tasks -> SUBSET Tasks]
      /\ pc \in [Tasks -> Stages]
  BY PoolAssumption DEF PoolInv, TypeOK
<1>2. \A u \in Tasks : pc'[u] = IF u = t THEN "lockWait"
                                ELSE IF u \in W THEN "semGranted" ELSE pc[u]
  BY DEF Moves
<1>3. \A u \in W : pc[u] = "semWait"
  BY DEF SemWaiters
<1>4. \A u \in Tasks \ {t} :
        /\ pc[u] \in {"lockWait"} \cup Holding => pc'[u] = pc[u]
        /\ pc'[u] \in {"lockWait"} \cup Holding => pc'[u] = pc[u]
  BY <1>2, <1>3 DEF Holding
<1>5. /\ lockAhead' = [lockAhead EXCEPT ![t] = LockBlockers(s)]
      /\ lockOn' = [lockOn EXCEPT ![s] = @ \cup {t}]
  BY DEF JoinLock
<1>6. \A r \in Sessions : t \notin lockOn[r]
  BY DEF LockInv, OnLock, In
<1>7. OnLock'
  BY <1>1, <1>2, <1>4, <1>5 DEF LockInv, OnLock, TasksOf, In
<1>8. HoldersFirst'
  <2>1. "lockWait" \notin Holding
    BY DEF Holding
  <2>. QED
    BY <1>1, <1>2, <1>4, <1>5, <2>1 DEF LockInv, HoldersFirst, In
<1>9. LockQueue'
  <2> SUFFICES ASSUME NEW r \in Sessions, NEW u \in lockOn'[r],
                      NEW v \in lockOn'[r], u # v, v # t
               PROVE  \/ u \in lockAhead'[v]
                      \/ v \in lockAhead'[u]
                      \/ u \in cancelling' /\ pc'[u] = "lockWait"
                      \/ v \in cancelling' /\ pc'[v] = "lockWait"
    BY DEF LockQueue
  <2>1. v \in lockOn[r] /\ v \in Tasks
    BY <1>1, <1>5
  <2>2. pc'[v] = pc[v] /\ lockAhead'[v] = lockAhead[v]
    BY <1>1, <1>4, <1>5, <2>1 DEF LockInv, OnLock, In
  <2>3. CASE u = t
    <3>1. r = s
      BY <1>1, <1>5, <1>6, <2>3
    <3>. QED
      BY <1>1, <1>5, <2>1, <2>2, <2>3, <3>1 DEF LockBlockers
  <2>4. CASE u # t
    <3>1. u \in lockOn[r] /\ u \in Tasks
      BY <1>1, <1>5, <2>4
    <3>2. pc'[u] = pc[u] /\ lockAhead'[u] = lockAhead[u]
      BY <1>1, <1>4, <1>5, <2>4, <3>1 DEF LockInv, OnLock, In
    <3>. QED
      BY <2>1, <2>2, <3>1, <3>2 DEF LockInv, LockQueue
  <2>. QED
    BY <2>3, <2>4
<1>. QED
  BY <1>7, <1>8, <1>9

\* A task that leaves takes itself off its lock.
LEMMA CleanupLockInv ==
  ASSUME PoolInv, LockInv, NEW t \in Tasks, t \notin SemWaiters,
         Cleanup(t)
  PROVE  LockInv'
<1>1. PICK W \in SUBSET SemWaiters :
        t \notin W /\ Moves(t, "releaseCast", W)
  BY CleanupMoves
<1>2. \A u \in Tasks : pc'[u] = IF u = t THEN "releaseCast"
                                ELSE IF u \in W THEN "semGranted" ELSE pc[u]
  BY <1>1 DEF Moves
<1>3. \A u \in W : pc[u] = "semWait"
  BY DEF SemWaiters
<1>4. \A u \in Tasks \ {t} :
        /\ pc[u] \in {"lockWait"} \cup Holding => pc'[u] = pc[u]
        /\ pc'[u] \in {"lockWait"} \cup Holding => pc'[u] = pc[u]
        /\ pc[u] \in Pending <=> pc'[u] \in Pending
  BY <1>2, <1>3 DEF Holding, Pending, Queued
<1>5. pc'[t] = "releaseCast" /\ pc'[t] \notin Holding \cup Pending
  BY <1>2 DEF Holding, Pending, Queued
<1>6. /\ lockOn \in [Sessions -> SUBSET Tasks]
      /\ lockAhead \in [Tasks -> SUBSET Tasks]
  BY DEF PoolInv, TypeOK
<1>7. /\ phase' = phase /\ agents' = agents
      /\ pending' = pending \ {t} /\ cancelling' = cancelling \ {t}
      /\ lockOn' = [lockOn EXCEPT ![SessionOf[t]] = @ \ {t}]
      /\ lockAhead' = [u \in Tasks |-> lockAhead[u] \ {t}]
  BY DEF Cleanup
<1>8. PendingExact'
  BY <1>4, <1>5, <1>7 DEF LockInv, PendingExact, In
<1>9. OnLock'
  <2> SUFFICES ASSUME NEW r \in Sessions, NEW u \in lockOn'[r]
               PROVE  u \in TasksOf(r) /\ u \in In({"lockWait"} \cup Holding)'
    BY DEF OnLock, TasksOf
  <2>1. u \in lockOn[r] /\ u \in TasksOf(r) /\ pc[u] \in {"lockWait"} \cup Holding
    BY <1>6, <1>7 DEF LockInv, OnLock, In
  <2>2. u # t
    BY <1>6, <1>7, <2>1 DEF TasksOf
  <2>. QED
    BY <1>4, <2>1, <2>2 DEF In, TasksOf
<1>10. HoldersFirst'
  BY <1>4, <1>5, <1>6, <1>7 DEF LockInv, HoldersFirst, In
<1>11. LockQueue'
  <2> SUFFICES ASSUME NEW r \in Sessions, NEW u \in lockOn'[r],
                      NEW v \in lockOn'[r], u # v
               PROVE  \/ u \in lockAhead'[v]
                      \/ v \in lockAhead'[u]
                      \/ u \in cancelling' /\ pc'[u] = "lockWait"
                      \/ v \in cancelling' /\ pc'[v] = "lockWait"
    BY DEF LockQueue
  <2>1. /\ u \in lockOn[r] /\ u \in Tasks /\ pc'[u] # "releaseCast"
        /\ v \in lockOn[r] /\ v \in Tasks /\ pc'[v] # "releaseCast"
    BY <1>6, <1>7, <1>9 DEF OnLock, In, Holding
  <2>2. u # t /\ v # t
    BY <1>5, <2>1
  <2>3. pc'[u] = pc[u] /\ pc'[v] = pc[v]
    BY <1>4, <2>1, <2>2 DEF LockInv, OnLock, In
  <2>. QED
    BY <1>6, <1>7, <2>1, <2>2, <2>3 DEF LockInv, LockQueue
<1>12. AgentKeptWhileStarting'
  BY <1>4, <1>5, <1>7 DEF LockInv, AgentKeptWhileStarting, Holding
<1>. QED
  BY <1>8, <1>9, <1>10, <1>11, <1>12 DEF LockInv

LEMMA LockInvInductive ==
  PoolInv /\ LockInv /\ [Next]_vars => LockInv'
<1> SUFFICES ASSUME PoolInv, LockInv, [Next]_vars
             PROVE  LockInv'
  OBVIOUS
<1>p. /\ pc \in [Tasks -> Stages]
      /\ lockOn \in [Sessions -> SUBSET Tasks]
      /\ lockAhead \in [Tasks -> SUBSET Tasks]
      /\ SessionOf \in [Tasks -> Sessions]
  BY PoolAssumption DEF PoolInv, TypeOK
<1>1. ASSUME NEW t \in Tasks, Enter(t) PROVE LockInv'
  <2>1. /\ pc[t] = "idle" /\ phase = "up" /\ pending' = pending \cup {t}
        /\ UNCHANGED <<phase, cancelling, agents>>
    BY <1>1 DEF Enter, entryVars
  <2>2. PICK x \in {"lockWait", "queuedCast"} : pc' = [pc EXCEPT ![t] = x]
    BY <1>1 DEF Enter
  <2>3. PendingExact' /\ AgentKeptWhileStarting'
    BY <1>p, <2>1, <2>2
       DEF LockInv, PendingExact, AgentKeptWhileStarting, In, Pending, Queued
  <2>4. CASE JoinLock(t) /\ pc' = [pc EXCEPT ![t] = "lockWait"]
    <3>1. Moves(t, "lockWait", {})
      BY <1>p, <2>4 DEF Moves
    <3>2. {} \in SUBSET SemWaiters /\ t \notin {}
          /\ pc[t] \notin {"lockWait"} \cup Holding /\ cancelling' = cancelling
      BY <2>1 DEF Holding
    <3>. QED
      BY <2>3, <2>4, <3>1, <3>2, JoinLockInv DEF LockInv
  <2>5. CASE UNCHANGED lockVars /\ pc' = [pc EXCEPT ![t] = "queuedCast"]
    BY <1>p, <2>1, <2>3, <2>5
       DEF LockInv, OnLock, HoldersFirst, LockQueue, lockVars, In, Holding
  <2>. QED
    BY <1>1, <2>4, <2>5 DEF Enter
<1>2. ASSUME NEW t \in Tasks, TrySemaphore(t) PROVE LockInv'
  <2>1. /\ pc[t] = "queuedCast"
        /\ UNCHANGED <<phase, pending, cancelling, agents>>
    BY <1>2 DEF TrySemaphore, entryVars
  <2>2. PICK x \in {"lockWait", "semWait"} : pc' = [pc EXCEPT ![t] = x]
    BY <1>2 DEF TrySemaphore
  <2>3. PendingExact' /\ AgentKeptWhileStarting'
    BY <1>p, <2>1, <2>2
       DEF LockInv, PendingExact, AgentKeptWhileStarting, In, Pending, Queued
  <2>4. CASE JoinLock(t) /\ pc' = [pc EXCEPT ![t] = "lockWait"]
    <3>1. Moves(t, "lockWait", {})
      BY <1>p, <2>4 DEF Moves
    <3>2. {} \in SUBSET SemWaiters /\ t \notin {}
          /\ pc[t] \notin {"lockWait"} \cup Holding /\ cancelling' = cancelling
      BY <2>1 DEF Holding
    <3>. QED
      BY <2>3, <2>4, <3>1, <3>2, JoinLockInv DEF LockInv
  <2>5. CASE UNCHANGED lockVars /\ pc' = [pc EXCEPT ![t] = "semWait"]
    BY <1>p, <2>1, <2>3, <2>5
       DEF LockInv, OnLock, HoldersFirst, LockQueue, lockVars, In, Holding
  <2>. QED
    BY <1>2, <2>4, <2>5 DEF TrySemaphore
<1>3. ASSUME NEW t \in Tasks, ResumeSemaphore(t) PROVE LockInv'
  <2>1. /\ pc[t] = "semGranted" /\ JoinLock(t)
        /\ UNCHANGED <<phase, pending, cancelling, agents>>
    BY <1>3 DEF ResumeSemaphore, entryVars
  <2>2. PICK W \in SUBSET SemWaiters :
          pc' = [u \in Tasks |-> IF u = t THEN "lockWait"
                                 ELSE IF u \in W THEN "semGranted" ELSE pc[u]]
    BY <1>3 DEF ResumeSemaphore
  <2>3. /\ t \notin W /\ Moves(t, "lockWait", W)
        /\ pc[t] \notin {"lockWait"} \cup Holding
    BY <2>1, <2>2 DEF SemWaiters, Moves, Holding
  <2>4. PendingExact' /\ AgentKeptWhileStarting'
    BY <1>p, <2>1, <2>2
       DEF LockInv, PendingExact, AgentKeptWhileStarting, In, Pending, Queued,
           SemWaiters
  <2>. QED
    BY <2>1, <2>3, <2>4, JoinLockInv DEF LockInv
<1>4. ASSUME NEW t \in Tasks, LockAcquired(t) PROVE LockInv'
  <2>1. /\ pc[t] = "lockWait" /\ t \notin cancelling /\ lockAhead[t] = {}
        /\ pc' = [pc EXCEPT ![t] = "startCast"]
        /\ agents' = agents \cup {SessionOf[t]}
        /\ UNCHANGED <<phase, pending, cancelling, lockOn, lockAhead>>
    BY <1>4 DEF LockAcquired, lockVars
  <2>2. PendingExact' /\ AgentKeptWhileStarting'
    BY <1>p, <2>1
       DEF LockInv, PendingExact, AgentKeptWhileStarting, In, Pending, Queued
  <2>3. OnLock' /\ HoldersFirst' /\ LockQueue'
    BY <1>p, <2>1
       DEF LockInv, OnLock, HoldersFirst, LockQueue, In, Holding, TasksOf
  <2>. QED
    BY <2>2, <2>3 DEF LockInv
<1>5. ASSUME NEW t \in Tasks, MarkRunning(t) PROVE LockInv'
  <2>1. /\ pc[t] = "startCast" /\ t \notin cancelling
        /\ pc' = [pc EXCEPT ![t] = "prep"]
        /\ pending' = pending \ {t}
        /\ UNCHANGED <<phase, agents, cancelling, lockOn, lockAhead>>
    BY <1>5 DEF MarkRunning, lockVars
  <2>2. PendingExact' /\ AgentKeptWhileStarting'
    BY <1>p, <2>1
       DEF LockInv, PendingExact, AgentKeptWhileStarting, In, Pending, Queued
  <2>3. OnLock' /\ HoldersFirst' /\ LockQueue'
    BY <1>p, <2>1
       DEF LockInv, OnLock, HoldersFirst, LockQueue, In, Holding, TasksOf
  <2>. QED
    BY <2>2, <2>3 DEF LockInv
<1>6. ASSUME NEW t \in Tasks, BeginStream(t) PROVE LockInv'
  <2>1. /\ pc[t] = "prep"
        /\ pc' = [pc EXCEPT ![t] = "run"]
        /\ UNCHANGED <<phase, agents, pending, cancelling, lockOn, lockAhead>>
    BY <1>6 DEF BeginStream, lockVars
  <2>2. PendingExact' /\ AgentKeptWhileStarting'
    BY <1>p, <2>1
       DEF LockInv, PendingExact, AgentKeptWhileStarting, In, Pending, Queued
  <2>3. OnLock' /\ HoldersFirst' /\ LockQueue'
    BY <1>p, <2>1
       DEF LockInv, OnLock, HoldersFirst, LockQueue, In, Holding, TasksOf
  <2>. QED
    BY <2>2, <2>3 DEF LockInv
<1>7. ASSUME NEW t \in Tasks, Finish(t) PROVE LockInv'
  BY <1>7, CleanupLockInv DEF Finish, SemWaiters, Using
<1>8. ASSUME NEW t \in Tasks, CancelDelivered(t) PROVE LockInv'
  BY <1>8, CleanupLockInv DEF CancelDelivered, SemWaiters
<1>9. ASSUME NEW t \in Tasks, MaterializeFails(t) PROVE LockInv'
  BY <1>9, CleanupLockInv DEF MaterializeFails, SemWaiters
<1>10. ASSUME NEW t \in Tasks, ReleaseDone(t) PROVE LockInv'
  <2>1. /\ pc[t] = "releaseCast"
        /\ pc' = [pc EXCEPT ![t] = "idle"]
        /\ UNCHANGED <<phase, agents, pending, cancelling, lockOn, lockAhead>>
    BY <1>10 DEF ReleaseDone, lockVars, entryVars
  <2>2. PendingExact' /\ AgentKeptWhileStarting'
    BY <1>p, <2>1
       DEF LockInv, PendingExact, AgentKeptWhileStarting, In, Pending, Queued
  <2>3. OnLock' /\ HoldersFirst' /\ LockQueue'
    BY <1>p, <2>1
       DEF LockInv, OnLock, HoldersFirst, LockQueue, In, Holding, TasksOf
  <2>. QED
    BY <2>2, <2>3 DEF LockInv
<1>11. ASSUME NEW s \in Sessions, CancelSession(s) \/ TtlElapses(s)
       PROVE  LockInv'
  <2>1. /\ cancelling \subseteq cancelling'
        /\ UNCHANGED <<phase, pc, pending, lockOn, lockAhead, agents>>
    BY <1>11 DEF CancelSession, TtlElapses, lockVars
  <2>. QED
    BY <2>1 DEF LockInv, PendingExact, OnLock, HoldersFirst, LockQueue,
                AgentKeptWhileStarting, In, TasksOf
<1>12. CASE EvictScan
  <2>1. /\ phase' = "up" /\ phase = "up"
        /\ UNCHANGED <<pc, pending, cancelling, lockAhead>>
        /\ agents' = agents \ Evictable
        /\ lockOn' = [s \in Sessions |-> IF s \in Evictable THEN {}
                                        ELSE lockOn[s]]
    BY <1>12 DEF EvictScan
  <2>2. \A s \in Sessions : lockOn'[s] \subseteq lockOn[s]
    BY <2>1
  <2>3. PendingExact' /\ OnLock' /\ HoldersFirst' /\ LockQueue'
    BY <2>1, <2>2 DEF LockInv, PendingExact, OnLock, HoldersFirst, LockQueue,
                      In, TasksOf
  <2>4. \A t \in Tasks : pc[t] = "startCast" => SessionOf[t] \notin Evictable
    BY <1>p, <2>1
       DEF LockInv, PendingExact, In, Pending, Evictable, TasksOf
  <2>5. AgentKeptWhileStarting'
    BY <2>1, <2>4 DEF LockInv, AgentKeptWhileStarting
  <2>. QED
    BY <2>3, <2>5 DEF LockInv
<1>13. CASE StopBegin \/ UNCHANGED vars
  BY <1>13 DEF StopBegin, vars, semVars, lockVars, entryVars, LockInv,
               PendingExact, OnLock, HoldersFirst, LockQueue,
               AgentKeptWhileStarting, In, TasksOf
<1>14. CASE StopFinish
  <2>1. /\ phase = "stopping" /\ phase' = "stopped"
        /\ cancelling' = cancelling \cup pending
        /\ lockOn' = [s \in Sessions |-> {}]
        /\ UNCHANGED <<pc, lockAhead>>
    BY <1>14 DEF StopFinish
  <2>. QED
    BY <2>1 DEF LockInv, PendingExact, OnLock, HoldersFirst, LockQueue,
                AgentKeptWhileStarting, In, TasksOf
<1>. QED
  BY <1>1, <1>2, <1>3, <1>4, <1>5, <1>6, <1>7, <1>8, <1>9, <1>10, <1>11, <1>12,
     <1>13, <1>14 DEF Next, Resume, Quiescent

LEMMA LockAlways == Spec => [](PoolInv /\ LockInv)
<1>1. Init => LockInv
  BY DEF Init, LockInv, PendingExact, OnLock, HoldersFirst, LockQueue,
         AgentKeptWhileStarting, In, Pending, Queued, Holding, TasksOf
<1>. QED
  BY <1>1, InitPoolInv, PoolInvInductive, LockInvInductive, PTL DEF Spec

LEMMA LockInvExclusive == LockInv => LockExclusive
  BY DEF LockInv, OnLock, HoldersFirst, LockQueue, LockExclusive, TasksOf, In,
         Holding

\* Whatever waiters are cancelled at whatever point, one lock has one holder.
THEOREM LockIsExclusive == Spec => []LockExclusive
  BY LockAlways, LockInvExclusive, PTL

\* The sweep takes no agent from a task that is about to be marked running,
\* even when the entry went stale while the task waited.
THEOREM AgentIsKept == Spec => []AgentKeptWhileStarting
<1>1. LockInv => AgentKeptWhileStarting
  BY DEF LockInv
<1>. QED
  BY <1>1, LockAlways, PTL

-----------------------------------------------------------------------------
(* One task at a time for each session, if no run outlasts the idle TTL.   *)

\* Until stop() clears the table, every task that waits for or holds a session
\* lock does so on the registered one.
OnRegisteredLock ==
  phase # "stopped" =>
    \A t \in In({"lockWait"} \cup Holding) : t \in lockOn[SessionOf[t]]

\* The entry of a session that is being served is not evictable.
ServedEntry ==
  phase # "stopped" =>
    \A t \in In(Using) :
      SessionOf[t] \in agents /\ (SessionOf[t] \in running \cup (Sessions \ idle))

ServingInv == OnRegisteredLock /\ ServedEntry /\ SessionSequential

\* A step lets one more task hold its session lock, one task less, or neither.
LEMMA HoldingSteps ==
  ASSUME PoolInv, [Next]_vars
  PROVE  \/ In(Holding)' = In(Holding)
         \/ \E t \in Tasks \ In(Holding) :
              /\ LockAcquired(t)
              /\ In(Holding)' = In(Holding) \cup {t}
         \/ \E t \in In(Holding) : In(Holding)' = In(Holding) \ {t}
<1>p. pc \in [Tasks -> Stages]
  BY DEF PoolInv, TypeOK
<1>1. ASSUME NEW t \in Tasks, LockAcquired(t)
      PROVE  /\ t \notin In(Holding)
             /\ In(Holding)' = In(Holding) \cup {t}
  BY <1>p, <1>1 DEF LockAcquired, In, Holding
<1>2. ASSUME NEW t \in Tasks, t \notin SemWaiters, Cleanup(t)
      PROVE  In(Holding)' = In(Holding) \ {t}
  <2>1. PICK W \in SUBSET SemWaiters : t \notin W /\ Moves(t, "releaseCast", W)
    BY <1>2, CleanupMoves
  <2>. QED
    BY <2>1 DEF Moves, SemWaiters, In, Holding
<1>3. ASSUME NEW t \in Tasks,
             Finish(t) \/ CancelDelivered(t) \/ MaterializeFails(t)
      PROVE  In(Holding)' = In(Holding) \ {t}
  BY <1>2, <1>3 DEF Finish, CancelDelivered, MaterializeFails, SemWaiters, Using
<1>4. ASSUME NEW t \in Tasks,
             Enter(t) \/ TrySemaphore(t) \/ MarkRunning(t) \/ BeginStream(t)
               \/ ReleaseDone(t)
      PROVE  In(Holding)' = In(Holding)
  BY <1>p, <1>4 DEF Enter, TrySemaphore, MarkRunning, BeginStream, ReleaseDone,
                    In, Holding
<1>5. ASSUME NEW t \in Tasks, ResumeSemaphore(t)
      PROVE  In(Holding)' = In(Holding)
  BY <1>p, <1>5 DEF ResumeSemaphore, SemWaiters, In, Holding
<1>6. ASSUME UNCHANGED pc PROVE In(Holding)' = In(Holding)
  BY <1>6 DEF In
<1>7. ASSUME NEW s \in Sessions, CancelSession(s) \/ TtlElapses(s)
      PROVE  In(Holding)' = In(Holding)
  BY <1>6, <1>7 DEF CancelSession, TtlElapses
<1>8. ASSUME EvictScan \/ StopBegin \/ StopFinish \/ UNCHANGED vars
      PROVE  In(Holding)' = In(Holding)
  BY <1>6, <1>8 DEF EvictScan, StopBegin, StopFinish, vars
<1>. QED
  BY <1>1, <1>3, <1>4, <1>5, <1>7, <1>8 DEF Next, Resume, Quiescent

\* A task leaves a registered lock only when it leaves acquire.
LEMMA RegisteredLockInductive ==
  ASSUME PoolInv, LockInv, ServingInv, [Next]_vars
  PROVE  OnRegisteredLock'
<1> DEFINE OnIt == {"lockWait"} \cup Holding
<1>p. /\ pc \in [Tasks -> Stages]
      /\ lockOn \in [Sessions -> SUBSET Tasks]
      /\ SessionOf \in [Tasks -> Sessions]
  BY PoolAssumption DEF PoolInv, TypeOK
<1>i. phase # "stopped" => \A t \in In(OnIt) : t \in lockOn[SessionOf[t]]
  BY DEF ServingInv, OnRegisteredLock
<1>1. ASSUME NEW t \in Tasks, NEW x, Goes(t, x), JoinLock(t) \/ UNCHANGED lockVars,
             x \in OnIt /\ pc[t] \notin OnIt => JoinLock(t),
             UNCHANGED phase
      PROVE  OnRegisteredLock'
  <2>1. \A u \in Tasks : u # t => pc'[u] = pc[u]
    BY <1>p, <1>1 DEF Goes
  <2>2. pc'[t] = x
    BY <1>p, <1>1 DEF Goes
  <2>3. /\ \A s \in Sessions : lockOn[s] \subseteq lockOn'[s]
        /\ JoinLock(t) => t \in lockOn'[SessionOf[t]]
    BY <1>p, <1>1 DEF JoinLock, lockVars
  <2> SUFFICES ASSUME phase # "stopped", NEW u \in In(OnIt)'
               PROVE  u \in lockOn'[SessionOf[u]]
    BY <1>1 DEF OnRegisteredLock
  <2>4. CASE u # t
    BY <1>p, <1>i, <2>1, <2>3, <2>4 DEF In
  <2>5. CASE u = t
    BY <1>p, <1>i, <1>1, <2>2, <2>3, <2>5 DEF In
  <2>. QED
    BY <2>4, <2>5
<1>2. ASSUME NEW t \in Tasks, Enter(t) \/ TrySemaphore(t)
      PROVE  OnRegisteredLock'
  <2>1. PICK x \in {"lockWait", "queuedCast", "semWait"} :
          /\ Goes(t, x)
          /\ \/ x = "lockWait" /\ JoinLock(t)
             \/ x # "lockWait" /\ UNCHANGED lockVars
          /\ UNCHANGED phase
    BY <1>2 DEF Enter, TrySemaphore, Goes
  <2>. QED
    BY <1>1, <2>1 DEF Holding
<1>3. ASSUME NEW t \in Tasks,
             LockAcquired(t) \/ MarkRunning(t) \/ BeginStream(t) \/ ReleaseDone(t)
      PROVE  OnRegisteredLock'
  <2>1. PICK x \in {"startCast", "prep", "run", "idle"} :
          /\ Goes(t, x)
          /\ x \in OnIt => pc[t] \in OnIt
          /\ UNCHANGED <<phase, lockVars>>
    BY <1>3 DEF LockAcquired, MarkRunning, BeginStream, ReleaseDone, Goes, Holding
  <2>. QED
    BY <1>1, <2>1
<1>4. ASSUME NEW t \in Tasks, ResumeSemaphore(t)
      PROVE  OnRegisteredLock'
  <2>1. /\ \A u \in Tasks \ {t} : pc'[u] \in OnIt => pc[u] \in OnIt
        /\ phase' = phase
    BY <1>p, <1>4 DEF ResumeSemaphore, SemWaiters, Holding
  <2>2. /\ \A s \in Sessions : lockOn[s] \subseteq lockOn'[s]
        /\ t \in lockOn'[SessionOf[t]]
    BY <1>p, <1>4 DEF ResumeSemaphore, JoinLock
  <2> SUFFICES ASSUME phase # "stopped", NEW u \in In(OnIt)', u # t
               PROVE  u \in lockOn'[SessionOf[u]]
    BY <2>1, <2>2 DEF OnRegisteredLock
  <2>. QED
    BY <1>p, <1>i, <2>1, <2>2 DEF In
<1>5. ASSUME NEW t \in Tasks, t \notin SemWaiters, Cleanup(t)
      PROVE  OnRegisteredLock'
  <2>1. PICK W \in SUBSET SemWaiters : t \notin W /\ Moves(t, "releaseCast", W)
    BY <1>5, CleanupMoves
  <2>2. /\ \A u \in Tasks : pc'[u] \in OnIt => u # t /\ pc[u] \in OnIt
        /\ phase' = phase
    BY <1>5, <2>1 DEF Cleanup, Moves, SemWaiters, Holding
  <2>3. \A s \in Sessions : lockOn[s] \ {t} \subseteq lockOn'[s]
    BY <1>p, <1>5 DEF Cleanup
  <2>. QED
    BY <1>p, <1>i, <2>2, <2>3 DEF In, OnRegisteredLock
<1>6. ASSUME NEW t \in Tasks,
             Finish(t) \/ CancelDelivered(t) \/ MaterializeFails(t)
      PROVE  OnRegisteredLock'
  BY <1>5, <1>6 DEF Finish, CancelDelivered, MaterializeFails, SemWaiters, Using
<1>7. ASSUME EvictScan PROVE OnRegisteredLock'
  <2>1. ASSUME NEW t \in In(OnIt) PROVE SessionOf[t] \notin Evictable
    <3>1. phase # "stopped"
      BY <1>7 DEF EvictScan
    <3>2. CASE pc[t] \in Pending
      BY <3>1, <3>2 DEF LockInv, PendingExact, In, Evictable, TasksOf
    <3>3. CASE pc[t] \in Using
      BY <1>p, <3>1, <3>3 DEF ServingInv, ServedEntry, In, Evictable
    <3>. QED
      BY <2>1, <3>2, <3>3 DEF In, Holding, Pending, Using
  <2>. QED
    BY <1>p, <1>i, <1>7, <2>1 DEF EvictScan, OnRegisteredLock, In
<1>8. ASSUME NEW s \in Sessions, CancelSession(s) \/ TtlElapses(s)
      PROVE  OnRegisteredLock'
  BY <1>i, <1>8 DEF CancelSession, TtlElapses, lockVars, OnRegisteredLock, In
<1>9. CASE StopBegin \/ StopFinish \/ UNCHANGED vars
  BY <1>i, <1>9
     DEF StopBegin, StopFinish, vars, lockVars, OnRegisteredLock, In
<1>. QED
  BY <1>2, <1>3, <1>4, <1>6, <1>7, <1>8, <1>9 DEF Next, Resume, Quiescent

\* The entry of a served session stays fresh as long as its run is shorter
\* than the TTL, even when another task of the session resets running_since.
LEMMA ServedEntryInductive ==
  ASSUME PoolInv, LockInv, ServingInv, ~LongRuns, [Next]_vars
  PROVE  ServedEntry'
<1>p. /\ pc \in [Tasks -> Stages]
      /\ SessionOf \in [Tasks -> Sessions]
  BY PoolAssumption DEF PoolInv, TypeOK
<1>i. phase # "stopped" =>
        \A t \in Tasks : pc[t] \in Using =>
          SessionOf[t] \in agents /\ (SessionOf[t] \in running \/ SessionOf[t] \notin idle)
  BY <1>p DEF ServingInv, ServedEntry, In
<1> USE DEF ServedEntry, In
<1>1. ASSUME NEW t \in Tasks,
             Enter(t) \/ TrySemaphore(t) \/ BeginStream(t) \/ ReleaseDone(t)
      PROVE  ServedEntry'
  <2>1. /\ \A u \in Tasks : pc'[u] \in Using => pc[u] \in Using
        /\ UNCHANGED <<phase, agents, running, idle>>
    BY <1>p, <1>1
       DEF Enter, TrySemaphore, BeginStream, ReleaseDone, Using, entryVars
  <2>. QED
    BY <1>p, <1>i, <2>1
<1>2. ASSUME NEW t \in Tasks, ResumeSemaphore(t) PROVE ServedEntry'
  <2>1. /\ \A u \in Tasks : pc'[u] \in Using => pc[u] \in Using
        /\ UNCHANGED <<phase, agents, running, idle>>
    BY <1>p, <1>2 DEF ResumeSemaphore, SemWaiters, Using, entryVars
  <2>. QED
    BY <1>p, <1>i, <2>1
<1>3. ASSUME NEW t \in Tasks, LockAcquired(t) PROVE ServedEntry'
  <2>1. /\ \A u \in Tasks : pc'[u] \in Using => pc[u] \in Using
        /\ agents \subseteq agents'
        /\ UNCHANGED <<phase, running, idle>>
    BY <1>p, <1>3 DEF LockAcquired, Using
  <2>. QED
    BY <1>p, <1>i, <2>1
<1>4. ASSUME NEW t \in Tasks, MarkRunning(t) PROVE ServedEntry'
  <2>1. /\ \A u \in Tasks : pc'[u] \in Using => u = t \/ pc[u] \in Using
        /\ running' = running \cup ({SessionOf[t]} \cap agents)
        /\ UNCHANGED <<phase, agents, idle>>
    BY <1>p, <1>4 DEF MarkRunning, Using
  <2>2. phase # "stopped" => SessionOf[t] \in agents
    BY <1>4 DEF MarkRunning, LockInv, AgentKeptWhileStarting
  <2>. QED
    BY <1>p, <1>i, <2>1, <2>2
<1>5. ASSUME NEW t \in Tasks, t \notin SemWaiters, Cleanup(t)
      PROVE  ServedEntry'
  <2>1. PICK W \in SUBSET SemWaiters : t \notin W /\ Moves(t, "releaseCast", W)
    BY <1>5, CleanupMoves
  <2>2. \A u \in Tasks : pc'[u] \in Using => pc[u] \in Using
    BY <2>1 DEF Moves, SemWaiters, Using
  <2>3. /\ running' = running \ {SessionOf[t]}
        /\ idle' = idle \ {SessionOf[t]}
        /\ UNCHANGED <<phase, agents>>
    BY <1>5 DEF Cleanup
  <2>. QED
    BY <1>p, <1>i, <2>2, <2>3
<1>6. ASSUME NEW t \in Tasks,
             Finish(t) \/ CancelDelivered(t) \/ MaterializeFails(t)
      PROVE  ServedEntry'
  BY <1>5, <1>6 DEF Finish, CancelDelivered, MaterializeFails, SemWaiters, Using
<1>7. ASSUME NEW s \in Sessions, TtlElapses(s) PROVE ServedEntry'
  <2>1. /\ \A u \in TasksOf(s) : pc[u] \notin Using
        /\ idle' = idle \cup {s}
        /\ UNCHANGED <<phase, pc, agents, running>>
    BY <1>7 DEF TtlElapses, Using
  <2>. QED
    BY <1>p, <1>i, <2>1 DEF TasksOf
<1>8. ASSUME EvictScan PROVE ServedEntry'
  <2>1. /\ agents' = agents \ Evictable /\ idle' = idle \ Evictable
        /\ UNCHANGED <<phase, pc, running>>
        /\ phase # "stopped"
    BY <1>8 DEF EvictScan
  <2>. QED
    BY <1>p, <1>i, <2>1 DEF Evictable
<1>9. ASSUME NEW s \in Sessions, CancelSession(s) PROVE ServedEntry'
  BY <1>p, <1>i, <1>9 DEF CancelSession
<1>10. CASE StopBegin \/ StopFinish \/ UNCHANGED vars
  BY <1>p, <1>i, <1>10 DEF StopBegin, StopFinish, vars, entryVars
<1>. QED
  BY <1>1, <1>2, <1>3, <1>4, <1>6, <1>7, <1>8, <1>9, <1>10
     DEF Next, Resume, Quiescent

LEMMA ServingInductive ==
  ASSUME PoolInv, LockInv, ServingInv, ~LongRuns, [Next]_vars
  PROVE  ServingInv'
<1>1. OnRegisteredLock' /\ ServedEntry'
  BY RegisteredLockInductive, ServedEntryInductive
<1>2. CASE phase' # "stopped"
  <2>1. LockInv'
    BY LockInvInductive
  <2>2. LockExclusive'
    BY <2>1, LockInvExclusive, PTL
  <2>3. SessionOf \in [Tasks -> Sessions]
    BY PoolAssumption
  <2>4. SessionSequential'
    <3> SUFFICES ASSUME NEW t \in Tasks, NEW u \in Tasks,
                        SessionOf[t] = SessionOf[u],
                        pc'[t] \in Holding, pc'[u] \in Holding
                 PROVE  t = u
      BY DEF SessionSequential
    <3>1. t \in lockOn'[SessionOf[t]] /\ u \in lockOn'[SessionOf[t]]
      BY <1>1, <1>2 DEF OnRegisteredLock, In
    <3>. QED
      BY <2>2, <2>3, <3>1 DEF LockExclusive
  <2>. QED
    BY <1>1, <2>4 DEF ServingInv
<1>3. CASE phase' = "stopped"
  <2>1. ASSUME NEW t \in Tasks, LockAcquired(t) PROVE FALSE
    BY <1>3, <2>1 DEF LockAcquired, LockInv, PendingExact, In, Pending
  <2>2. In(Holding)' \subseteq In(Holding)
    BY <2>1, HoldingSteps
  <2>3. SessionSequential'
    BY <2>2 DEF ServingInv, SessionSequential, In
  <2>. QED
    BY <1>1, <2>3 DEF ServingInv
<1>. QED
  BY <1>2, <1>3

LEMMA ServingAlways ==
  ASSUME ~LongRuns
  PROVE  Spec => [](PoolInv /\ LockInv /\ ServingInv)
<1>1. Init => ServingInv
  BY DEF Init, ServingInv, OnRegisteredLock, ServedEntry, SessionSequential, In,
         Holding, Using
<1>2. PoolInv /\ LockInv /\ ServingInv /\ [Next]_vars => ServingInv'
  BY ServingInductive
<1>. QED
  BY <1>1, <1>2, LockAlways, PTL DEF Spec

\* If no run outlasts idle_ttl_seconds, the instructions of a session are
\* served one after the other, whatever is cancelled and however tasks queue.
THEOREM SessionsAreSequential ==
  ASSUME ~LongRuns
  PROVE  Spec => []SessionSequential
<1>1. ServingInv => SessionSequential
  BY DEF ServingInv
<1>. QED
  BY <1>1, ServingAlways, PTL

-----------------------------------------------------------------------------
(* The pool implements SessionSlots.                                       *)

LEMMA InitImplements == Init => Slots!Init
  BY DEF Init, Slots!Init, In, Holding

\* A task gets its session lock with a slot in hand, so fewer than
\* MaxConcurrent hold one; nobody else of its session holds it.
LEMMA StepImplements ==
  ASSUME PoolInv, CountersInv, ServingInv, ServingInv', [Next]_vars
  PROVE  [Slots!Next]_(In(Holding))
<1>1. CASE In(Holding)' = In(Holding)
  BY <1>1
<1>2. ASSUME NEW t \in Tasks \ In(Holding), LockAcquired(t),
             In(Holding)' = In(Holding) \cup {t}
      PROVE  Slots!Next
  <2>1. Cardinality(In(Holding)) < MaxConcurrent
    <3>1. pc[t] \in Permit /\ Holding \subseteq Permit
      BY <1>2 DEF LockAcquired, Permit
    <3>2. In(Holding) \cup {t} \subseteq In(Permit)
      BY <3>1 DEF In
    <3>3. Cardinality(In(Holding) \cup {t}) = Cardinality(In(Holding)) + 1
      BY <1>2, InFinite, FS_AddElement
    <3>4. Cardinality(In(Holding) \cup {t}) <= Cardinality(In(Permit))
      BY <3>2, InFinite, FS_Subset
    <3>5. /\ semVal \in Nat /\ MaxConcurrent \in Nat
          /\ semVal + Cardinality(In(Permit)) = MaxConcurrent
      BY PoolAssumption DEF PoolInv, TypeOK, CountersInv, SlotsConserved
    <3>. QED
      BY <3>3, <3>4, <3>5, InFinite
  <2>2. \A u \in In(Holding) : SessionOf[u] # SessionOf[t]
    BY <1>2 DEF ServingInv, SessionSequential, In
  <2>3. t \notin In(Holding)
    BY <1>2
  <2>4. Slots!Cardinality(In(Holding)) = Cardinality(In(Holding))
    BY DEF Slots!Cardinality, Cardinality
  <2>5. Slots!Begin(t)
    BY <1>2, <2>1, <2>2, <2>3, <2>4 DEF Slots!Begin
  <2>. QED
    BY <2>5 DEF Slots!Next
<1>3. ASSUME NEW t \in In(Holding), In(Holding)' = In(Holding) \ {t}
      PROVE  Slots!Next
  <2>1. t \in Tasks
    BY DEF In
  <2>. QED
    BY <1>3, <2>1 DEF Slots!Next, Slots!End
<1>. QED
  BY <1>1, <1>2, <1>3, HoldingSteps

\* If no run outlasts idle_ttl_seconds, the pool is an implementation of
\* SessionSlots: at most MaxConcurrent tasks are served and one per session.
THEOREM PoolImplementsSlots ==
  ASSUME ~LongRuns
  PROVE  Spec => ImplementsSlots
<1>1. PoolInv /\ CountersInv /\ ServingInv /\ ServingInv' /\ [Next]_vars
        => [Slots!Next]_(In(Holding))
  BY StepImplements
<1>. QED
  BY <1>1, InitImplements, ServingAlways, CountersAlways, PTL
     DEF Spec, ImplementsSlots, Slots!Spec

-----------------------------------------------------------------------------
(* First come, first served within a session.                              *)

\* Until stop() clears the table, whoever waits for a session lock waits for the
\* registered one, even if runs outlast the TTL: a waiter is pending, and the
\* sweep spares the sessions of pending tasks.
WaitersRegistered ==
  phase # "stopped" =>
    \A t \in In({"lockWait"}) : t \in lockOn[SessionOf[t]]

LEMMA WaitersRegisteredStep ==
  ASSUME PoolInv, LockInv, WaitersRegistered, [Next]_vars
  PROVE  WaitersRegistered'
<1>p. /\ pc \in [Tasks -> Stages]
      /\ lockOn \in [Sessions -> SUBSET Tasks]
      /\ SessionOf \in [Tasks -> Sessions]
  BY PoolAssumption DEF PoolInv, TypeOK
<1> USE DEF WaitersRegistered, In
<1>1. ASSUME NEW t \in Tasks, Enter(t) \/ TrySemaphore(t)
      PROVE  WaitersRegistered'
  BY <1>p, <1>1 DEF Enter, TrySemaphore, JoinLock, lockVars
<1>2. ASSUME NEW t \in Tasks, ResumeSemaphore(t)
      PROVE  WaitersRegistered'
  BY <1>p, <1>2 DEF ResumeSemaphore, SemWaiters, JoinLock
<1>3. ASSUME NEW t \in Tasks,
             LockAcquired(t) \/ MarkRunning(t) \/ BeginStream(t) \/ ReleaseDone(t)
      PROVE  WaitersRegistered'
  BY <1>p, <1>3 DEF LockAcquired, MarkRunning, BeginStream, ReleaseDone, lockVars
<1>4. ASSUME NEW t \in Tasks, t \notin SemWaiters, Cleanup(t)
      PROVE  WaitersRegistered'
  <2>1. PICK W \in SUBSET SemWaiters : t \notin W /\ Moves(t, "releaseCast", W)
    BY <1>4, CleanupMoves
  <2>2. \A u \in Tasks : pc'[u] = "lockWait" => u # t /\ pc[u] = "lockWait"
    BY <2>1 DEF Moves
  <2>. QED
    BY <1>p, <1>4, <2>2 DEF Cleanup
<1>5. ASSUME NEW t \in Tasks,
             Finish(t) \/ CancelDelivered(t) \/ MaterializeFails(t)
      PROVE  WaitersRegistered'
  BY <1>4, <1>5 DEF Finish, CancelDelivered, MaterializeFails, SemWaiters, Using
<1>6. CASE EvictScan
  <2>1. \A t \in Tasks : pc[t] = "lockWait" => SessionOf[t] \notin Evictable
    BY <1>p, <1>6 DEF EvictScan, LockInv, PendingExact, Pending, Evictable, TasksOf
  <2>. QED
    BY <1>p, <1>6, <2>1 DEF EvictScan
<1>7. ASSUME NEW s \in Sessions, CancelSession(s) \/ TtlElapses(s)
      PROVE  WaitersRegistered'
  BY <1>7 DEF CancelSession, TtlElapses, lockVars
<1>8. CASE StopBegin \/ StopFinish \/ UNCHANGED vars
  BY <1>8 DEF StopBegin, StopFinish, vars, lockVars
<1>. QED
  BY <1>1, <1>2, <1>3, <1>5, <1>6, <1>7, <1>8 DEF Next, Resume, Quiescent

\* u queued before t and still waits: u is ahead of t in the queue both are in,
\* or one queue further, and t does not hold the lock.
Before(u, t) ==
  /\ u \in TasksOf(SessionOf[t]) \ {t}
  /\ pc[u] \in Joined /\ u \notin cancelling
  /\ pc[t] \in {"semWait", "semGranted"} => pc[u] = "lockWait" \/ u \in semAhead[t]
  /\ pc[t] = "semGranted" => pc[u] # "semWait"
  /\ pc[t] = "lockWait" => pc[u] = "lockWait" /\ u \in lockAhead[t]
  /\ pc[t] \notin Holding

OrderInv == \A t \in Tasks : \A u \in joinedBefore[t] : Before(u, t)

\* What the history says after a step.
LEMMA RecordFacts ==
  ASSUME Record, NEW t \in Tasks, NEW u \in joinedBefore'[t]
  PROVE  /\ u \in Tasks /\ pc'[u] \in Joined /\ u \notin cancelling'
         /\ \/ JoinsNow(t) /\ u \in TasksOf(SessionOf[t]) \ {t} /\ pc[u] \in Joined
            \/ ~JoinsNow(t) /\ u \in joinedBefore[t]
BY DEF Record

\* A task joins the lock of its session behind all that wait for it.
LEMMA JoinsBehind ==
  ASSUME PoolInv, WaitersRegistered, phase # "stopped",
         NEW t \in Tasks, JoinLock(t), NEW u \in TasksOf(SessionOf[t]),
         pc[u] = "lockWait", u \notin cancelling
  PROVE  u \in lockAhead'[t]
BY PoolAssumption DEF PoolInv, TypeOK, WaitersRegistered, In, JoinLock, LockBlockers, TasksOf

\* A step that wakes and moves nobody into a queue.
LEMMA OrderKept ==
  ASSUME OrderInv, Record,
         \A v \in Tasks :
           /\ pc'[v] \in Joined => pc'[v] = pc[v]
           /\ pc'[v] \in Holding => pc[v] \in Holding \/ joinedBefore[v] = {},
         UNCHANGED <<semAhead, lockAhead>>
  PROVE  OrderInv'
<1> SUFFICES ASSUME NEW v \in Tasks, NEW u \in joinedBefore'[v]
             PROVE  Before(u, v)'
  BY DEF OrderInv
<1>1. u \in Tasks /\ pc'[u] \in Joined /\ u \notin cancelling' /\ pc'[u] = pc[u]
  BY RecordFacts
<1>2. ~JoinsNow(v)
  BY DEF JoinsNow
<1>3. u \in joinedBefore[v] /\ Before(u, v)
  BY <1>2, RecordFacts DEF OrderInv
<1>. QED
  BY <1>1, <1>3 DEF Before, TasksOf, Joined, Holding

\* A step in which t moves and the waiters in W are woken, those ahead first.
LEMMA OrderWoken ==
  ASSUME PoolInv, OrderInv, Record, NEW t \in Tasks, NEW x, NEW k, NEW W,
         FirstWaiters(k, W), t \notin W, Moves(t, x, W),
         x = "lockWait" => \A u \in joinedBefore'[t] : pc[u] = "lockWait" /\ u \in lockAhead'[t],
         x \in {"lockWait", "releaseCast"},
         semAhead' = [u \in Tasks |-> semAhead[u] \ {t}],
         \A u \in Tasks \ {t} : lockAhead[u] \ (IF x = "lockWait" THEN {} ELSE {t}) \subseteq lockAhead'[u]
  PROVE  OrderInv'
<1> SUFFICES ASSUME NEW v \in Tasks, NEW u \in joinedBefore'[v]
             PROVE  Before(u, v)'
  BY DEF OrderInv
<1>p. /\ W \subseteq SemWaiters
      /\ \A w \in Tasks : pc'[w] = IF w = t THEN x
                                  ELSE IF w \in W THEN "semGranted" ELSE pc[w]
      /\ \A w \in W : semAhead[w] \cap SemWaiters \subseteq W
  BY DEF FirstWaiters, Moves
<1>1. u \in Tasks /\ pc'[u] \in Joined /\ u \notin cancelling'
  BY RecordFacts
<1>2. CASE v = t
  <2>1. x = "lockWait" => pc[u] = "lockWait" /\ u \in lockAhead'[t] /\ u # t
    BY <1>2, RecordFacts DEF OrderInv, Before
  <2>2. u \in TasksOf(SessionOf[t]) \ {t}
    BY <1>2, RecordFacts DEF OrderInv, Before
  <2>. QED
    BY <1>p, <1>1, <1>2, <2>1, <2>2 DEF Before, SemWaiters, TasksOf, Holding, Joined
<1>3. CASE v # t
  <2>1. ~JoinsNow(v)
    BY <1>p, <1>3 DEF JoinsNow, SemWaiters, Joined
  <2>2. u \in joinedBefore[v] /\ Before(u, v)
    BY <2>1, RecordFacts DEF OrderInv
  <2>3. pc'[v] = "semGranted" => pc'[u] # "semWait"
    <3>1. CASE v \in W
      <4>1. pc[v] = "semWait" /\ (pc[u] = "semWait" => u \in semAhead[v])
        BY <1>p, <2>2, <3>1 DEF Before, SemWaiters
      <4>2. pc[u] = "semWait" => u \in W
        BY <1>p, <1>1, <2>2, <3>1, <4>1 DEF Before, SemWaiters
      <4>. QED
        BY <1>p, <1>1, <4>2 DEF SemWaiters
    <3>2. CASE v \notin W
      BY <1>p, <1>1, <1>3, <2>2, <3>2 DEF Before, SemWaiters
    <3>. QED
      BY <3>1, <3>2
  <2>4. u = t => x = "lockWait"
    BY <1>p, <1>1 DEF Joined
  <2>a. pc[u] = "lockWait" => pc'[u] = "lockWait"
    BY <1>p, <1>1, <2>4 DEF SemWaiters
  <2>b. pc'[v] = pc[v] \/ (pc[v] = "semWait" /\ pc'[v] = "semGranted")
    BY <1>p, <1>3 DEF SemWaiters
  <2>5. pc'[v] \in {"semWait", "semGranted"} => pc'[u] = "lockWait" \/ u \in semAhead'[v]
    <3>1. ASSUME u \in semAhead[v], u # t
          PROVE  u \in semAhead'[v]
      BY <3>1
    <3>2. u = t => pc'[u] = "lockWait"
      BY <1>p, <2>4
    <3>. QED
      BY <2>2, <2>a, <2>b, <3>1, <3>2 DEF Before
  <2>6. pc'[v] = "lockWait" => pc'[u] = "lockWait" /\ u \in lockAhead'[v]
    <3>1. pc[v] = "lockWait" => pc[u] = "lockWait" /\ u \in lockAhead[v]
      BY <2>2 DEF Before
    <3>2. ASSUME u \in lockAhead[v]
          PROVE  u \in lockAhead'[v]
      BY <1>3, <2>4, <3>2
    <3>. QED
      BY <2>a, <2>b, <3>1, <3>2
  <2>7. pc'[v] \notin Holding
    BY <1>p, <1>3, <2>2 DEF Before, Holding
  <2>. QED
    BY <1>1, <2>2, <2>3, <2>5, <2>6, <2>7 DEF Before, TasksOf
<1>. QED
  BY <1>2, <1>3

\* A step in which only t moves, into a queue, behind those that are in it.
LEMMA OrderJoined ==
  ASSUME PoolInv, OrderInv, Record, NEW t \in Tasks, NEW x \in {"semWait", "lockWait"},
         pc[t] \notin Joined, Goes(t, x), cancelling' = cancelling,
         \A u \in TasksOf(SessionOf[t]) \ {t} :
           pc[u] \in Joined /\ u \notin cancelling =>
             /\ x = "semWait" => pc[u] = "lockWait" \/ u \in semAhead'[t]
             /\ x = "lockWait" => pc[u] = "lockWait" /\ u \in lockAhead'[t],
         \A u \in Tasks \ {t} : semAhead'[u] = semAhead[u] /\ lockAhead'[u] = lockAhead[u]
  PROVE  OrderInv'
<1> SUFFICES ASSUME NEW v \in Tasks, NEW u \in joinedBefore'[v]
             PROVE  Before(u, v)'
  BY DEF OrderInv
<1>p. pc'[t] = x /\ \A w \in Tasks \ {t} : pc'[w] = pc[w]
  BY DEF Goes, PoolInv, TypeOK
<1>1. u \in Tasks /\ pc'[u] \in Joined /\ u \notin cancelling'
  BY RecordFacts
<1>2. CASE v = t
  <2>1. JoinsNow(t)
    BY <1>p DEF JoinsNow, Joined
  <2>2. u \in TasksOf(SessionOf[t]) \ {t} /\ pc[u] \in Joined /\ u \notin cancelling
    BY <1>1, <1>2, <2>1, RecordFacts
  <2>. QED
    BY <1>p, <1>1, <1>2, <2>2 DEF Before, TasksOf, Holding
<1>3. CASE v # t
  <2>1. ~JoinsNow(v)
    BY <1>p, <1>3 DEF JoinsNow
  <2>2. u \in joinedBefore[v] /\ Before(u, v)
    BY <2>1, RecordFacts DEF OrderInv
  <2>3. u # t
    BY <2>2 DEF Before
  <2>. QED
    BY <1>p, <1>1, <1>3, <2>2, <2>3 DEF Before, TasksOf
<1>. QED
  BY <1>2, <1>3

LEMMA OrderCleanup ==
  ASSUME PoolInv, OrderInv, Record, NEW t \in Tasks, Cleanup(t),
         pc[t] # "semWait" \/ t \in cancelling
  PROVE  OrderInv'
<1>1. PICK W \in SUBSET SemWaiters :
        /\ FirstWaiters(WakeLimit(t), W)
        /\ Moves(t, "releaseCast", W)
  BY DEF Cleanup, Moves
<1>2. t \notin W
  BY DEF SemWaiters
<1>3. /\ semAhead' = [u \in Tasks |-> semAhead[u] \ {t}]
      /\ \A u \in Tasks \ {t} : lockAhead[u] \ {t} \subseteq lockAhead'[u]
  BY DEF Cleanup
<1>. QED
  BY <1>1, <1>2, <1>3, OrderWoken

LEMMA OrderStep ==
  ASSUME PoolInv, LockInv, WaitersRegistered, OrderInv, HNext \/ UNCHANGED <<vars, joinedBefore>>
  PROVE  OrderInv'
<1>p. /\ pc \in [Tasks -> Stages]
      /\ lockAhead \in [Tasks -> SUBSET Tasks]
      /\ semAhead \in [Tasks -> SUBSET Tasks]
  BY DEF PoolInv, TypeOK
<1>l. ASSUME NEW u \in Tasks, u \notin cancelling, pc[u] \in Pending
      PROVE  phase # "stopped"
  BY <1>l DEF LockInv, PendingExact, In
<1>1. CASE UNCHANGED <<vars, joinedBefore>>
  BY <1>1 DEF OrderInv, Before, vars, semVars, lockVars
<1> SUFFICES ASSUME HNext
             PROVE  OrderInv'
  BY <1>1
<1>r. Record
  BY DEF HNext
<1>2. ASSUME NEW t \in Tasks,
             (Enter(t) /\ pc'[t] # "queuedCast") \/ TrySemaphore(t)
      PROVE  OrderInv'
  <2>1. /\ pc[t] \notin Joined /\ cancelling' = cancelling
        /\ phase # "stopped"
    BY <1>2, <1>l DEF Enter, TrySemaphore, Joined, Pending, Queued
  <2>2. CASE ~SemLocked /\ JoinLock(t) /\ Goes(t, "lockWait") /\ semAhead' = semAhead
    <3>1. \A u \in Tasks : pc[u] \in Joined /\ u \notin cancelling => pc[u] = "lockWait"
      BY <2>2 DEF SemLocked, SemWaiters, In, Joined
    <3>2. \A u \in TasksOf(SessionOf[t]) \ {t} :
            pc[u] \in Joined /\ u \notin cancelling => pc[u] = "lockWait" /\ u \in lockAhead'[t]
      BY <2>1, <2>2, <3>1, JoinsBehind DEF TasksOf
    <3>3. \A u \in Tasks \ {t} : semAhead'[u] = semAhead[u] /\ lockAhead'[u] = lockAhead[u]
      BY <1>p, <2>2 DEF JoinLock
    <3>. QED
      BY <1>r, <2>1, <2>2, <3>2, <3>3, OrderJoined
  <2>3. CASE /\ semAhead' = [semAhead EXCEPT ![t] = In({"semWait", "semGranted"})]
             /\ Goes(t, "semWait") /\ UNCHANGED lockVars
    <3>1. \A u \in TasksOf(SessionOf[t]) \ {t} :
            pc[u] \in Joined /\ u \notin cancelling => pc[u] = "lockWait" \/ u \in semAhead'[t]
      BY <1>p, <2>3 DEF In, Joined, TasksOf
    <3>2. \A u \in Tasks \ {t} : semAhead'[u] = semAhead[u] /\ lockAhead'[u] = lockAhead[u]
      BY <1>p, <2>3 DEF lockVars
    <3>. QED
      BY <1>r, <2>1, <2>3, <3>1, <3>2, OrderJoined
  <2>. QED
    BY <1>p, <1>2, <2>2, <2>3 DEF Enter, TrySemaphore, Goes
<1>3. ASSUME NEW t \in Tasks, Enter(t), pc'[t] = "queuedCast"
      PROVE  OrderInv'
  BY <1>p, <1>r, <1>3, OrderKept DEF Enter, Joined, Holding, lockVars
<1>4. ASSUME NEW t \in Tasks, ResumeSemaphore(t)
      PROVE  OrderInv'
  <2>1. PICK W \in SUBSET SemWaiters :
          FirstWaiters(semVal, W) /\ Moves(t, "lockWait", W)
    BY <1>4 DEF ResumeSemaphore, Moves
  <2>2. /\ pc[t] = "semGranted" /\ t \notin W /\ t \notin cancelling
        /\ semAhead[t] \cap In({"semGranted"}) = {}
        /\ semAhead' = [u \in Tasks |-> semAhead[u] \ {t}]
        /\ JoinLock(t)
    BY <1>4 DEF ResumeSemaphore, SemWaiters
  <2>3. phase # "stopped"
    BY <1>l, <2>2 DEF Pending, Queued
  <2>4. ASSUME NEW u \in joinedBefore'[t]
        PROVE  pc[u] = "lockWait" /\ u \in lockAhead'[t]
    <3>1. ~JoinsNow(t)
      BY <2>2 DEF JoinsNow, Joined
    <3>2. Before(u, t) /\ u \in Tasks
      BY <1>r, <2>4, <3>1, RecordFacts DEF OrderInv
    <3>3. pc[u] = "lockWait"
      BY <2>2, <3>2 DEF Before, In, Joined
    <3>. QED
      BY <2>2, <2>3, <3>2, <3>3, JoinsBehind DEF Before
  <2>5. \A u \in Tasks \ {t} : lockAhead[u] \subseteq lockAhead'[u]
    BY <1>p, <2>2 DEF JoinLock
  <2>. QED
    BY <1>r, <2>1, <2>2, <2>4, <2>5, OrderWoken
<1>5. ASSUME NEW t \in Tasks, LockAcquired(t)
      PROVE  OrderInv'
  <2>1. joinedBefore[t] = {}
    BY <1>5 DEF LockAcquired, OrderInv, Before
  <2>. QED
    BY <1>p, <1>r, <1>5, <2>1, OrderKept DEF LockAcquired, Joined, lockVars, semVars
<1>6. ASSUME NEW t \in Tasks, MarkRunning(t) \/ BeginStream(t) \/ ReleaseDone(t)
      PROVE  OrderInv'
  BY <1>p, <1>r, <1>6, OrderKept
  DEF MarkRunning, BeginStream, ReleaseDone, Joined, Holding, lockVars, semVars
<1>7. ASSUME NEW t \in Tasks, Finish(t) \/ CancelDelivered(t) \/ MaterializeFails(t)
      PROVE  OrderInv'
  BY <1>r, <1>7, OrderCleanup DEF Finish, CancelDelivered, MaterializeFails, Using
<1>8. ASSUME UNCHANGED <<pc, semAhead, lockAhead>>
      PROVE  OrderInv'
  BY <1>r, <1>8, OrderKept
<1>9. ASSUME NEW s \in Sessions, CancelSession(s) \/ TtlElapses(s)
      PROVE  OrderInv'
  BY <1>8, <1>9 DEF CancelSession, TtlElapses, lockVars, semVars
<1>10. CASE EvictScan \/ StopBegin \/ StopFinish \/ Quiescent
  BY <1>8, <1>10 DEF EvictScan, StopBegin, StopFinish, Quiescent, vars, lockVars, semVars
<1>. QED
  BY <1>2, <1>3, <1>4, <1>5, <1>6, <1>7, <1>9, <1>10 DEF HNext, Next, Resume

\* First come, first served within a session, through semaphore and lock, for
\* any tasks, sessions and slots, whatever is cancelled, swept or stopped, and
\* even if runs outlast the TTL.
THEOREM OrderIsKept == HSpec => []JoinOrder
<1>1. HInit => WaitersRegistered /\ OrderInv
  BY DEF HInit, Init, WaitersRegistered, OrderInv, In
<1>2. HSpec => Spec
  <2>1. HInit => Init
    BY DEF HInit
  <2>2. [HNext]_<<vars, joinedBefore>> => [Next]_vars
    BY DEF HNext
  <2>. QED
    BY <2>1, <2>2, PTL DEF HSpec, Spec
<1>3. PoolInv /\ LockInv /\ WaitersRegistered /\ [HNext]_<<vars, joinedBefore>>
        => WaitersRegistered'
  BY WaitersRegisteredStep DEF HNext
<1>4. PoolInv /\ LockInv /\ WaitersRegistered /\ OrderInv /\ [HNext]_<<vars, joinedBefore>>
        => OrderInv'
  BY OrderStep
<1>5. OrderInv => JoinOrder
  BY DEF OrderInv, Before, JoinOrder
<1>. QED
  BY <1>1, <1>2, <1>3, <1>4, <1>5, LockAlways, PTL DEF HSpec
-----------------------------------------------------------------------------
(* Nobody waits in circles.                                                *)

\* Whoever waits for a session lock waits for tasks of its session on the same
\* lock, and what those wait for is ahead of it as well or was cancelled.
LockChain ==
  \A t \in In({"lockWait"}) : \A u \in lockAhead[t] :
    /\ u \in TasksOf(SessionOf[t]) \ {t}
    /\ pc[u] \in {"lockWait"} \cup Holding
    /\ t \in lockOn[SessionOf[t]] => u \in lockOn[SessionOf[t]]
    /\ lockAhead[u] \subseteq lockAhead[t] \cup cancelling

\* In line for the semaphore, asleep or woken.
InLine == {"semWait", "semGranted"}

\* The semaphore's line is a line: whoever is ahead of t is in it, and so are
\* those ahead of him, ahead of t.
SlotChain ==
  \A t \in In(InLine) : \A u \in semAhead[t] :
    /\ u \in In(InLine) \ {t}
    /\ semAhead[u] \subseteq semAhead[t]

\* Nothing but the event loop keeps t from its next step: it was cancelled, its
\* broadcast or its run ends, it is the first task woken, or it owns the lock.
CanGoOn(t) ==
  \/ t \in cancelling
  \/ pc[t] \in {"queuedCast", "startCast", "releaseCast"} \cup Using
  \/ pc[t] = "semGranted" /\ semAhead[t] \cap In({"semGranted"}) = {}
  \/ pc[t] = "lockWait" /\ lockAhead[t] = {}

\* A task that waits for its session's lock waits, in the end, for a task of the
\* session that can go on; unless all tasks are idle, one of them can; and a
\* wake-up always finds the waiters it is to wake.
NobodyIsStuck ==
  /\ \A t \in In({"lockWait"}) : \E u \in TasksOf(SessionOf[t]) : CanGoOn(u)
  /\ In({"idle"}) # Tasks => \E t \in Tasks : CanGoOn(t)
  /\ \A k \in Nat : \E W \in SUBSET SemWaiters : FirstWaiters(k, W)

\* A nonempty set of numbers has a least one.
LEMMA Least ==
  ASSUME NEW T \in SUBSET Nat, T # {}
  PROVE  \E m \in T : \A n \in T : m <= n
<1>1. PICK m \in T : \A n \in T : <<n, m>> \notin OpToRel(<, Nat)
  BY WFMin, NatLessThanWellFounded
<1>2. \A n \in T : ~(n < m)
  BY <1>1 DEF OpToRel
<1>. QED
  BY <1>2

\* Some task of a set waits for no other task of the set, when what is ahead of
\* a task includes what is ahead of those.
LEMMA FirstOfLine ==
  ASSUME NEW S \in SUBSET Tasks, S # {}, NEW ahead \in [Tasks -> SUBSET Tasks],
         \A t \in S : \A u \in ahead[t] \cap S :
           u # t /\ ahead[u] \cap S \subseteq ahead[t]
  PROVE  \E t \in S : ahead[t] \cap S = {}
<1> DEFINE n(t) == Cardinality(ahead[t] \cap S)
<1>1. \A t \in S : IsFiniteSet(ahead[t] \cap S) /\ n(t) \in Nat
  <2> SUFFICES ASSUME NEW t \in S
               PROVE  IsFiniteSet(ahead[t] \cap S) /\ n(t) \in Nat
    OBVIOUS
  <2>1. ahead[t] \cap S \in SUBSET Tasks
    OBVIOUS
  <2>. QED
    BY <2>1, PoolAssumption, FS_Subset, FS_CardinalityType
<1>2. PICK t \in S : \A u \in S : n(t) <= n(u)
  <2> DEFINE f == [u \in S |-> n(u)]
             T == {f[u] : u \in S}
  <2>1. f \in [S -> Nat]
    BY <1>1
  <2> HIDE DEF f
  <2>2. PICK m \in T : \A k \in T : m <= k
    <3>1. T \in SUBSET Nat /\ T # {}
      BY <2>1
    <3> HIDE DEF T
    <3>. QED
      BY <3>1, Least
  <2>3. PICK t \in S : m = f[t]
    BY <2>2
  <2>4. \A u \in S : f[t] <= f[u]
    BY <2>2, <2>3
  <2>. QED
    BY <2>4 DEF f
<1>3. ASSUME NEW u \in ahead[t] \cap S
      PROVE  FALSE
  <2>1. ahead[u] \cap S \subseteq (ahead[t] \cap S) \ {u}
    BY <1>3
  <2>2. /\ IsFiniteSet((ahead[t] \cap S) \ {u})
        /\ Cardinality((ahead[t] \cap S) \ {u}) = n(t) - 1
    BY <1>1, <1>3, FS_RemoveElement
  <2>3. n(u) <= n(t) - 1
    BY <2>1, <2>2, FS_Subset
  <2>. QED
    BY <1>1, <1>2, <1>3, <2>3
<1>. QED
  BY <1>3

\* Whatever the number of free slots, the line has first waiters to take them.
LEMMA WakeUpFindsWaiters ==
  ASSUME PoolInv, SlotChain, NEW k \in Nat
  PROVE  \E W \in SUBSET SemWaiters : FirstWaiters(k, W)
<1> DEFINE Fails == {j \in Nat : \A W \in SUBSET SemWaiters : ~FirstWaiters(j, W)}
<1> SUFFICES ASSUME Fails # {}
             PROVE  FALSE
  OBVIOUS
<1>1. PICK j \in Fails : \A i \in Fails : j <= i
  <2>1. Fails \in SUBSET Nat
    OBVIOUS
  <2> HIDE DEF Fails
  <2>. QED
    BY <2>1, Least
<1>2. CASE j = 0
  <2>1. FirstWaiters(0, {})
    BY WaitersFinite, FS_EmptySet DEF FirstWaiters
  <2>. QED
    BY <1>2, <2>1
<1>3. CASE j # 0
  <2>1. j - 1 \in Nat /\ j - 1 \notin Fails
    BY <1>1, <1>3
  <2>2. PICK W \in SUBSET SemWaiters : FirstWaiters(j - 1, W)
    BY <2>1
  <2>3. /\ IsFiniteSet(W) /\ Cardinality(W) \in Nat
        /\ Cardinality(W) = j - 1 \/ W = SemWaiters
    BY <2>1, <2>2, WokenCount
  <2>4. CASE W = SemWaiters
    <3>1. FirstWaiters(j, W)
      BY <2>1, <2>2, <2>4, WaitersFinite DEF FirstWaiters
    <3>. QED
      BY <3>1
  <2>5. CASE W # SemWaiters
    <3> DEFINE S == SemWaiters \ W
    <3>1. S \in SUBSET Tasks /\ S # {}
      BY <2>5 DEF SemWaiters
    <3>2. semAhead \in [Tasks -> SUBSET Tasks]
      BY DEF PoolInv, TypeOK
    <3>3. \A t \in S : \A u \in semAhead[t] \cap S :
            u # t /\ semAhead[u] \cap S \subseteq semAhead[t]
      BY DEF SlotChain, SemWaiters, In, InLine
    <3>4. PICK t \in S : semAhead[t] \cap S = {}
      <4> HIDE DEF S
      <4>. QED
        BY <3>1, <3>2, <3>3, FirstOfLine
    <3>5. Cardinality(W \cup {t}) = j
      <4>1. Cardinality(W \cup {t}) = Cardinality(W) + 1
        BY <2>3, <3>4, FS_AddElement
      <4>2. j \in Nat /\ Cardinality(W) = j - 1
        BY <2>3, <2>5
      <4>. QED
        BY <4>1, <4>2
    <3>6. Cardinality(W \cup {t}) <= Cardinality(SemWaiters)
      BY <3>4, WaitersFinite, FS_Subset
    <3>7. \A u \in W \cup {t} : semAhead[u] \cap SemWaiters \subseteq W \cup {t}
      BY <2>2, <3>4 DEF FirstWaiters
    <3>8. FirstWaiters(j, W \cup {t})
      BY <3>4, <3>5, <3>6, <3>7, WaitersFinite DEF FirstWaiters
    <3>. QED
      BY <3>4, <3>8
  <2>. QED
    BY <2>4, <2>5
<1>. QED
  BY <1>2, <1>3

\* A session's lock is not waited for in circles.
LEMMA LockLineMoves ==
  ASSUME PoolInv, LockChain, NEW t \in In({"lockWait"})
  PROVE  \E u \in TasksOf(SessionOf[t]) : CanGoOn(u)
<1> DEFINE S == {t} \cup lockAhead[t]
<1> SUFFICES ASSUME \A u \in TasksOf(SessionOf[t]) : ~CanGoOn(u)
             PROVE  FALSE
  OBVIOUS
<1>1. t \in Tasks /\ lockAhead \in [Tasks -> SUBSET Tasks]
  BY DEF In, PoolInv, TypeOK
<1>2. \A u \in S : /\ u \in In({"lockWait"}) \cap TasksOf(SessionOf[t])
                   /\ u \notin cancelling
                   /\ lockAhead[u] # {}
  BY <1>1 DEF LockChain, CanGoOn, TasksOf, In, Holding, Using
<1>3. \A v \in S : \A u \in lockAhead[v] \cap S :
        u # v /\ lockAhead[u] \cap S \subseteq lockAhead[v]
  BY <1>2 DEF LockChain
<1>4. PICK v \in S : lockAhead[v] \cap S = {}
  <2>1. S \in SUBSET Tasks /\ S # {}
    BY <1>1
  <2> HIDE DEF S
  <2>. QED
    BY <1>1, <1>3, <2>1, FirstOfLine
<1>5. PICK w \in lockAhead[v] : TRUE
  BY <1>2
<1>6. w \in cancelling
  BY <1>2, <1>4, <1>5 DEF LockChain
<1>7. w \in TasksOf(SessionOf[t])
  BY <1>2, <1>5 DEF LockChain, TasksOf
<1>. QED
  BY <1>6, <1>7 DEF CanGoOn

\* Neither is the semaphore, and both together are not either.
LEMMA SomebodyGoesOn ==
  ASSUME PoolInv, LockChain, SlotChain, SlotsConserved, NoLostWakeup,
         In({"idle"}) # Tasks
  PROVE  \E t \in Tasks : CanGoOn(t)
<1> SUFFICES ASSUME \A t \in Tasks : ~CanGoOn(t)
             PROVE  FALSE
  OBVIOUS
<1>1. pc \in [Tasks -> Stages] /\ semAhead \in [Tasks -> SUBSET Tasks] /\ semVal \in Nat
  BY DEF PoolInv, TypeOK
<1>2. \A t \in Tasks : pc[t] # "lockWait"
  BY LockLineMoves DEF In, TasksOf
<1>3. In({"semGranted"}) = {}
  <2> SUFFICES ASSUME In({"semGranted"}) # {}
               PROVE  FALSE
    OBVIOUS
  <2> DEFINE S == In({"semGranted"})
  <2>1. S \in SUBSET Tasks /\ S # {}
    BY DEF In
  <2>2. \A t \in S : \A u \in semAhead[t] \cap S :
          u # t /\ semAhead[u] \cap S \subseteq semAhead[t]
    BY DEF SlotChain, In, InLine
  <2>3. PICK t \in S : semAhead[t] \cap S = {}
    <3> HIDE DEF S
    <3>. QED
      BY <1>1, <2>1, <2>2, FirstOfLine
  <2>. QED
    BY <2>3 DEF CanGoOn, In
<1>4. \A t \in Tasks : pc[t] \in {"idle", "semWait"} /\ t \notin cancelling
  BY <1>1, <1>2, <1>3 DEF CanGoOn, In, Stages, Pending, Queued, Using
<1>5. In(Permit) = {}
  BY <1>4 DEF In, Permit, Holding
<1>6. semVal > 0
  BY <1>1, <1>5, FS_EmptySet, PoolAssumption DEF SlotsConserved
<1>7. SemWaiters # {}
  BY <1>4 DEF SemWaiters, In
<1>. QED
  BY <1>3, <1>6, <1>7 DEF NoLostWakeup

\* u goes on waiting for or holding its session lock, or goes on doing neither.
LockStageKept(u) ==
  /\ pc'[u] = "lockWait" => pc[u] = "lockWait"
  /\ pc'[u] \in {"lockWait"} \cup Holding <=> pc[u] \in {"lockWait"} \cup Holding

\* A step in which nobody comes or goes at a lock; a lock may be dropped, and
\* tasks be cancelled.
LEMMA LockChainKept ==
  ASSUME PoolInv, LockChain, \A u \in Tasks : LockStageKept(u),
         lockAhead' = lockAhead, cancelling \subseteq cancelling',
         \A s \in Sessions : lockOn'[s] = lockOn[s] \/ lockOn'[s] = {}
  PROVE  LockChain'
<1> SUFFICES ASSUME NEW t \in In({"lockWait"})', NEW u \in lockAhead'[t]
             PROVE  /\ u \in TasksOf(SessionOf[t]) \ {t}
                    /\ pc'[u] \in {"lockWait"} \cup Holding
                    /\ t \in lockOn'[SessionOf[t]] => u \in lockOn'[SessionOf[t]]
                    /\ lockAhead'[u] \subseteq lockAhead'[t] \cup cancelling'
  BY DEF LockChain, TasksOf
<1>1. t \in In({"lockWait"}) /\ SessionOf[t] \in Sessions
  BY PoolAssumption DEF In, LockStageKept
<1>. QED
  BY <1>1 DEF LockChain, LockStageKept, TasksOf

\* t joins the lock of its session.
LEMMA LockChainJoined ==
  ASSUME PoolInv, LockInv, LockChain, NEW t \in Tasks, JoinLock(t),
         pc[t] \notin {"lockWait"} \cup Holding, pc'[t] = "lockWait",
         \A u \in Tasks \ {t} : LockStageKept(u), cancelling' = cancelling
  PROVE  LockChain'
<1>1. /\ lockOn \in [Sessions -> SUBSET Tasks]
      /\ lockAhead \in [Tasks -> SUBSET Tasks]
      /\ SessionOf \in [Tasks -> Sessions]
  BY PoolAssumption DEF PoolInv, TypeOK
<1>2. /\ lockAhead'[t] = LockBlockers(SessionOf[t])
      /\ \A v \in Tasks \ {t} : lockAhead'[v] = lockAhead[v]
      /\ \A s \in Sessions : lockOn'[s] = lockOn[s] \cup (IF s = SessionOf[t] THEN {t} ELSE {})
  BY <1>1 DEF JoinLock
<1> SUFFICES ASSUME NEW v \in In({"lockWait"})', NEW u \in lockAhead'[v]
             PROVE  /\ u \in TasksOf(SessionOf[v]) \ {v}
                    /\ pc'[u] \in {"lockWait"} \cup Holding
                    /\ v \in lockOn'[SessionOf[v]] => u \in lockOn'[SessionOf[v]]
                    /\ lockAhead'[u] \subseteq lockAhead'[v] \cup cancelling'
  BY DEF LockChain, TasksOf
<1>3. CASE v = t
  <2>1. u \in lockOn[SessionOf[t]] /\ u \in Tasks
    BY <1>1, <1>2, <1>3 DEF LockBlockers
  <2>2. u \in TasksOf(SessionOf[t]) \ {t} /\ pc[u] \in {"lockWait"} \cup Holding
    BY <1>1, <2>1 DEF LockInv, OnLock, In
  <2>3. lockAhead[u] \subseteq LockBlockers(SessionOf[t]) \cup cancelling
    <3>1. CASE pc[u] \in Holding
      BY <2>1, <3>1 DEF LockInv, HoldersFirst, In
    <3>2. CASE pc[u] = "lockWait"
      BY <2>1, <2>2, <3>2 DEF LockChain, LockBlockers, TasksOf, In
    <3>. QED
      BY <2>2, <3>1, <3>2
  <2>. QED
    BY <1>1, <1>2, <1>3, <2>1, <2>2, <2>3 DEF LockStageKept
<1>4. CASE v # t
  <2>1. v \in In({"lockWait"}) /\ u \in lockAhead[v] /\ SessionOf[v] \in Sessions
    BY <1>1, <1>2, <1>4 DEF In, LockStageKept
  <2>2. u # t
    BY <2>1 DEF LockChain
  <2>. QED
    BY <1>2, <1>4, <2>1, <2>2 DEF LockChain, LockStageKept, TasksOf, In
<1>. QED
  BY <1>3, <1>4

\* t leaves acquire.
LEMMA LockChainLeft ==
  ASSUME PoolInv, LockChain, NEW t \in Tasks, Cleanup(t),
         pc'[t] = "releaseCast", \A u \in Tasks \ {t} : LockStageKept(u)
  PROVE  LockChain'
<1>1. /\ \A v \in Tasks : lockAhead'[v] = lockAhead[v] \ {t}
      /\ \A s \in Sessions : lockOn'[s] = lockOn[s] \ (IF s = SessionOf[t] THEN {t} ELSE {})
      /\ cancelling' = cancelling \ {t}
      /\ lockAhead \in [Tasks -> SUBSET Tasks] /\ SessionOf \in [Tasks -> Sessions]
  BY PoolAssumption DEF Cleanup, PoolInv, TypeOK
<1> SUFFICES ASSUME NEW v \in In({"lockWait"})', NEW u \in lockAhead'[v]
             PROVE  /\ u \in TasksOf(SessionOf[v]) \ {v}
                    /\ pc'[u] \in {"lockWait"} \cup Holding
                    /\ v \in lockOn'[SessionOf[v]] => u \in lockOn'[SessionOf[v]]
                    /\ lockAhead'[u] \subseteq lockAhead'[v] \cup cancelling'
  BY DEF LockChain, TasksOf
<1>2. v \in In({"lockWait"}) /\ v # t /\ u \in lockAhead[v] /\ u # t
  BY <1>1 DEF In, LockStageKept
<1>. QED
  BY <1>1, <1>2 DEF LockChain, LockStageKept, TasksOf, In

\* A step in which nobody comes or goes in the semaphore's line.
LEMMA SlotChainKept ==
  ASSUME SlotChain, semAhead' = semAhead,
         \A u \in Tasks : pc'[u] \in InLine <=> pc[u] \in InLine
  PROVE  SlotChain'
BY DEF SlotChain, In

\* t leaves the line, or was not in it.
LEMMA SlotChainLeft ==
  ASSUME PoolInv, SlotChain, NEW t \in Tasks, pc'[t] \notin InLine,
         semAhead' = [u \in Tasks |-> semAhead[u] \ {t}],
         \A u \in Tasks \ {t} : pc'[u] \in InLine <=> pc[u] \in InLine
  PROVE  SlotChain'
<1>1. \A v \in In(InLine)' : v \in In(InLine) \ {t} /\ semAhead'[v] = semAhead[v] \ {t}
  BY DEF In
<1>2. \A u \in Tasks : semAhead'[u] = semAhead[u] \ {t}
  OBVIOUS
<1>. QED
  BY <1>1, <1>2 DEF SlotChain, In

\* t joins the line, behind everybody in it.
LEMMA SlotChainJoined ==
  ASSUME PoolInv, SlotChain, NEW t \in Tasks, pc[t] \notin InLine, pc'[t] \in InLine,
         semAhead' = [semAhead EXCEPT ![t] = In(InLine)],
         \A u \in Tasks \ {t} : pc'[u] = pc[u]
  PROVE  SlotChain'
<1>1. /\ semAhead'[t] = In(InLine)
      /\ \A u \in Tasks \ {t} : semAhead'[u] = semAhead[u]
  BY DEF PoolInv, TypeOK
<1>2. In(InLine)' = In(InLine) \cup {t}
  BY DEF In
<1>3. t \notin In(InLine)
  BY DEF In
<1>. QED
  BY <1>1, <1>2, <1>3 DEF SlotChain, In

LEMMA LinesStep ==
  ASSUME PoolInv, LockInv, LockChain, SlotChain, [Next]_vars
  PROVE  LockChain' /\ SlotChain'
<1>p. /\ pc \in [Tasks -> Stages]
      /\ lockOn \in [Sessions -> SUBSET Tasks]
      /\ SessionOf \in [Tasks -> Sessions]
  BY PoolAssumption DEF PoolInv, TypeOK
<1>1. ASSUME NEW t \in Tasks, JoinLock(t), Goes(t, "lockWait"),
             pc[t] \in {"idle", "queuedCast"}, UNCHANGED <<cancelling, semAhead>>
      PROVE  LockChain' /\ SlotChain'
  <2>1. /\ pc[t] \notin {"lockWait"} \cup Holding /\ pc'[t] = "lockWait"
        /\ \A u \in Tasks \ {t} : LockStageKept(u)
        /\ \A u \in Tasks : pc'[u] \in InLine <=> pc[u] \in InLine
    BY <1>p, <1>1 DEF Goes, Holding, LockStageKept, InLine
  <2>. QED
    BY <1>1, <2>1, LockChainJoined, SlotChainKept
<1>2. ASSUME NEW t \in Tasks, NEW x \in Stages, Goes(t, x),
             x \notin InLine, pc[t] \notin InLine, x # "lockWait",
             x \in Holding <=> pc[t] \in {"lockWait"} \cup Holding,
             UNCHANGED <<cancelling, semAhead, lockVars>>
      PROVE  LockChain' /\ SlotChain'
  <2>1. /\ \A u \in Tasks : LockStageKept(u)
        /\ \A u \in Tasks : pc'[u] \in InLine <=> pc[u] \in InLine
    BY <1>p, <1>2 DEF Goes, LockStageKept
  <2>. QED
    BY <1>2, <2>1, LockChainKept, SlotChainKept DEF lockVars
<1>3. ASSUME NEW t \in Tasks, Enter(t)
      PROVE  LockChain' /\ SlotChain'
  BY <1>1, <1>2, <1>3
  DEF Enter, Goes, Stages, Pending, Queued, Holding, InLine
<1>4. ASSUME NEW t \in Tasks, TrySemaphore(t)
      PROVE  LockChain' /\ SlotChain'
  <2>1. CASE JoinLock(t) /\ Goes(t, "lockWait") /\ semAhead' = semAhead
    BY <1>1, <1>4, <2>1 DEF TrySemaphore
  <2>2. CASE /\ semAhead' = [semAhead EXCEPT ![t] = In(InLine)]
             /\ pc' = [pc EXCEPT ![t] = "semWait"]
             /\ UNCHANGED lockVars
    <3>1. /\ pc[t] \notin InLine /\ pc'[t] \in InLine
          /\ \A u \in Tasks \ {t} : pc'[u] = pc[u]
          /\ \A u \in Tasks : LockStageKept(u)
      BY <1>p, <1>4, <2>2 DEF TrySemaphore, InLine, LockStageKept, Holding
    <3>. QED
      BY <1>4, <2>2, <3>1, LockChainKept, SlotChainJoined DEF TrySemaphore, lockVars
  <2>. QED
    BY <1>4, <2>1, <2>2 DEF TrySemaphore, InLine, Goes
<1>5. ASSUME NEW t \in Tasks, NEW x \in {"lockWait", "releaseCast"},
             NEW W \in SUBSET SemWaiters, t \notin W, Moves(t, x, W)
      PROVE  /\ pc'[t] = x
             /\ \A u \in Tasks \ {t} : LockStageKept(u) /\ (pc'[u] \in InLine <=> pc[u] \in InLine)
  BY <1>5 DEF Moves, SemWaiters, LockStageKept, InLine, Holding
<1>6. ASSUME NEW t \in Tasks, ResumeSemaphore(t)
      PROVE  LockChain' /\ SlotChain'
  <2>1. PICK W \in SUBSET SemWaiters : Moves(t, "lockWait", W)
    BY <1>6 DEF ResumeSemaphore, Moves
  <2>2. /\ pc[t] = "semGranted" /\ t \notin W /\ JoinLock(t)
        /\ semAhead' = [u \in Tasks |-> semAhead[u] \ {t}]
        /\ cancelling' = cancelling
    BY <1>6 DEF ResumeSemaphore, SemWaiters
  <2>3. pc[t] \notin {"lockWait"} \cup Holding /\ "lockWait" \notin InLine
    BY <2>2 DEF Holding, InLine
  <2>. QED
    BY <1>5, <2>1, <2>2, <2>3, LockChainJoined, SlotChainLeft
<1>7. ASSUME NEW t \in Tasks, t \notin SemWaiters, Cleanup(t)
      PROVE  LockChain' /\ SlotChain'
  <2>1. PICK W \in SUBSET SemWaiters : t \notin W /\ Moves(t, "releaseCast", W)
    BY <1>7, CleanupMoves
  <2>2. /\ semAhead' = [u \in Tasks |-> semAhead[u] \ {t}]
        /\ "releaseCast" \notin InLine
    BY <1>7 DEF Cleanup, InLine
  <2>. QED
    BY <1>5, <1>7, <2>1, <2>2, LockChainLeft, SlotChainLeft
<1>8. ASSUME NEW t \in Tasks, Finish(t) \/ CancelDelivered(t) \/ MaterializeFails(t)
      PROVE  LockChain' /\ SlotChain'
  BY <1>7, <1>8 DEF Finish, CancelDelivered, MaterializeFails, SemWaiters, Using
<1>9. ASSUME NEW t \in Tasks,
             LockAcquired(t) \/ MarkRunning(t) \/ BeginStream(t) \/ ReleaseDone(t)
      PROVE  LockChain' /\ SlotChain'
  BY <1>2, <1>9
  DEF LockAcquired, MarkRunning, BeginStream, ReleaseDone, Goes, Stages, Pending, Queued,
      Holding, Using, InLine, semVars
<1>10. ASSUME UNCHANGED <<pc, semAhead, lockAhead>>, cancelling \subseteq cancelling',
              \A s \in Sessions : lockOn'[s] = lockOn[s] \/ lockOn'[s] = {}
       PROVE  LockChain' /\ SlotChain'
  BY <1>10, LockChainKept, SlotChainKept DEF LockStageKept
<1>11. ASSUME NEW s \in Sessions, CancelSession(s) \/ TtlElapses(s)
       PROVE  LockChain' /\ SlotChain'
  BY <1>10, <1>11 DEF CancelSession, TtlElapses, lockVars, semVars
<1>12. CASE EvictScan \/ StopBegin \/ StopFinish \/ UNCHANGED vars
  BY <1>p, <1>10, <1>12 DEF EvictScan, StopBegin, StopFinish, vars, lockVars, semVars
<1>. QED
  BY <1>3, <1>4, <1>6, <1>8, <1>9, <1>11, <1>12 DEF Next, Resume, Quiescent

\* Nobody waits in circles, at the semaphore, at the session locks or across
\* both, whatever is cancelled, swept or stopped: the safety half of
\* QueuedIsServed.
THEOREM NobodyWaitsInCircles == Spec => []NobodyIsStuck
<1>1. Init => LockChain /\ SlotChain
  BY DEF Init, LockChain, SlotChain, In, InLine
<1>2. PoolInv /\ LockInv /\ LockChain /\ SlotChain /\ [Next]_vars => LockChain' /\ SlotChain'
  BY LinesStep
<1>3. PoolInv /\ LockChain /\ SlotChain /\ SlotsConserved /\ NoLostWakeup => NobodyIsStuck
  BY LockLineMoves, SomebodyGoesOn, WakeUpFindsWaiters DEF NobodyIsStuck
<1>. QED
  BY <1>1, <1>2, <1>3, LockAlways, SlotsAreConserved, WakeupsAreNotLost, PTL DEF Spec
=============================================================================
