--------------------------- MODULE AgentPoolProofs ---------------------------
(***************************************************************************)
(* Safety of the session agent pool for every number of tasks, sessions    *)
(* and slots.                                                              *)
(***************************************************************************)
EXTENDS AgentPool, FiniteSetTheorems, TLAPS

\* The bookkeeping of pending tasks is inductive together with TypeOK: only a
\* task suspended inside acquire is pending or is being cancelled.
PendingSuspended ==
  /\ pending \subseteq In(Pending)
  /\ cancelling \subseteq In(Pending)

PoolInv == TypeOK /\ PendingSuspended

-----------------------------------------------------------------------------
(* Cardinalities of the sets of tasks the counters stand for.              *)

LEMMA InFinite ==
  ASSUME NEW S
  PROVE  IsFiniteSet(In(S)) /\ Cardinality(In(S)) \in Nat
<1>1. In(S) \in SUBSET Tasks
  BY DEF In
<1>. QED
  BY <1>1, PoolAssumption, FS_Subset, FS_CardinalityType

LEMMA InFiniteNext ==
  ASSUME NEW S
  PROVE  IsFiniteSet(In(S)') /\ Cardinality(In(S)') \in Nat
<1>1. In(S)' \in SUBSET Tasks
  BY DEF In
<1>. QED
  BY <1>1, PoolAssumption, FS_Subset, FS_CardinalityType

LEMMA WaitersFinite ==
  IsFiniteSet(SemWaiters) /\ Cardinality(SemWaiters) \in Nat
<1>1. SemWaiters \in SUBSET Tasks
  BY DEF SemWaiters
<1>. QED
  BY <1>1, PoolAssumption, FS_Subset, FS_CardinalityType

\* A wake-up of at most k waiters wakes a finite number of tasks, no more
\* than k, and leaves a live waiter asleep only if it woke exactly k.
LEMMA WokenCount ==
  ASSUME NEW k \in Nat, NEW W, FirstWaiters(k, W)
  PROVE  /\ IsFiniteSet(W)
         /\ Cardinality(W) \in Nat
         /\ Cardinality(W) <= k
         /\ Cardinality(W) = k \/ W = SemWaiters
<1>1. W \in SUBSET SemWaiters
  BY DEF FirstWaiters
<1>2. IsFiniteSet(W) /\ Cardinality(W) \in Nat
  BY <1>1, WaitersFinite, FS_Subset, FS_CardinalityType
<1>3. Cardinality(W) = IF k < Cardinality(SemWaiters)
                       THEN k ELSE Cardinality(SemWaiters)
  BY DEF FirstWaiters
<1>4. ASSUME Cardinality(W) = Cardinality(SemWaiters)
      PROVE  W = SemWaiters
  BY <1>1, <1>4, WaitersFinite, FS_Subset
<1>. QED
  BY <1>2, <1>3, <1>4, WaitersFinite

\* One task leaves a finite set and others, not in it, come in.
LEMMA LeaveAndJoin ==
  ASSUME NEW A, IsFiniteSet(A), NEW t, NEW W, IsFiniteSet(W),
         (A \ {t}) \cap W = {}
  PROVE  Cardinality((A \ {t}) \cup W) =
           (IF t \in A THEN Cardinality(A) - 1 ELSE Cardinality(A))
             + Cardinality(W)
<1>1. /\ IsFiniteSet(A \ {t})
      /\ Cardinality(A \ {t}) =
           IF t \in A THEN Cardinality(A) - 1 ELSE Cardinality(A)
  BY FS_RemoveElement
<1>3. Cardinality((A \ {t}) \cup W) =
        Cardinality(A \ {t}) + Cardinality(W) - Cardinality((A \ {t}) \cap W)
  BY <1>1, FS_Union
<1>4. Cardinality((A \ {t}) \cap W) = 0
  BY FS_EmptySet
<1>5. Cardinality(A \ {t}) \in Nat /\ Cardinality(W) \in Nat
  BY <1>1, FS_CardinalityType
<1>. QED
  BY <1>1, <1>3, <1>4, <1>5

-----------------------------------------------------------------------------
(* Type correctness.                                                       *)

\* What the finally block of acquire does keeps PoolInv, from any stage in
\* which the code enters it.
LEMMA CleanupPoolInv ==
  ASSUME PoolInv, NEW t \in Tasks, pc[t] \in Pending \cup Using, Cleanup(t),
         stopFlag' \subseteq stopFlag
  PROVE  PoolInv'
<1> USE PoolAssumption
<1> DEFINE s == SessionOf[t]
<1>1. s \in Sessions
  BY DEF PoolInv
<1>2. PICK W \in SUBSET SemWaiters :
        /\ FirstWaiters(WakeLimit(t), W)
        /\ semVal' = semVal + Returned(t) - Cardinality(W)
        /\ pc' = [u \in Tasks |-> IF u = t THEN "releaseCast"
                                  ELSE IF u \in W THEN "semGranted" ELSE pc[u]]
  BY DEF Cleanup
<1>3. /\ WakeLimit(t) \in Nat
      /\ WakeLimit(t) <= semVal + Returned(t)
      /\ Returned(t) \in {0, 1}
      /\ semVal \in Nat
  BY DEF WakeLimit, Returned, PoolInv, TypeOK, Pending, Using, Permit, Queued,
         Holding
<1>4. Cardinality(W) \in Nat /\ Cardinality(W) <= WakeLimit(t)
  BY <1>2, <1>3, WokenCount
<1>5. semVal' \in Nat
  BY <1>2, <1>3, <1>4
<1>6. pc' \in [Tasks -> Stages]
  BY <1>2 DEF PoolInv, TypeOK, Stages, Pending, Queued
<1>7. queuedCount' \in Nat
  BY DEF Cleanup, QueuedAfter, DecrementQueued, PoolInv, TypeOK
<1>8. /\ semAhead' \in [Tasks -> SUBSET Tasks]
      /\ lockAhead' \in [Tasks -> SUBSET Tasks]
      /\ lockOn' \in [Sessions -> SUBSET Tasks]
  BY <1>1 DEF Cleanup, PoolInv, TypeOK
<1>9. TypeOK'
  BY <1>5, <1>6, <1>7, <1>8 DEF Cleanup, PoolInv, TypeOK
<1>10. PendingSuspended'
  <2>1. ASSUME NEW u \in Tasks, pc[u] \in Pending, u # t
        PROVE  pc'[u] \in Pending
    BY <2>1, <1>2 DEF Pending, Queued
  <2>. QED
    BY <2>1 DEF Cleanup, PoolInv, PendingSuspended, In, TypeOK
<1>. QED
  BY <1>9, <1>10 DEF PoolInv

LEMMA PoolInvInductive == PoolInv /\ [Next]_vars => PoolInv'
<1> SUFFICES ASSUME PoolInv, [Next]_vars
             PROVE  PoolInv'
  OBVIOUS
<1> USE PoolAssumption DEF PoolInv, PendingSuspended, In, semVars, lockVars,
                           entryVars
<1>1. ASSUME NEW t \in Tasks, Enter(t) PROVE PoolInv'
  <2>1. SessionOf[t] \in Sessions /\ LockBlockers(SessionOf[t]) \subseteq Tasks
    BY DEF TypeOK, LockBlockers
  <2>2. semVal' \in Nat
    BY <1>1 DEF Enter, SemLocked, TypeOK
  <2>3. /\ lockAhead' \in [Tasks -> SUBSET Tasks]
        /\ lockOn' \in [Sessions -> SUBSET Tasks]
    BY <1>1, <2>1 DEF Enter, JoinLock, TypeOK
  <2>4. /\ pc' \in [Tasks -> Stages]
        /\ pc'[t] \in Pending
        /\ \A u \in Tasks : u # t => pc'[u] = pc[u]
    BY <1>1 DEF Enter, TypeOK, Stages, Pending, Queued
  <2>5. queuedCount' \in Nat
    BY <1>1 DEF Enter, TypeOK
  <2>6. TypeOK'
    BY <1>1, <2>2, <2>3, <2>4, <2>5 DEF Enter, TypeOK
  <2>. QED
    BY <1>1, <2>4, <2>6 DEF Enter
<1>2. ASSUME NEW t \in Tasks, TrySemaphore(t) PROVE PoolInv'
  <2>1. SessionOf[t] \in Sessions /\ LockBlockers(SessionOf[t]) \subseteq Tasks
    BY DEF TypeOK, LockBlockers
  <2>2. semVal' \in Nat
    BY <1>2 DEF TrySemaphore, SemLocked, TypeOK
  <2>3. /\ lockAhead' \in [Tasks -> SUBSET Tasks]
        /\ lockOn' \in [Sessions -> SUBSET Tasks]
        /\ semAhead' \in [Tasks -> SUBSET Tasks]
    BY <1>2, <2>1 DEF TrySemaphore, JoinLock, TypeOK
  <2>4. /\ pc' \in [Tasks -> Stages]
        /\ pc'[t] \in Pending
        /\ \A u \in Tasks : u # t => pc'[u] = pc[u]
    BY <1>2 DEF TrySemaphore, TypeOK, Stages, Pending, Queued
  <2>5. queuedCount' \in Nat
    BY <1>2 DEF TrySemaphore, DecrementQueued, TypeOK
  <2>6. TypeOK'
    BY <1>2, <2>2, <2>3, <2>4, <2>5 DEF TrySemaphore, TypeOK
  <2>. QED
    BY <1>2, <2>4, <2>6 DEF TrySemaphore
<1>3. ASSUME NEW t \in Tasks, ResumeSemaphore(t) PROVE PoolInv'
  <2>1. SessionOf[t] \in Sessions /\ LockBlockers(SessionOf[t]) \subseteq Tasks
    BY DEF TypeOK, LockBlockers
  <2>2. PICK W \in SUBSET SemWaiters :
          /\ FirstWaiters(semVal, W)
          /\ semVal' = semVal - Cardinality(W)
          /\ pc' = [u \in Tasks |-> IF u = t THEN "lockWait"
                                    ELSE IF u \in W THEN "semGranted"
                                    ELSE pc[u]]
    BY <1>3 DEF ResumeSemaphore
  <2>3. semVal' \in Nat
    BY <2>2, WokenCount DEF TypeOK
  <2>4. /\ lockAhead' \in [Tasks -> SUBSET Tasks]
        /\ lockOn' \in [Sessions -> SUBSET Tasks]
        /\ semAhead' \in [Tasks -> SUBSET Tasks]
    BY <1>3, <2>1 DEF ResumeSemaphore, JoinLock, TypeOK
  <2>5. /\ pc' \in [Tasks -> Stages]
        /\ \A u \in Tasks : pc[u] \in Pending => pc'[u] \in Pending
    BY <2>2 DEF TypeOK, Stages, Pending, Queued
  <2>6. queuedCount' \in Nat
    BY <1>3 DEF ResumeSemaphore, DecrementQueued, TypeOK
  <2>7. TypeOK'
    BY <1>3, <2>3, <2>4, <2>5, <2>6 DEF ResumeSemaphore, TypeOK
  <2>. QED
    BY <1>3, <2>5, <2>7 DEF ResumeSemaphore, TypeOK
<1>4. ASSUME NEW t \in Tasks, LockAcquired(t) PROVE PoolInv'
  <2>1. boundMode' \in [Sessions -> Modes \cup {NoMode}]
    BY <1>4 DEF LockAcquired, Bind, TypeOK
  <2>2. /\ pc' \in [Tasks -> Stages]
        /\ pc'[t] \in Pending
        /\ \A u \in Tasks : u # t => pc'[u] = pc[u]
    BY <1>4 DEF LockAcquired, TypeOK, Stages, Pending, Queued
  <2>. QED
    BY <1>4, <2>1, <2>2 DEF LockAcquired, TypeOK
<1>5. ASSUME NEW t \in Tasks, MarkRunning(t) PROVE PoolInv'
  <2>1. /\ pc' \in [Tasks -> Stages]
        /\ \A u \in Tasks : u # t => pc'[u] = pc[u]
    BY <1>5 DEF MarkRunning, TypeOK, Stages, Using
  <2>. QED
    BY <1>5, <2>1 DEF MarkRunning, TypeOK
<1>6. ASSUME NEW t \in Tasks, BeginStream(t) PROVE PoolInv'
  <2>1. /\ pc' \in [Tasks -> Stages]
        /\ pc[t] \notin Pending
        /\ \A u \in Tasks : u # t => pc'[u] = pc[u]
    BY <1>6 DEF BeginStream, TypeOK, Stages, Using, Pending, Queued
  <2>2. stopFlag' \subseteq stopFlag
    BY <1>6 DEF BeginStream, RebuildToken
  <2>. QED
    BY <1>6, <2>1, <2>2 DEF BeginStream, TypeOK
<1>7. ASSUME NEW t \in Tasks, Finish(t) PROVE PoolInv'
  <2>1. stopFlag' \subseteq stopFlag
    BY <1>7 DEF Finish, RebuildToken
  <2>. QED
    BY <1>7, <2>1, CleanupPoolInv DEF Finish
<1>8. ASSUME NEW t \in Tasks, CancelDelivered(t) PROVE PoolInv'
  BY <1>8, CleanupPoolInv DEF CancelDelivered
<1>9. ASSUME NEW t \in Tasks, MaterializeFails(t) PROVE PoolInv'
  BY <1>9, CleanupPoolInv DEF MaterializeFails, Pending
<1>10. ASSUME NEW t \in Tasks, ReleaseDone(t) PROVE PoolInv'
  <2>1. /\ pc' \in [Tasks -> Stages]
        /\ pc[t] \notin Pending
        /\ \A u \in Tasks : u # t => pc'[u] = pc[u]
    BY <1>10 DEF ReleaseDone, TypeOK, Stages, Pending, Queued
  <2>. QED
    BY <1>10, <2>1 DEF ReleaseDone, TypeOK
<1>11. ASSUME NEW s \in Sessions, CancelSession(s) PROVE PoolInv'
  BY <1>11 DEF CancelSession, TypeOK
<1>12. ASSUME NEW s \in Sessions, TtlElapses(s) PROVE PoolInv'
  BY <1>12 DEF TtlElapses, TypeOK
<1>13. ASSUME EvictScan PROVE PoolInv'
  <2>1. /\ boundMode' \in [Sessions -> Modes \cup {NoMode}]
        /\ lockOn' \in [Sessions -> SUBSET Tasks]
    BY <1>13 DEF EvictScan, TypeOK
  <2>2. running \cap Evictable = {}
    BY DEF Evictable
  <2>. QED
    BY <1>13, <2>1, <2>2 DEF EvictScan, TypeOK
<1>14. CASE StopBegin
  BY <1>14 DEF StopBegin, TypeOK
<1>15. CASE StopFinish
  BY <1>15 DEF StopFinish, TypeOK
<1>16. CASE UNCHANGED vars
  BY <1>16 DEF vars, TypeOK
<1>. QED
  BY <1>1, <1>2, <1>3, <1>4, <1>5, <1>6, <1>7, <1>8, <1>9, <1>10, <1>11, <1>12,
     <1>13, <1>14, <1>15, <1>16 DEF Next, Resume, Quiescent

LEMMA InitPoolInv == Init => PoolInv
  BY PoolAssumption DEF Init, PoolInv, TypeOK, PendingSuspended, Stages

\* Every reachable state of the pool is well typed, with any number of slots:
\* in particular the semaphore's value never goes below zero.
THEOREM TypeCorrect == Spec => []TypeOK
<1>1. PoolInv => TypeOK
  BY DEF PoolInv
<1>. QED
  BY <1>1, InitPoolInv, PoolInvInductive, PTL DEF Spec

-----------------------------------------------------------------------------
(* The counters.                                                           *)

\* Task t moves to stage x, and the waiters W are handed a slot.
Moves(t, x, W) ==
  pc' = [u \in Tasks |-> IF u = t THEN x
                         ELSE IF u \in W THEN "semGranted" ELSE pc[u]]

\* What such a step does to the number of tasks with a slot and of tasks that
\* were told they are queued.
LEMMA MovesCounts ==
  ASSUME PoolInv, NEW t \in Tasks, NEW x, NEW W \in SUBSET SemWaiters,
         t \notin W, Moves(t, x, W)
  PROVE  /\ Cardinality(In(Permit)') =
              Cardinality(In(Permit)) + Cardinality(W)
                - (IF pc[t] \in Permit THEN 1 ELSE 0)
                + (IF x \in Permit THEN 1 ELSE 0)
         /\ Cardinality(In(Queued)') =
              Cardinality(In(Queued))
                - (IF pc[t] \in Queued THEN 1 ELSE 0)
                + (IF x \in Queued THEN 1 ELSE 0)
<1> DEFINE A == IF x \in Permit THEN W \cup {t} ELSE W
           B == IF x \in Queued THEN {t} ELSE {}
<1>1. IsFiniteSet(W) /\ Cardinality(W) \in Nat
  BY WaitersFinite, FS_Subset, FS_CardinalityType
<1>2. /\ IsFiniteSet(A)
      /\ Cardinality(A) = Cardinality(W) + (IF x \in Permit THEN 1 ELSE 0)
  BY <1>1, FS_AddElement
<1>3. IsFiniteSet(B) /\ Cardinality(B) = IF x \in Queued THEN 1 ELSE 0
  BY FS_EmptySet, FS_Singleton
<1>4. \A u \in W : pc[u] = "semWait" /\ u \in Tasks
  BY DEF SemWaiters
<1>5. "semWait" \notin Permit /\ "semGranted" \in Permit
      /\ "semWait" \in Queued /\ "semGranted" \in Queued
  BY DEF Permit, Queued, Holding
<1>6. \A u \in Tasks : pc'[u] = IF u = t THEN x
                                ELSE IF u \in W THEN "semGranted" ELSE pc[u]
  BY DEF Moves
<1>7. In(Permit)' = (In(Permit) \ {t}) \cup A
  BY <1>4, <1>5, <1>6 DEF In
<1>8. (In(Permit) \ {t}) \cap A = {}
  BY <1>4, <1>5 DEF In
<1>9. In(Queued)' = (In(Queued) \ {t}) \cup B
  BY <1>4, <1>5, <1>6 DEF In
<1>10. (In(Queued) \ {t}) \cap B = {}
  OBVIOUS
<1>11. /\ IsFiniteSet(In(Permit)) /\ Cardinality(In(Permit)) \in Nat
       /\ IsFiniteSet(In(Queued)) /\ Cardinality(In(Queued)) \in Nat
  BY InFinite
<1>12. (t \in In(Permit) <=> pc[t] \in Permit)
       /\ (t \in In(Queued) <=> pc[t] \in Queued)
  BY DEF In
<1>13. Cardinality(In(Permit)') =
         (IF t \in In(Permit) THEN Cardinality(In(Permit)) - 1
                              ELSE Cardinality(In(Permit))) + Cardinality(A)
  <2> HIDE DEF A
  <2>1. IsFiniteSet(In(Permit)) /\ IsFiniteSet(A) /\ (In(Permit) \ {t}) \cap A = {}
    BY <1>2, <1>8, <1>11
  <2>2. Cardinality((In(Permit) \ {t}) \cup A) =
          (IF t \in In(Permit) THEN Cardinality(In(Permit)) - 1
                             ELSE Cardinality(In(Permit))) + Cardinality(A)
    BY <2>1, LeaveAndJoin
  <2>. QED
    BY <2>2, <1>7
<1>14. Cardinality(In(Queued)') =
         (IF t \in In(Queued) THEN Cardinality(In(Queued)) - 1
                              ELSE Cardinality(In(Queued))) + Cardinality(B)
  <2> HIDE DEF B
  <2>1. IsFiniteSet(In(Queued)) /\ IsFiniteSet(B) /\ (In(Queued) \ {t}) \cap B = {}
    BY <1>3, <1>10, <1>11
  <2>2. Cardinality((In(Queued) \ {t}) \cup B) =
          (IF t \in In(Queued) THEN Cardinality(In(Queued)) - 1
                             ELSE Cardinality(In(Queued))) + Cardinality(B)
    BY <2>1, LeaveAndJoin
  <2>. QED
    BY <2>2, <1>9
<1> HIDE DEF A, B
<1>. QED
  BY <1>1, <1>2, <1>3, <1>11, <1>12, <1>13, <1>14

\* A step of one task that wakes nobody.
Goes(t, x) == pc' = [pc EXCEPT ![t] = x]

LEMMA AloneCounts ==
  ASSUME PoolInv, NEW t \in Tasks, NEW x, Goes(t, x)
  PROVE  /\ Cardinality(In(Permit)') =
              Cardinality(In(Permit)) - (IF pc[t] \in Permit THEN 1 ELSE 0)
                                      + (IF x \in Permit THEN 1 ELSE 0)
         /\ Cardinality(In(Queued)') =
              Cardinality(In(Queued)) - (IF pc[t] \in Queued THEN 1 ELSE 0)
                                      + (IF x \in Queued THEN 1 ELSE 0)
<1>1. pc \in [Tasks -> Stages]
  BY DEF PoolInv, TypeOK
<1>2. Moves(t, x, {})
  BY <1>1 DEF Moves, Goes
<1>3. Cardinality({}) = 0
  BY FS_EmptySet
<1>4. Cardinality(In(Permit)) \in Nat /\ Cardinality(In(Queued)) \in Nat
  BY InFinite
<1>5. {} \in SUBSET SemWaiters /\ t \notin {}
  OBVIOUS
<1>6. /\ Cardinality(In(Permit)') =
           Cardinality(In(Permit)) + Cardinality({})
             - (IF pc[t] \in Permit THEN 1 ELSE 0)
             + (IF x \in Permit THEN 1 ELSE 0)
      /\ Cardinality(In(Queued)') =
           Cardinality(In(Queued))
             - (IF pc[t] \in Queued THEN 1 ELSE 0)
             + (IF x \in Queued THEN 1 ELSE 0)
  BY <1>2, <1>5, MovesCounts
<1>. QED
  BY <1>3, <1>4, <1>6

LEMMA CleanupMoves ==
  ASSUME PoolInv, NEW t \in Tasks, t \notin SemWaiters, Cleanup(t)
  PROVE  \E W \in SUBSET SemWaiters :
           /\ t \notin W
           /\ Moves(t, "releaseCast", W)
           /\ Cardinality(W) \in Nat
           /\ semVal' = semVal + Returned(t) - Cardinality(W)
           /\ WakeLimit(t) \in Nat
           /\ Cardinality(W) = WakeLimit(t) \/ W = SemWaiters
<1>1. PICK W \in SUBSET SemWaiters :
        /\ FirstWaiters(WakeLimit(t), W)
        /\ semVal' = semVal + Returned(t) - Cardinality(W)
        /\ pc' = [u \in Tasks |-> IF u = t THEN "releaseCast"
                                  ELSE IF u \in W THEN "semGranted" ELSE pc[u]]
  BY DEF Cleanup
<1>2. WakeLimit(t) \in Nat
  BY DEF WakeLimit, Returned, PoolInv, TypeOK
<1>3. /\ Cardinality(W) \in Nat
      /\ Cardinality(W) = WakeLimit(t) \/ W = SemWaiters
  BY <1>1, <1>2, WokenCount
<1>. QED
  BY <1>1, <1>2, <1>3 DEF Moves

CountersInv == SlotsConserved /\ QueuedCountExact

\* The finally block gives back what the task had taken, and no more.
LEMMA CleanupCounters ==
  ASSUME PoolInv, CountersInv, NEW t \in Tasks, t \notin SemWaiters,
         pc[t] \in Stages, Cleanup(t)
  PROVE  CountersInv'
<1>1. PICK W \in SUBSET SemWaiters :
        /\ t \notin W
        /\ Moves(t, "releaseCast", W)
        /\ Cardinality(W) \in Nat
        /\ semVal' = semVal + Returned(t) - Cardinality(W)
  BY CleanupMoves
<1>2. /\ Cardinality(In(Permit)') = Cardinality(In(Permit)) + Cardinality(W)
                                      - (IF pc[t] \in Permit THEN 1 ELSE 0)
      /\ Cardinality(In(Queued)') = Cardinality(In(Queued))
                                      - (IF pc[t] \in Queued THEN 1 ELSE 0)
  <2>1. "releaseCast" \notin Permit /\ "releaseCast" \notin Queued
    BY DEF Permit, Queued, Holding
  <2>. QED
    BY <1>1, <2>1, MovesCounts, InFinite
<1>3. /\ Cardinality(In(Permit)) \in Nat /\ Cardinality(In(Queued)) \in Nat
      /\ semVal \in Nat /\ MaxConcurrent \in Nat /\ queuedCount \in Nat
  BY InFinite, PoolAssumption DEF PoolInv, TypeOK
<1>4. Cardinality(In(Queued)') \in Nat
  BY InFiniteNext
<1>5. SlotsConserved'
  BY <1>1, <1>2, <1>3 DEF CountersInv, SlotsConserved, Returned
<1>6. QueuedCountExact'
  BY <1>2, <1>3, <1>4
     DEF CountersInv, QueuedCountExact, Cleanup, QueuedAfter, DecrementQueued
<1>. QED
  BY <1>5, <1>6 DEF CountersInv

\* A step that neither moves a task to or from a stage with a slot nor one to
\* or from the queue, and leaves the counters alone.
LEMMA CountersKept ==
  ASSUME PoolInv, CountersInv, NEW t \in Tasks, NEW x,
         Goes(t, x),
         pc[t] \in Permit <=> x \in Permit,
         pc[t] \notin Queued, x \notin Queued,
         UNCHANGED <<phase, semVal, queuedCount>>
  PROVE  CountersInv'
<1>1. /\ Cardinality(In(Permit)') = Cardinality(In(Permit))
      /\ Cardinality(In(Queued)') = Cardinality(In(Queued))
  BY AloneCounts, InFinite
<1>. QED
  BY <1>1 DEF CountersInv, SlotsConserved, QueuedCountExact

LEMMA CountersInductive ==
  PoolInv /\ CountersInv /\ [Next]_vars => CountersInv'
<1> SUFFICES ASSUME PoolInv, CountersInv, [Next]_vars
             PROVE  CountersInv'
  OBVIOUS
<1>p. /\ semVal \in Nat /\ queuedCount \in Nat /\ MaxConcurrent \in Nat
      /\ Cardinality(In(Permit)) \in Nat /\ Cardinality(In(Queued)) \in Nat
      /\ Cardinality(In(Queued)') \in Nat
      /\ pc \in [Tasks -> Stages]
  BY InFinite, InFiniteNext, PoolAssumption DEF PoolInv, TypeOK
<1>q. /\ "queuedCast" \in Queued /\ "queuedCast" \notin Permit
      /\ "semWait" \in Queued /\ "semWait" \notin Permit
      /\ "lockWait" \in Permit /\ "lockWait" \notin Queued
  BY DEF Permit, Queued, Holding
<1>s. /\ semVal + Cardinality(In(Permit)) = MaxConcurrent
      /\ phase # "stopped" => queuedCount = Cardinality(In(Queued))
  BY DEF CountersInv, SlotsConserved, QueuedCountExact
<1>1. ASSUME NEW t \in Tasks, Enter(t) PROVE CountersInv'
  <2>1. pc[t] \notin Permit /\ pc[t] \notin Queued
    BY <1>1 DEF Enter, Permit, Queued, Holding
  <2>2. CASE Goes(t, "lockWait") /\ semVal' = semVal - 1
             /\ queuedCount' = queuedCount
    <3>1. /\ Cardinality(In(Permit)') = Cardinality(In(Permit)) + 1
          /\ Cardinality(In(Queued)') = Cardinality(In(Queued))
      BY <2>1, <2>2, <1>p, <1>q, AloneCounts
    <3>. QED
      BY <1>1, <1>p, <1>s, <2>2, <3>1
         DEF Enter, CountersInv, SlotsConserved, QueuedCountExact
  <2>3. CASE Goes(t, "queuedCast") /\ semVal' = semVal
             /\ queuedCount' = queuedCount + 1
    <3>1. /\ Cardinality(In(Permit)') = Cardinality(In(Permit))
          /\ Cardinality(In(Queued)') = Cardinality(In(Queued)) + 1
      BY <2>1, <2>3, <1>p, <1>q, AloneCounts
    <3>. QED
      BY <1>1, <1>p, <1>s, <2>3, <3>1
         DEF Enter, CountersInv, SlotsConserved, QueuedCountExact
  <2>. QED
    BY <1>1, <2>2, <2>3 DEF Enter, Goes
<1>2. ASSUME NEW t \in Tasks, TrySemaphore(t) PROVE CountersInv'
  <2>1. pc[t] \notin Permit /\ pc[t] \in Queued
    BY <1>2 DEF TrySemaphore, Permit, Queued, Holding
  <2>2. CASE Goes(t, "lockWait") /\ semVal' = semVal - 1
             /\ queuedCount' = DecrementQueued
    <3>1. /\ Cardinality(In(Permit)') = Cardinality(In(Permit)) + 1
          /\ Cardinality(In(Queued)') = Cardinality(In(Queued)) - 1
      BY <2>1, <2>2, <1>p, <1>q, AloneCounts
    <3>. QED
      BY <1>2, <1>p, <1>s, <2>2, <3>1
         DEF TrySemaphore, CountersInv, SlotsConserved, QueuedCountExact,
             DecrementQueued
  <2>3. CASE Goes(t, "semWait")
             /\ UNCHANGED <<semVal, queuedCount>>
    <3>1. /\ Cardinality(In(Permit)') = Cardinality(In(Permit))
          /\ Cardinality(In(Queued)') = Cardinality(In(Queued))
      BY <2>1, <2>3, <1>p, <1>q, AloneCounts
    <3>. QED
      BY <1>2, <1>p, <1>s, <2>3, <3>1
         DEF TrySemaphore, CountersInv, SlotsConserved, QueuedCountExact
  <2>. QED
    BY <1>2, <2>2, <2>3 DEF TrySemaphore, Goes
<1>3. ASSUME NEW t \in Tasks, ResumeSemaphore(t) PROVE CountersInv'
  <2>1. PICK W \in SUBSET SemWaiters :
          /\ FirstWaiters(semVal, W)
          /\ semVal' = semVal - Cardinality(W)
          /\ pc' = [u \in Tasks |-> IF u = t THEN "lockWait"
                                    ELSE IF u \in W THEN "semGranted"
                                    ELSE pc[u]]
    BY <1>3 DEF ResumeSemaphore
  <2>2. /\ t \notin W
        /\ Moves(t, "lockWait", W)
        /\ Cardinality(W) \in Nat
    BY <1>3, <1>p, <2>1, WokenCount DEF ResumeSemaphore, SemWaiters, Moves
  <2>3. /\ Cardinality(In(Permit)') = Cardinality(In(Permit)) + Cardinality(W)
        /\ Cardinality(In(Queued)') = Cardinality(In(Queued)) - 1
    BY <1>3, <1>p, <2>2, MovesCounts
       DEF ResumeSemaphore, Permit, Queued, Holding
  <2>. QED
    BY <1>3, <1>p, <1>s, <2>1, <2>2, <2>3
       DEF ResumeSemaphore, CountersInv, SlotsConserved, QueuedCountExact,
           DecrementQueued
<1>4. ASSUME NEW t \in Tasks, LockAcquired(t) PROVE CountersInv'
  <2>1. /\ Goes(t, "startCast") /\ pc[t] = "lockWait"
        /\ UNCHANGED <<phase, semVal, queuedCount>>
    BY <1>4 DEF LockAcquired, Goes, semVars
  <2>2. /\ pc[t] \in Permit <=> "startCast" \in Permit
        /\ pc[t] \notin Queued /\ "startCast" \notin Queued
    BY <2>1 DEF Permit, Queued, Holding
  <2>. QED
    BY <2>1, <2>2, CountersKept
<1>5. ASSUME NEW t \in Tasks, MarkRunning(t) PROVE CountersInv'
  <2>1. /\ Goes(t, "prep") /\ pc[t] = "startCast"
        /\ UNCHANGED <<phase, semVal, queuedCount>>
    BY <1>5 DEF MarkRunning, Goes, semVars
  <2>2. /\ pc[t] \in Permit <=> "prep" \in Permit
        /\ pc[t] \notin Queued /\ "prep" \notin Queued
    BY <2>1 DEF Permit, Queued, Holding
  <2>. QED
    BY <2>1, <2>2, CountersKept
<1>6. ASSUME NEW t \in Tasks, BeginStream(t) PROVE CountersInv'
  <2>1. /\ Goes(t, "run") /\ pc[t] = "prep"
        /\ UNCHANGED <<phase, semVal, queuedCount>>
    BY <1>6 DEF BeginStream, Goes, semVars
  <2>2. /\ pc[t] \in Permit <=> "run" \in Permit
        /\ pc[t] \notin Queued /\ "run" \notin Queued
    BY <2>1 DEF Permit, Queued, Holding
  <2>. QED
    BY <2>1, <2>2, CountersKept
<1>7. ASSUME NEW t \in Tasks, Finish(t) PROVE CountersInv'
  BY <1>7, <1>p, CleanupCounters DEF Finish, SemWaiters, Using
<1>8. ASSUME NEW t \in Tasks, CancelDelivered(t) PROVE CountersInv'
  BY <1>8, <1>p, CleanupCounters DEF CancelDelivered, SemWaiters
<1>9. ASSUME NEW t \in Tasks, MaterializeFails(t) PROVE CountersInv'
  BY <1>9, <1>p, CleanupCounters DEF MaterializeFails, SemWaiters
<1>10. ASSUME NEW t \in Tasks, ReleaseDone(t) PROVE CountersInv'
  <2>1. /\ Goes(t, "idle") /\ pc[t] = "releaseCast"
        /\ UNCHANGED <<phase, semVal, queuedCount>>
    BY <1>10 DEF ReleaseDone, Goes, semVars
  <2>2. /\ pc[t] \in Permit <=> "idle" \in Permit
        /\ pc[t] \notin Queued /\ "idle" \notin Queued
    BY <2>1 DEF Permit, Queued, Holding
  <2>. QED
    BY <2>1, <2>2, CountersKept
<1>11. ASSUME UNCHANGED <<pc, semVal>>,
              phase' # "stopped" => phase # "stopped" /\ UNCHANGED queuedCount
       PROVE  CountersInv'
  BY <1>11, <1>s DEF CountersInv, SlotsConserved, QueuedCountExact, In
<1>12. ASSUME NEW s \in Sessions, CancelSession(s) \/ TtlElapses(s)
       PROVE  CountersInv'
  BY <1>12, <1>11 DEF CancelSession, TtlElapses, semVars
<1>13. CASE EvictScan \/ StopBegin \/ StopFinish \/ UNCHANGED vars
  BY <1>13, <1>11 DEF EvictScan, StopBegin, StopFinish, vars, semVars
<1>. QED
  BY <1>1, <1>2, <1>3, <1>4, <1>5, <1>6, <1>7, <1>8, <1>9, <1>10, <1>12, <1>13
     DEF Next, Resume, Quiescent

LEMMA CountersAlways == Spec => [](PoolInv /\ CountersInv)
<1>1. Init => PoolInv /\ CountersInv
  <2> SUFFICES ASSUME Init PROVE PoolInv /\ CountersInv
    OBVIOUS
  <2>1. In(Permit) = {} /\ In(Queued) = {}
    BY DEF Init, In, Permit, Queued, Holding
  <2>2. CountersInv
    BY <2>1, FS_EmptySet, PoolAssumption
       DEF Init, CountersInv, SlotsConserved, QueuedCountExact
  <2>. QED
    BY <2>2, InitPoolInv
<1>2. PoolInv /\ CountersInv /\ [Next]_vars => PoolInv' /\ CountersInv'
  BY PoolInvInductive, CountersInductive
<1>. QED
  BY <1>1, <1>2, PTL DEF Spec

\* With any number of tasks, slots and cancellations, no slot is lost or made
\* up by the finally block of acquire or by the semaphore.
THEOREM SlotsAreConserved == Spec => []SlotsConserved
<1>1. CountersInv => SlotsConserved
  BY DEF CountersInv
<1>. QED
  BY <1>1, CountersAlways, PTL

\* The queue length the pool reports is right until stop() clears it.
THEOREM QueuedCountIsExact == Spec => []QueuedCountExact
<1>1. CountersInv => QueuedCountExact
  BY DEF CountersInv
<1>. QED
  BY <1>1, CountersAlways, PTL

-----------------------------------------------------------------------------
(* No lost wake-up.                                                        *)

\* A step leaves no waiter behind a free slot when all it does to the slots
\* is to wake the waiters W, as many as the free slots or all of them.
LEMMA WakesAll ==
  ASSUME PoolInv, NEW t \in Tasks, NEW x, x # "semWait",
         NEW W \in SUBSET SemWaiters, t \notin W,
         Moves(t, x, W), cancelling \ {t} \subseteq cancelling'
  PROVE  W = SemWaiters => SemWaiters' = {}
<1>1. \A u \in Tasks : pc'[u] = IF u = t THEN x
                                ELSE IF u \in W THEN "semGranted" ELSE pc[u]
  BY DEF Moves
<1>. QED
  BY <1>1 DEF SemWaiters

LEMMA CleanupWakes ==
  ASSUME PoolInv, NoLostWakeup, NEW t \in Tasks, t \notin SemWaiters,
         pc[t] \in Pending \cup Using, Cleanup(t)
  PROVE  NoLostWakeup'
<1>1. PICK W \in SUBSET SemWaiters :
        /\ t \notin W
        /\ Moves(t, "releaseCast", W)
        /\ Cardinality(W) \in Nat
        /\ semVal' = semVal + Returned(t) - Cardinality(W)
        /\ Cardinality(W) = WakeLimit(t) \/ W = SemWaiters
  BY CleanupMoves
<1>2. cancelling' = cancelling \ {t}
  BY DEF Cleanup
<1>3. semVal \in Nat
  BY DEF PoolInv, TypeOK
<1>4. \A u \in Tasks : pc'[u] = IF u = t THEN "releaseCast"
                                ELSE IF u \in W THEN "semGranted" ELSE pc[u]
  BY <1>1 DEF Moves
<1>5. CASE W = SemWaiters
  BY <1>1, <1>2, <1>5, WakesAll DEF NoLostWakeup
<1>6. CASE Cardinality(W) = WakeLimit(t) /\ pc[t] = "queuedCast"
  <2>1. Cardinality(W) = 0 /\ Returned(t) = 0
    BY <1>6 DEF WakeLimit, Returned, Permit, Holding
  <2>2. W = {}
    BY <2>1, WaitersFinite, FS_Subset, FS_EmptySet
  <2>3. semVal' = semVal /\ SemWaiters' = SemWaiters
        /\ In({"semGranted"})' = In({"semGranted"})
    BY <1>1, <1>2, <1>3, <1>4, <1>6, <2>1, <2>2 DEF SemWaiters, In
  <2>. QED
    BY <2>3 DEF NoLostWakeup
<1>7. CASE /\ Cardinality(W) = WakeLimit(t)
           /\ pc[t] \in {"semWait", "semGranted"}
  <2>1. semVal' = 0
    BY <1>1, <1>3, <1>7 DEF WakeLimit, Returned
  <2>. QED
    BY <2>1 DEF NoLostWakeup
<1>8. CASE /\ Cardinality(W) = WakeLimit(t)
           /\ pc[t] \notin {"queuedCast", "semWait", "semGranted"}
  <2>1. Cardinality(W) = 1
    BY <1>8 DEF WakeLimit
  <2>2. PICK u \in W : TRUE
    BY <2>1, FS_EmptySet
  <2>3. u \in In({"semGranted"})'
    BY <1>1, <1>4, <2>2 DEF In, SemWaiters
  <2>. QED
    BY <2>3 DEF NoLostWakeup
<1>. QED
  BY <1>1, <1>5, <1>6, <1>7, <1>8

\* A task moves from a stage that is not in the semaphore's queue to another
\* such stage, and frees no slot.
LEMMA WakeupKept ==
  ASSUME PoolInv, NoLostWakeup, NEW t \in Tasks, NEW x, Goes(t, x),
         pc[t] \notin {"semWait", "semGranted"},
         x \notin {"semWait", "semGranted"},
         semVal' > 0 => semVal > 0,
         cancelling' = cancelling
  PROVE  NoLostWakeup'
<1>1. \A u \in Tasks : pc'[u] = IF u = t THEN x ELSE pc[u]
  BY DEF Goes, PoolInv, TypeOK
<1>2. SemWaiters' = SemWaiters /\ In({"semGranted"})' = In({"semGranted"})
  BY <1>1 DEF SemWaiters, In
<1>. QED
  BY <1>2 DEF NoLostWakeup

LEMMA WakeupInductive ==
  PoolInv /\ NoLostWakeup /\ [Next]_vars => NoLostWakeup'
<1> SUFFICES ASSUME PoolInv, NoLostWakeup, [Next]_vars
             PROVE  NoLostWakeup'
  OBVIOUS
<1>p. semVal \in Nat /\ pc \in [Tasks -> Stages]
  BY DEF PoolInv, TypeOK
<1>1. ASSUME NEW t \in Tasks, Enter(t) PROVE NoLostWakeup'
  <2>1. PICK x \in {"lockWait", "queuedCast"} :
          Goes(t, x) /\ semVal' \in {semVal, semVal - 1}
    BY <1>1 DEF Enter, Goes
  <2>2. pc[t] \notin {"semWait", "semGranted"} /\ cancelling' = cancelling
    BY <1>1 DEF Enter
  <2>. QED
    BY <1>p, <2>1, <2>2, WakeupKept
<1>2. ASSUME NEW t \in Tasks, TrySemaphore(t) PROVE NoLostWakeup'
  <2>1. pc[t] = "queuedCast" /\ cancelling' = cancelling
    BY <1>2 DEF TrySemaphore
  <2>2. CASE ~SemLocked
    <3>1. Goes(t, "lockWait") /\ semVal' = semVal - 1
      BY <1>2, <2>2 DEF TrySemaphore, Goes
    <3>. QED
      BY <1>p, <2>1, <3>1, WakeupKept
  <2>3. CASE SemLocked
    <3>1. semVal' = semVal /\ pc' = [pc EXCEPT ![t] = "semWait"]
      BY <1>2, <2>3 DEF TrySemaphore
    <3>2. In({"semGranted"})' = In({"semGranted"})
      BY <1>p, <2>1, <3>1 DEF In
    <3>3. semVal > 0 => In({"semGranted"}) # {}
      BY <1>p, <2>3 DEF SemLocked, NoLostWakeup
    <3>. QED
      BY <3>1, <3>2, <3>3 DEF NoLostWakeup
  <2>. QED
    BY <2>2, <2>3
<1>3. ASSUME NEW t \in Tasks, ResumeSemaphore(t) PROVE NoLostWakeup'
  <2>1. PICK W \in SUBSET SemWaiters :
          /\ FirstWaiters(semVal, W)
          /\ semVal' = semVal - Cardinality(W)
          /\ pc' = [u \in Tasks |-> IF u = t THEN "lockWait"
                                    ELSE IF u \in W THEN "semGranted"
                                    ELSE pc[u]]
    BY <1>3 DEF ResumeSemaphore
  <2>2. t \notin W /\ Moves(t, "lockWait", W) /\ cancelling' = cancelling
    BY <1>3, <2>1 DEF ResumeSemaphore, SemWaiters, Moves
  <2>3. Cardinality(W) = semVal \/ W = SemWaiters
    BY <1>p, <2>1, WokenCount
  <2>4. CASE W = SemWaiters
    BY <2>2, <2>4, WakesAll DEF NoLostWakeup
  <2>5. CASE Cardinality(W) = semVal
    BY <1>p, <2>1, <2>5 DEF NoLostWakeup
  <2>. QED
    BY <2>3, <2>4, <2>5
<1>4. ASSUME NEW t \in Tasks,
             LockAcquired(t) \/ MarkRunning(t) \/ BeginStream(t) \/ ReleaseDone(t)
      PROVE  NoLostWakeup'
  <2>1. PICK x \in {"startCast", "prep", "run", "idle"} : Goes(t, x)
    BY <1>4 DEF LockAcquired, MarkRunning, BeginStream, ReleaseDone, Goes
  <2>2. /\ pc[t] \notin {"semWait", "semGranted"}
        /\ UNCHANGED <<semVal, cancelling>>
    BY <1>4 DEF LockAcquired, MarkRunning, BeginStream, ReleaseDone, semVars
  <2>. QED
    BY <2>1, <2>2, WakeupKept
<1>5. ASSUME NEW t \in Tasks, Finish(t) PROVE NoLostWakeup'
  BY <1>5, CleanupWakes DEF Finish, SemWaiters, Using
<1>6. ASSUME NEW t \in Tasks, CancelDelivered(t) PROVE NoLostWakeup'
  BY <1>6, CleanupWakes
     DEF CancelDelivered, SemWaiters, PoolInv, PendingSuspended, In
<1>7. ASSUME NEW t \in Tasks, MaterializeFails(t) PROVE NoLostWakeup'
  BY <1>7, CleanupWakes DEF MaterializeFails, SemWaiters, Pending
<1>8. ASSUME UNCHANGED <<pc, semVal>>, cancelling \subseteq cancelling'
      PROVE  NoLostWakeup'
  BY <1>8 DEF NoLostWakeup, SemWaiters, In
<1>9. ASSUME NEW s \in Sessions, CancelSession(s) \/ TtlElapses(s)
      PROVE  NoLostWakeup'
  BY <1>9, <1>8 DEF CancelSession, TtlElapses, semVars
<1>10. CASE EvictScan \/ StopBegin \/ StopFinish \/ UNCHANGED vars
  BY <1>10, <1>8 DEF EvictScan, StopBegin, StopFinish, vars, semVars
<1>. QED
  BY <1>1, <1>2, <1>3, <1>4, <1>5, <1>6, <1>7, <1>9, <1>10
     DEF Next, Resume, Quiescent

\* With any number of tasks and slots, no task waits for ever behind a free
\* slot: a waiter that was woken and then cancelled passes the slot on.
THEOREM WakeupsAreNotLost == Spec => []NoLostWakeup
<1>1. Init => NoLostWakeup
  BY DEF Init, NoLostWakeup, SemWaiters
<1>. QED
  BY <1>1, InitPoolInv, PoolInvInductive, WakeupInductive, PTL DEF Spec
=============================================================================
