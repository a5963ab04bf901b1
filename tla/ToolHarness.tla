---------------------------- MODULE ToolHarness ----------------------------
(***************************************************************************)
(* The guards around one tool that is not idempotent, of one agent:        *)
(* HarnessExecutor (src/pandaren/behavior/harness/executor.py) with the    *)
(* rate limiter, the circuit breaker and the idempotency guard it asks.    *)
(* The calls of a step run concurrently under a semaphore; when one of     *)
(* them raises, gather gives the step up and leaves the others running,    *)
(* into steps that have reset the guards since.                            *)
(*                                                                         *)
(* Calls are numbered in the order of their dispatch.  An action is the    *)
(* code between two points at which a call may wait.                       *)
(***************************************************************************)
EXTENDS Naturals, FiniteSets

CONSTANTS
  MaxCalls,    \* bound on the calls of a behaviour
  MaxTurns,    \* bound on the steps of a behaviour
  Keys,        \* arguments a call may have
  Permits,     \* permits of the semaphore
  PerTurn,     \* max_calls_per_turn
  Threshold,   \* failure_threshold
  MaxLevel,    \* doublings of the cooldown until it has its maximum
  AuditFails   \* may a write of the audit log fail?

ASSUME ToolHarnessAssumption ==
  /\ {MaxCalls, MaxTurns, PerTurn, MaxLevel} \subseteq Nat
  /\ {Permits, Threshold} \subseteq Nat \ {0}
  /\ Keys # {}
  /\ AuditFails \in BOOLEAN

Calls == 1..MaxCalls

VARIABLES
  phase,     \* "idle", "ready" when a step has reset the guards, or "acting"
  turns,     \* steps so far
  sent,      \* calls dispatched so far
  batch,     \* calls the engine awaits
  where,     \* how far each call has come
  arg,       \* the argument of each call
  awaits,    \* the call whose result a call waits for, 0 for none
  enabled,   \* _enabled_cache: is the tool enabled in this step?
  attempts,  \* R1: attempts of this step
  breaker,   \* R3: state, failures, level of the cooldown
  idem,      \* R4: cache, failed keys, executors by key, and their futures
  starts     \* how often the tool ran for a key since the guards were reset

control == <<phase, turns, sent, batch>>
work == <<where, arg, awaits>>
vars == <<control, work, enabled, attempts, breaker, idem, starts>>

Breakers ==
  [state : {"closed", "open", "half"}, failures : Nat, level : 0..MaxLevel]

Guards ==
  [cached : SUBSET Keys, failed : SUBSET Keys, executor : [Keys -> Calls \cup {0}],
   future : [Calls -> {"none", "pending", "result", "error"}]]

TypeOK ==
  /\ phase \in {"idle", "ready", "acting"}
  /\ {turns, sent, attempts} \subseteq Nat
  /\ batch \subseteq Calls
  /\ where \in [Calls -> {"new", "queued", "waiting", "running", "after", "over"}]
  /\ arg \in [Calls -> Keys]
  /\ awaits \in [Calls -> Calls \cup {0}]
  /\ enabled \in BOOLEAN
  /\ breaker \in Breakers
  /\ idem \in Guards
  /\ starts \in [Keys -> Nat]

At(stage) == {c \in Calls : where[c] = stage}

Executing == At("running") \cup At("after")

NoExecutor == [k \in Keys |-> 0]

Init ==
  /\ phase = "idle" /\ turns = 0 /\ sent = 0 /\ batch = {}
  /\ where = [c \in Calls |-> "new"]
  /\ arg = [c \in Calls |-> CHOOSE k \in Keys : TRUE]
  /\ awaits = [c \in Calls |-> 0]
  /\ enabled = TRUE
  /\ attempts = 0
  /\ breaker = [state |-> "closed", failures |-> 0, level |-> 0]
  /\ idem = [cached |-> {}, failed |-> {}, executor |-> NoExecutor,
             future |-> [c \in Calls |-> "none"]]
  /\ starts = [k \in Keys |-> 0]

----------------------------------------------------------------------------
(* The circuit breaker.  Time is a choice: a cooldown may be over.         *)

Permanent == breaker.state = "open" /\ breaker.level = MaxLevel

\* Mutant: a breaker is tried after every cooldown.
AllowedForEver == {[breaker EXCEPT !.state = IF @ = "open" THEN "half" ELSE @]}

\* The states in which should_allow lets a call through.
Allowed ==
  (IF breaker.state = "open" THEN {} ELSE {breaker})
    \cup (IF breaker.state = "open" /\ breaker.level < MaxLevel
          THEN {[breaker EXCEPT !.state = "half"]} ELSE {})

\* Mutant: a late success closes the breaker, whatever opened it.
OnSuccessCloses == [state |-> "closed", failures |-> 0, level |-> 0]

OnSuccess ==
  CASE breaker.state = "half"   -> [state |-> "closed", failures |-> 0, level |-> 0]
    [] breaker.state = "closed" -> [breaker EXCEPT !.failures = 0]
    [] breaker.state = "open"   -> breaker

OnFailure(b) ==
  [state    |-> IF b.state = "half" \/ b.failures + 1 >= Threshold
                THEN "open" ELSE b.state,
   failures |-> b.failures + 1,
   level    |-> IF b.state = "half" THEN b.level + 1 ELSE b.level]

----------------------------------------------------------------------------
(* The idempotency guard: the futures of the executors, and how they are   *)
(* settled.                                                                *)

Registered(c) ==
  [idem EXCEPT !.executor[arg[c]] = c, !.future[c] = "pending"]

\* The future of a key is taken out and, unless it is settled, settled.
Settle(g, k, value) ==
  LET c == g.executor[k]
  IN [g EXCEPT !.executor[k] = 0,
               !.future = [d \in Calls |-> IF d = c /\ @[d] = "pending"
                                           THEN value ELSE @[d]]]

Store(k) == [Settle(idem, k, "result") EXCEPT !.cached = @ \cup {k}]

\* Mutant: a failed result settles the future, but leaves no trace.
CompleteWithoutTrace(g, k, value) == Settle(g, k, value)

\* Mutant: only a result that is stored wakes those who wait for it.
CompleteSilently(g, k, value) == g

Complete(g, k, value) ==
  LET c == g.executor[k]
  IN IF c # 0 /\ g.future[c] = "pending"
     THEN [Settle(g, k, value) EXCEPT !.failed = @ \cup {k}]
     ELSE Settle(g, k, value)

----------------------------------------------------------------------------
(* A step: the guards are reset and the tool is enabled or not; later its  *)
(* calls are dispatched, at once or after a pause.                         *)

NewTurn ==
  /\ phase # "acting"
  /\ turns < MaxTurns
  /\ phase' = "ready"
  /\ turns' = turns + 1
  /\ enabled' = (breaker.state # "open")
  /\ attempts' = 0
  /\ idem' = [idem EXCEPT !.cached = {}, !.failed = {}, !.executor = NoExecutor]
  /\ starts' = [k \in Keys |-> 0]
  /\ UNCHANGED <<sent, batch, work, breaker>>

Dispatch ==
  /\ phase = "ready"
  /\ phase' = "acting"
  /\ \E last \in Calls :
       /\ last > sent
       /\ sent' = last
       /\ batch' = (sent + 1)..last
       /\ where' = [c \in Calls |-> IF c \in batch' THEN "queued" ELSE where[c]]
       /\ \E a \in [batch' -> Keys] :
            arg' = [c \in Calls |-> IF c \in batch' THEN a[c] ELSE arg[c]]
  /\ UNCHANGED <<turns, awaits, enabled, attempts, breaker, idem, starts>>

----------------------------------------------------------------------------
(* A call is over when it returns, or raises; the engine waits until all   *)
(* calls of its batch have returned or the first of them raises.           *)

Gone(C) == [c \in Calls |-> IF c \in C THEN "over" ELSE where[c]]

Leave(c) ==
  /\ where' = Gone({c})
  /\ UNCHANGED control

Raise(c) ==
  /\ where' = Gone({c})
  /\ IF c \in batch THEN phase' = "idle" /\ batch' = {} ELSE UNCHANGED <<phase, batch>>
  /\ UNCHANGED <<turns, sent>>

\* A refusal and a deduplicated result are audited too.
Report(c) == Leave(c) \/ (AuditFails /\ Raise(c))

\* The semaphore is fair.
NextInLine(c) ==
  /\ where[c] = "queued"
  /\ \A d \in At("queued") : c <= d
  /\ Cardinality(At("waiting") \cup Executing) < Permits

Counted == attempts' = attempts + 1

\* R1 or R3 refuses the call.
Refuse(c) ==
  /\ NextInLine(c) /\ Counted
  /\ (attempts >= PerTurn \/ breaker.state = "open")
  /\ Report(c)
  /\ UNCHANGED <<arg, awaits, enabled, breaker, idem, starts>>

\* R1 and R3 let the call through, maybe as a trial of the open breaker.
Pass(c) ==
  /\ NextInLine(c) /\ Counted
  /\ attempts < PerTurn
  /\ breaker' \in Allowed

\* R4: the same call has been executed in this step, or has failed.
Deduplicate(c) ==
  /\ Pass(c)
  /\ \/ arg[c] \in idem.failed /\ Raise(c)
     \/ arg[c] \notin idem.failed /\ arg[c] \in idem.cached /\ Report(c)
  /\ UNCHANGED <<arg, awaits, enabled, idem, starts>>

Fresh(c) == arg[c] \notin idem.failed \cup idem.cached

\* R4: the same call is being executed.
Wait(c) ==
  /\ Pass(c) /\ Fresh(c)
  /\ idem.executor[arg[c]] # 0
  /\ awaits' = [awaits EXCEPT ![c] = idem.executor[arg[c]]]
  /\ where' = [where EXCEPT ![c] = "waiting"]
  /\ UNCHANGED <<control, arg, enabled, idem, starts>>

Start(c) ==
  /\ Pass(c) /\ Fresh(c)
  /\ idem.executor[arg[c]] = 0
  /\ enabled
  /\ where' = [where EXCEPT ![c] = "running"]
  /\ idem' = Registered(c)
  /\ starts' = [starts EXCEPT ![arg[c]] = @ + 1]
  /\ UNCHANGED <<control, arg, awaits, enabled>>

\* The registry refuses a tool that is not enabled; that is a failure.
StartDisabled(c) ==
  /\ NextInLine(c) /\ Counted
  /\ attempts < PerTurn
  /\ \E b \in Allowed : breaker' = OnFailure(b)
  /\ Fresh(c)
  /\ idem.executor[arg[c]] = 0
  /\ ~enabled
  /\ \/ /\ where' = [where EXCEPT ![c] = "after"]
        /\ idem' = Registered(c)
        /\ UNCHANGED control
     \/ /\ AuditFails
        /\ Raise(c)
        /\ idem' = Complete(Registered(c), arg[c], "result")
  /\ UNCHANGED <<arg, awaits, enabled, starts>>

Woken(c) ==
  /\ where[c] = "waiting"
  /\ \/ idem.future[awaits[c]] = "result" /\ Report(c)
     \/ idem.future[awaits[c]] = "error" /\ Raise(c)
  /\ awaits' = [awaits EXCEPT ![c] = 0]
  /\ UNCHANGED <<arg, enabled, attempts, breaker, idem, starts>>

\* R3 and R4 note the outcome; the audit record may not be written.
ToolEnds(c) ==
  /\ where[c] = "running"
  /\ \E success \in BOOLEAN :
       LET noted == IF success THEN Store(arg[c]) ELSE idem
       IN /\ breaker' = IF success THEN OnSuccess ELSE OnFailure(breaker)
          /\ \/ /\ where' = [where EXCEPT ![c] = "after"]
                /\ idem' = noted
                /\ UNCHANGED control
             \/ /\ AuditFails
                /\ Raise(c)
                /\ idem' = Complete(noted, arg[c], "result")
  /\ UNCHANGED <<arg, awaits, enabled, attempts, starts>>

\* The feedback is collected, and the finally block settles the future.
Finish(c) ==
  /\ where[c] = "after"
  /\ idem' = Complete(idem, arg[c], "result")
  /\ Leave(c)
  /\ UNCHANGED <<arg, awaits, enabled, attempts, breaker, starts>>

Return ==
  /\ phase = "acting"
  /\ batch \subseteq At("over")
  /\ phase' = "idle"
  /\ batch' = {}
  /\ UNCHANGED <<turns, sent, work, enabled, attempts, breaker, idem, starts>>

\* The user's stop or the step's timeout: the calls of the batch are
\* cancelled.  A waiting call cancels the future it waits for; an executing
\* call settles its own.
Kill ==
  /\ phase = "acting"
  /\ phase' = "idle" /\ batch' = {}
  /\ LET dead == {awaits[c] : c \in batch \cap At("waiting")}
         keys == {arg[c] : c \in batch \cap Executing}
         left == {k \in keys : idem.executor[k] # 0}
         own == {idem.executor[k] : k \in left}
         live == {c \in own \ dead : idem.future[c] = "pending"}
     IN idem' = [idem EXCEPT
          !.executor = [k \in Keys |-> IF k \in keys THEN 0 ELSE @[k]],
          !.future = [c \in Calls |-> IF c \in dead \cup own /\ @[c] = "pending"
                                      THEN "error" ELSE @[c]],
          !.failed = @ \cup {k \in left : idem.executor[k] \in live}]
  /\ where' = Gone(batch)
  /\ awaits' = [c \in Calls |-> IF c \in batch THEN 0 ELSE awaits[c]]
  /\ UNCHANGED <<turns, sent, arg, enabled, attempts, breaker, starts>>

Step(c) ==
  \/ Refuse(c) \/ Deduplicate(c) \/ Wait(c) \/ Start(c) \/ StartDisabled(c)
  \/ Woken(c) \/ ToolEnds(c) \/ Finish(c)

Next == NewTurn \/ Dispatch \/ Return \/ Kill \/ \E c \in Calls : Step(c)

\* Every call goes on when it can, and its tool returns some time; nobody
\* has to start another step or to stop one.
Fairness == WF_vars(Return) /\ \A c \in Calls : WF_vars(Step(c))

Spec == Init /\ [][Next]_vars /\ Fairness

----------------------------------------------------------------------------

\* Between two resets the tool runs at most once for the same arguments,
\* also when the call failed, was cancelled, raised, or belongs to a step
\* that the engine has given up (R4, inv-ID-7 in idempotency.py).
OncePerTurn == \A k \in Keys : starts[k] <= 1

\* A breaker whose cooldown has reached its maximum stays open and lets no
\* further call start the tool, whatever the calls under way still report
\* (inv-CB-5 in circuit_breaker.py).
StaysOpen == [][Permanent => Permanent' /\ \A k \in Keys : starts'[k] <= starts[k]]_vars

\* A batch of calls returns or raises: a call that waits for the same call,
\* or for a permit, is not forgotten.  Calls of an earlier step that are left
\* waiting for ever keep their permits, but never all of them.
BatchEnds == phase = "acting" ~> phase # "acting"

=============================================================================
