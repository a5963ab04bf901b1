------------------------------ MODULE RunLoop ------------------------------
(***************************************************************************)
(* The engine of one session's agent: _run_stream_core                     *)
(* (src/pandaren/engine/run_core.py).  A run is a bounded loop of steps;   *)
(* a step asks the LLM, checks each tool call of the answer in order, and  *)
(* executes those that pass.  A call that needs an approval or an answer   *)
(* of the user ends the run with a RunState, from which a later call of    *)
(* run_stream goes on.  The user may stop the run at any moment; tools,    *)
(* the LLM, the memory and the audit log may fail.                         *)
(*                                                                         *)
(* Calls are numbered in the order the LLM makes them; a turn is the set   *)
(* of calls of one answer.  An action is the code between two points at    *)
(* which the loop waits.                                                   *)
(***************************************************************************)
EXTENDS Naturals, FiniteSets

CONSTANTS
  MaxCalls,     \* bound on the tool calls of a behaviour
  MaxWidth,     \* bound on the calls of one answer
  MaxRuns,      \* bound on the runs of a behaviour
  MaxSteps,     \* limits.max_steps
  MaxAttempts,  \* error_policy.max_retries + 1
  MaxFailures,  \* failing steps in a row that end the run
  MaxDenials,   \* steps in a row with a refused call that end the run
  RepeatAt,     \* calls the loop detector needs before it fires
  MaxWarnings,  \* warnings of the loop detector that end the run
  AuditFails    \* may a write of the audit log fail?

ASSUME RunLoopAssumption ==
  /\ {MaxCalls, MaxWidth, MaxRuns, RepeatAt} \subseteq Nat
  /\ {MaxSteps, MaxAttempts, MaxFailures, MaxDenials, MaxWarnings}
       \subseteq Nat \ {0}
  /\ AuditFails \in BOOLEAN

Calls == 1..MaxCalls
Kinds == {"plain", "submit", "refused", "approval", "ask"}
Pausing == {"approval", "ask"}

VARIABLES
  phase,      \* where the loop is; "idle" between two calls of run_stream
  step, left, \* step_n, and the steps the for loop has still to go
  attempt,    \* LLM attempts of this step that were retried
  failures, denials,     \* consecutive_failures, ..._permission_denied_rounds
  recent, warnings,      \* the loop detector: calls recorded, corrections
  cancelled,  \* the cancel token
  resuming,   \* the pending approval or question the next step consumes
  origin,     \* what the acting step executes: a turn or a resumed one
  kind,       \* what the checks say of each call, "none" before it is made
  turn,       \* calls the step will commit
  acting,     \* calls being executed
  result,     \* what each executed call returned
  saved,      \* the RunState the application keeps while a run is paused
  history,    \* the turns in the memory, with the calls that have a result
  end,        \* terminal_reason of the last run, "none" during one
  runs,
  allowed,    \* calls the user has approved or answered
  starts,     \* how often each call was executed
  asked, warned   \* LLM steps, corrections since the run was first started

counters == <<step, left, attempt, failures, denials>>
detector == <<recent, warnings>>
batch == <<origin, turn, acting>>
calls == <<kind, result, starts, allowed>>
kept == <<saved, history, runs, asked, warned>>
vars == <<phase, counters, detector, cancelled, resuming, batch, calls, kept, end>>

Nothing ==
  [turn |-> {}, call |-> 0, step |-> 0, why |-> "none", recent |-> 0, warnings |-> 0]

Reasons ==
  {"none", "completed", "plan_complete", "hitl_paused", "interaction_paused",
   "hitl_rejected", "halted_by_guard", "total_timeout", "step_timeout",
   "cancelled", "max_steps_exceeded", "llm_error", "context_overflow",
   "tool_halt", "circuit_breaker", "permission_exhausted", "llm_loop_detected",
   "audit_failure"}

Phases == {"idle", "start", "head", "llm", "check", "ready", "act", "grace"}

TypeOK ==
  /\ phase \in Phases
  /\ {step, left, attempt, failures, denials, recent, warnings, warned, runs, asked}
       \subseteq Nat
  /\ cancelled \in BOOLEAN
  /\ resuming \in {"none"} \cup Pausing
  /\ origin \in {"turn"} \cup Pausing
  /\ kind \in [Calls -> {"none"} \cup Kinds]
  /\ {turn, acting, allowed} \subseteq SUBSET Calls
  /\ result \in [Calls -> {"none", "ok", "halt"}]
  /\ starts \in [Calls -> Nat]
  /\ saved \in [turn : SUBSET Calls, call : Calls \cup {0}, step : Nat,
                why : {"none"} \cup Pausing, recent : Nat, warnings : Nat]
  /\ history \subseteq
       [calls : SUBSET Calls, answered : SUBSET Calls, by : {"turn"} \cup Pausing]
  /\ end \in Reasons

Init ==
  /\ phase = "idle" /\ end = "none" /\ runs = 0 /\ cancelled = FALSE
  /\ step = 0 /\ left = 0 /\ attempt = 0 /\ failures = 0 /\ denials = 0
  /\ recent = 0 /\ warnings = 0 /\ warned = 0 /\ asked = 0
  /\ saved = Nothing /\ resuming = "none" /\ allowed = {}
  /\ origin = "turn" /\ turn = {} /\ acting = {} /\ history = {}
  /\ kind = [c \in Calls |-> "none"]
  /\ result = [c \in Calls |-> "none"]
  /\ starts = [c \in Calls |-> 0]

----------------------------------------------------------------------------
(* The end of a run: the audit record, the event with the result, and the  *)
(* finally block, which builds a new cancel token.  What the run knew is   *)
(* gone.  When the record cannot be written the run ends all the same,     *)
(* with another reason.                                                    *)

End(reason) ==
  /\ phase' = "idle"
  /\ end' \in {reason} \cup (IF AuditFails THEN {"audit_failure"} ELSE {})
  /\ step' = 0 /\ left' = 0 /\ attempt' = 0 /\ failures' = 0 /\ denials' = 0
  /\ recent' = 0 /\ warnings' = 0
  /\ origin' = "turn" /\ turn' = {} /\ acting' = {}
  /\ resuming' = "none" /\ cancelled' = FALSE

AllReturned == \A c \in acting : result[c] # "none"

Halting == {c \in acting : result[c] = "halt"}

\* Mutant: what a failing step had taken up is tried again.
NextStepTriesAgain ==
  /\ phase' = "head"
  /\ step' = step + 1
  /\ acting' = {}
  /\ UNCHANGED <<origin, turn>>
  /\ resuming' = IF origin # "turn" /\ ~AllReturned THEN origin ELSE resuming
  /\ attempt' = 0
  /\ UNCHANGED <<left, cancelled, end>>

NextStep ==
  /\ phase' = "head"
  /\ step' = step + 1
  /\ origin' = "turn" /\ turn' = {} /\ acting' = {}
  /\ attempt' = 0
  /\ UNCHANGED <<left, resuming, cancelled, end>>

----------------------------------------------------------------------------
(* run_stream is called with a message, or with a RunState and what the    *)
(* user said to it.                                                        *)

Enter(at, steps, seen, corrected) ==
  /\ phase = "idle"
  /\ phase' = "start"
  /\ step' = at
  /\ left' = steps
  /\ recent' = seen
  /\ warnings' = corrected
  /\ saved' = Nothing
  /\ end' = "none"
  /\ UNCHANGED <<attempt, failures, denials, cancelled, origin, acting, kind,
                 result, starts, history>>

\* A RunState that is still there is given up.
Start ==
  /\ runs < MaxRuns
  /\ Enter(0, MaxSteps, 0, 0)
  /\ runs' = runs + 1
  /\ asked' = 0
  /\ warned' = 0
  /\ UNCHANGED <<resuming, turn, allowed>>

\* Steps go on from the one that paused; at least one is left for the call.
StepsLeft(at) == IF at < MaxSteps THEN MaxSteps - at ELSE 1

Resume ==
  /\ saved.why # "none"
  /\ Enter(saved.step + 1, StepsLeft(saved.step + 1), saved.recent, saved.warnings)
  /\ resuming' = saved.why
  /\ turn' = saved.turn
  /\ allowed' = allowed \cup {saved.call}
  /\ UNCHANGED <<runs, asked, warned>>

Reject ==
  /\ phase = "idle"
  /\ saved.why = "approval"
  /\ saved' = Nothing
  /\ End("hitl_rejected")
  /\ UNCHANGED <<calls, history, runs, asked, warned>>

\* The memory is restored, or something before the first step fails.
Begin ==
  /\ phase = "start"
  /\ \/ /\ phase' = "head"
        /\ UNCHANGED <<counters, detector, cancelled, resuming, batch, end>>
     \/ End("llm_error")
  /\ UNCHANGED <<calls, kept>>

\* The user presses stop.
Stop ==
  /\ phase # "idle"
  /\ ~cancelled
  /\ cancelled' = TRUE
  /\ UNCHANGED <<phase, counters, detector, resuming, batch, calls, kept, end>>

----------------------------------------------------------------------------
(* The head of a step: the loop may be over, its time may be up, or the    *)
(* user may have stopped the run.                                          *)

HeadEnds ==
  /\ phase = "head"
  /\ \/ left = 0 /\ End("max_steps_exceeded")
     \/ left > 0 /\ End("total_timeout")
     \/ left > 0 /\ cancelled /\ End("cancelled")
  /\ UNCHANGED <<calls, kept>>

\* Mutant: the steps are not counted.
GoesOnUnlessStopped == ~cancelled

GoesOn == left > 0 /\ ~cancelled

Executable(T) == {c \in T : kind[c] # "refused"}

\* The call the user was asked about, with those checked before it.
TakeUp ==
  /\ phase = "head" /\ GoesOn
  /\ resuming # "none"
  /\ origin' = resuming
  /\ resuming' = "none"
  /\ acting' = Executable(turn)
  /\ phase' = "ready"
  /\ left' = left - 1
  /\ UNCHANGED <<step, attempt, failures, denials, detector, cancelled, turn, calls,
                 kept, end>>

AskLlm ==
  /\ phase = "head" /\ GoesOn
  /\ resuming = "none"
  /\ phase' = "llm"
  /\ left' = left - 1
  /\ asked' = asked + 1
  /\ UNCHANGED <<step, attempt, failures, denials, detector, cancelled, resuming,
                 batch, calls, saved, history, runs, warned, end>>

----------------------------------------------------------------------------
(* The LLM: an attempt may fail or be empty and be repeated, or end the    *)
(* run; the answer is final or a turn of calls.                            *)

Retry ==
  /\ phase = "llm"
  /\ attempt + 1 < MaxAttempts
  /\ attempt' = attempt + 1
  /\ UNCHANGED <<phase, step, left, failures, denials, detector, cancelled,
                 resuming, batch, calls, kept, end>>

LlmEnds ==
  /\ phase = "llm"
  /\ \/ \E reason \in {"context_overflow", "llm_error", "halted_by_guard", "completed"} :
          End(reason)
     \/ cancelled /\ End("cancelled")
  /\ UNCHANGED <<calls, kept>>

NewCalls(T) ==
  /\ T # {}
  /\ Cardinality(T) <= MaxWidth
  /\ \A c \in T : kind[c] = "none" /\ \A d \in Calls : d < c => d \in T \/ kind[d] # "none"

Respond ==
  /\ phase = "llm"
  /\ phase' = "check"
  /\ attempt' = 0
  /\ \E T \in SUBSET Calls :
       /\ NewCalls(T)
       /\ turn' = T
       /\ \E k \in [T -> Kinds] :
            kind' = [c \in Calls |-> IF c \in T THEN k[c] ELSE kind[c]]
  /\ UNCHANGED <<step, left, failures, denials, detector, cancelled, resuming,
                 origin, acting, result, starts, allowed, kept, end>>

----------------------------------------------------------------------------
(* The checks, in the order of the calls, up to the first that must wait.  *)

Asking(T) == {c \in T : kind[c] \in Pausing}

\* Mutant: the calls behind the one that waits are kept.
UpToTheEnd(T) == T

UpToAsking(T) == {c \in T : \A d \in Asking(T) : c <= d}

\* Mutant: the loop detector is forgotten at every pause.
RunStateWithoutDetector(T, c, why) ==
  [turn |-> T, call |-> c, step |-> step, why |-> why, recent |-> 0, warnings |-> 0]

RunStateOf(T, c, why) ==
  [turn |-> T, call |-> c, step |-> step, why |-> why,
   recent |-> IF why = "approval" THEN recent ELSE 0,
   warnings |-> IF why = "approval" THEN warnings ELSE 0]

\* The RunState goes to the application, which closes the generator.
Pause ==
  /\ phase = "check"
  /\ \E c \in Asking(UpToAsking(turn)) :
       /\ End(IF kind[c] = "approval" THEN "hitl_paused" ELSE "interaction_paused")
       /\ saved' = IF end' = "audit_failure" THEN saved
                   ELSE RunStateOf(UpToAsking(turn), c, kind[c])
  /\ UNCHANGED <<calls, history, runs, asked, warned>>

Ready ==
  /\ phase = "check"
  /\ Asking(turn) = {}
  /\ Executable(turn) # {}
  /\ acting' = Executable(turn)
  /\ phase' = "ready"
  /\ UNCHANGED <<counters, detector, cancelled, resuming, origin, turn, calls,
                 kept, end>>

\* Mutant: the refusals held back at the pause are lost.
CommitExecuted(answered) ==
  history' = history \cup
    {[calls |-> turn, answered |-> answered \cap acting, by |-> origin]}

Commit(answered) ==
  history' = history \cup {[calls |-> turn, answered |-> answered, by |-> origin]}

\* After a committed turn: the loop detector, then the count of refusals.
Settle(executed) ==
  \E repeats \in BOOLEAN :
    LET seen == recent + Cardinality(executed)
        corrected == IF repeats THEN warnings + 1 ELSE warnings
        refusals == IF Executable(turn) = turn THEN 0 ELSE denials + 1
    IN /\ repeats => executed # {} /\ seen >= RepeatAt
       /\ warned' = IF repeats THEN warned + 1 ELSE warned
       /\ \/ repeats /\ corrected >= MaxWarnings /\ End("llm_loop_detected")
          \/ /\ ~(repeats /\ corrected >= MaxWarnings)
             /\ \/ refusals >= MaxDenials /\ End("permission_exhausted")
                \/ /\ refusals < MaxDenials
                   /\ NextStep
                   /\ recent' = seen
                   /\ warnings' = corrected
                   /\ denials' = refusals
                   /\ failures' = 0

\* Everything is refused: the turn is committed with the refusals.
CommitRefused ==
  /\ phase = "check"
  /\ Executable(turn) = {}
  /\ history' = history \cup {[calls |-> turn, answered |-> turn, by |-> "turn"]}
  /\ Settle({})
  /\ UNCHANGED <<calls, saved, runs, asked>>

----------------------------------------------------------------------------
(* Execution, raced with the cancel token and the step's timeout.          *)

Execute ==
  /\ phase = "ready"
  /\ phase' = "act"
  /\ starts' = [c \in Calls |-> IF c \in acting THEN starts[c] + 1 ELSE starts[c]]
  /\ UNCHANGED <<counters, detector, cancelled, resuming, batch, kind, result,
                 allowed, kept, end>>

ToolReturns ==
  /\ phase \in {"act", "grace"}
  /\ \E c \in acting :
       /\ result[c] = "none"
       /\ \E r \in {"ok", "halt"} : result' = [result EXCEPT ![c] = r]
  /\ UNCHANGED <<phase, counters, detector, cancelled, resuming, batch, kind,
                 starts, allowed, kept, end>>

\* The calls at which the loop over the results stops.
Stopping ==
  Halting \cup {c \in acting : kind[c] = "submit" /\ result[c] = "ok"}

\* A turn: calls without a result of their own are given a placeholder.
CollectTurn ==
  /\ phase = "act" /\ origin = "turn"
  /\ AllReturned
  /\ Commit(turn)
  /\ \/ \E h \in Stopping :
          /\ \A d \in Stopping : h <= d
          /\ End(IF h \in Halting THEN "tool_halt" ELSE "plan_complete")
          /\ UNCHANGED warned
     \/ Stopping = {} /\ Settle(acting)
  /\ UNCHANGED <<calls, saved, runs, asked>>

\* An approved call: the first halt ends the run with the results so far.
CollectApproved ==
  /\ phase = "act" /\ origin = "approval"
  /\ AllReturned
  /\ \/ \E h \in Halting :
          /\ \A d \in Halting : h <= d
          /\ Commit({c \in turn : c <= h \/ c \notin acting})
          /\ End("tool_halt")
     \/ /\ Halting = {}
        /\ Commit(turn)
        /\ NextStep
        /\ recent' = recent + Cardinality(acting)
        /\ UNCHANGED <<warnings, denials, failures>>
  /\ UNCHANGED <<calls, saved, runs, asked, warned>>

CollectAnswered ==
  /\ phase = "act" /\ origin = "ask"
  /\ AllReturned
  /\ Commit(turn)
  /\ \/ Halting # {} /\ End("tool_halt")
     \/ Halting = {} /\ NextStep /\ UNCHANGED <<detector, denials, failures>>
  /\ UNCHANGED <<calls, saved, runs, asked, warned>>

CancelWins ==
  /\ phase = "act"
  /\ cancelled
  /\ ~AllReturned
  /\ phase' = "grace"
  /\ UNCHANGED <<counters, detector, cancelled, resuming, batch, calls, kept, end>>

\* The tools return, or are killed; what they returned is not recorded.
GraceEnds ==
  /\ phase = "grace"
  /\ End("cancelled")
  /\ UNCHANGED <<calls, kept>>

\* Mutant: the tools are awaited without a limit.
TimesOutBeforeTools == phase \in {"llm", "ready"}

TimesOut == phase \in {"llm", "ready"} \/ (phase = "act" /\ ~AllReturned)

StepTimeout ==
  /\ TimesOut
  /\ End("step_timeout")
  /\ UNCHANGED <<calls, kept>>

\* An exception in a step that is none of the above: the next step is tried.
StepFails ==
  /\ phase \in {"llm", "act", "grace"}
  /\ \/ failures + 1 >= MaxFailures /\ End("circuit_breaker")
     \/ /\ failures + 1 < MaxFailures
        /\ NextStep
        /\ failures' = failures + 1
        /\ UNCHANGED <<denials, detector>>
  /\ UNCHANGED <<calls, kept>>

\* Any other record cannot be written.
AuditFailure ==
  /\ AuditFails
  /\ phase \in {"start", "check", "act", "grace"}
  /\ End("audit_failure")
  /\ UNCHANGED <<calls, kept>>

Engine ==
  \/ Begin \/ HeadEnds \/ TakeUp \/ AskLlm \/ Retry \/ LlmEnds \/ Respond
  \/ Pause \/ Ready \/ CommitRefused \/ Execute \/ CollectTurn
  \/ CollectApproved \/ CollectAnswered \/ CancelWins \/ GraceEnds
  \/ StepTimeout

Next ==
  \/ Start \/ Resume \/ Reject \/ Stop
  \/ Engine \/ ToolReturns \/ StepFails \/ AuditFailure

\* The task of the loop is scheduled and each of its waits has a timeout; a
\* tool may never return, and nothing has to fail.
Fairness == WF_vars(Engine)

Spec == Init /\ [][Next]_vars /\ Fairness

----------------------------------------------------------------------------

\* No call that needs the user is executed before the user has allowed it,
\* whatever is checked, paused, resumed or dropped in between (the checks of
\* run_core.py, and the resumed batches that skip them).
AllowedFirst ==
  \A c \in Calls : starts[c] > 0 /\ kind[c] \in Pausing => c \in allowed

\* A call is executed at most once, also when it is checked before a pause
\* and executed after it, or when a step fails and the next is tried.
StartedOnce == \A c \in Calls : starts[c] <= 1

\* The memory holds a turn with a result for each of its calls, and no call
\* twice; the exception is an approved batch in which a tool halts the run.
TurnsAnswered ==
  /\ \A t \in history :
       \/ t.answered = t.calls
       \/ t.by = "approval" /\ \E c \in t.answered : result[c] = "halt"
  /\ \A t, u \in history : t # u => t.calls \cap u.calls = {}

\* A run asks the LLM for at most max_steps steps over all its pauses, and one
\* that asks the user no question is over once the loop detector has corrected
\* it MaxWarnings times, however often it was paused for an approval.
RunIsCutOff ==
  /\ asked <= MaxSteps
  /\ warned >= MaxWarnings /\ (\A c \in allowed : kind[c] # "ask") =>
       phase = "idle" /\ saved = Nothing

Answered == UNION {t.answered : t \in history}

Stage(c) ==
  IF c \in Answered THEN "answered"
  ELSE IF starts[c] > 0 THEN IF c \in acting THEN "running" ELSE "dropped"
  ELSE IF c \in allowed THEN "allowed"
  ELSE IF kind[c] = "none" THEN "unknown" ELSE "proposed"

Lifecycle == INSTANCE CallLifecycle WITH
  status <- [c \in Calls |-> Stage(c)],
  sensitive <- Asking(Calls)

\* The loop implements the promise made about each call.
ImplementsLifecycle == Lifecycle!Spec

\* A run ends or pauses, whatever fails, waits or is stopped.
RunEnds == phase # "idle" ~> phase = "idle"

=============================================================================
