--------------------------- MODULE RunLoopProofs ---------------------------
(***************************************************************************)
(* Theorems about RunLoop, for any limits, any number of calls and runs,   *)
(* and an audit log that may fail or not.                                  *)
(***************************************************************************)
EXTENDS RunLoop, FiniteSetTheorems, WellFoundedInduction, TLAPS

-----------------------------------------------------------------------------
(* Type correctness, by the parts of the state.                            *)

ControlTypes ==
  /\ phase \in Phases
  /\ end \in Reasons
  /\ {step, left, attempt, failures, denials} \subseteq Nat
  /\ {recent, warnings} \subseteq Nat
  /\ cancelled \in BOOLEAN
  /\ resuming \in {"none"} \cup Pausing

BatchTypes ==
  /\ origin \in {"turn"} \cup Pausing
  /\ {turn, acting} \subseteq SUBSET Calls

CallTypes ==
  /\ kind \in [Calls -> {"none"} \cup Kinds]
  /\ result \in [Calls -> {"none", "ok", "halt"}]
  /\ starts \in [Calls -> Nat]
  /\ allowed \subseteq Calls

SavedTypes ==
  saved \in [turn : SUBSET Calls, call : Calls \cup {0}, step : Nat,
             why : {"none"} \cup Pausing, recent : Nat, warnings : Nat]

HistoryTypes ==
  history \subseteq
    [calls : SUBSET Calls, answered : SUBSET Calls, by : {"turn"} \cup Pausing]

CountTypes == {runs, asked, warned} \subseteq Nat

(* What holds between two actions.                                         *)

InHistory(c) == \E t \in history : c \in t.calls

\* Proposed by the LLM, not executed, and without a result in the memory.
Open(T) == \A c \in T : kind[c] # "none" /\ starts[c] = 0 /\ ~InHistory(c)

Waiting == resuming # "none" \/ phase \in {"check", "ready"}

\* What each place of the loop has at hand.
ShapeInv ==
  /\ phase \notin {"ready", "act", "grace"} => acting = {}
  /\ phase \in {"ready", "act", "grace"} => acting = Executable(turn)
  /\ resuming # "none" => phase \in {"start", "head"}

\* A paused run waits for one call of its turn, the only one that needs the user.
SavedInv ==
  /\ saved.why = "none" => saved = Nothing
  /\ saved.why # "none" =>
       /\ phase = "idle"
       /\ Open(saved.turn)
       /\ Asking(saved.turn) = {saved.call}
       /\ kind[saved.call] = saved.why
       /\ saved.call \notin allowed

\* The calls of the turn, before and after they are executed.
TurnInv ==
  /\ Waiting => Open(turn)
  /\ resuming # "none" \/ phase = "ready" => Asking(turn) \subseteq allowed
  /\ phase = "check" => Asking(turn) \cap allowed = {}
  /\ phase \in {"act", "grace"} =>
       \A c \in turn : /\ kind[c] # "none" /\ ~InHistory(c)
                       /\ starts[c] = IF c \in acting THEN 1 ELSE 0

\* Nothing is known of a call before the LLM has made it.
KnownInv ==
  \A c \in Calls :
    /\ starts[c] > 0 \/ InHistory(c) => kind[c] # "none"
    /\ c \in allowed => kind[c] \in Pausing

LoopInv ==
  /\ TypeOK /\ ShapeInv /\ SavedInv /\ TurnInv /\ KnownInv
  /\ StartedOnce /\ AllowedFirst /\ TurnsAnswered

-----------------------------------------------------------------------------

LEMMA Parts ==
  TypeOK <=> /\ ControlTypes /\ BatchTypes /\ CallTypes /\ SavedTypes /\ HistoryTypes
             /\ CountTypes
BY DEF TypeOK, ControlTypes, BatchTypes, CallTypes, SavedTypes, HistoryTypes, CountTypes

LEMMA NextParts ==
  ASSUME ControlTypes', BatchTypes', CallTypes', SavedTypes', HistoryTypes', CountTypes'
  PROVE  TypeOK'
BY DEF TypeOK, ControlTypes, BatchTypes, CallTypes, SavedTypes, HistoryTypes, CountTypes

\* What an unchanged part keeps.
LEMMA Kept ==
  /\ ControlTypes /\ UNCHANGED <<phase, counters, detector, cancelled, resuming, end>>
       => ControlTypes'
  /\ BatchTypes /\ UNCHANGED batch => BatchTypes'
  /\ CallTypes /\ UNCHANGED calls => CallTypes'
  /\ SavedTypes /\ UNCHANGED saved => SavedTypes'
  /\ HistoryTypes /\ UNCHANGED history => HistoryTypes'
  /\ CountTypes /\ UNCHANGED <<runs, asked, warned>> => CountTypes'
BY DEF ControlTypes, BatchTypes, CallTypes, SavedTypes, HistoryTypes, CountTypes,
   counters, detector, batch, calls

LEMMA KeptAll ==
  /\ UNCHANGED kept => UNCHANGED <<saved, history, runs, asked, warned>>
  /\ SavedTypes /\ HistoryTypes /\ CountTypes /\ UNCHANGED kept
       => SavedTypes' /\ HistoryTypes' /\ CountTypes'
BY DEF kept, SavedTypes, HistoryTypes, CountTypes

LEMMA EndTypes ==
  ASSUME NEW reason \in Reasons, End(reason)
  PROVE  ControlTypes' /\ BatchTypes'
<1>1. end' \in Reasons
  <2>1. "audit_failure" \in Reasons
    BY DEF Reasons
  <2>2. end' \in {reason} \cup (IF AuditFails THEN {"audit_failure"} ELSE {})
    BY DEF End
  <2>. HIDE DEF Reasons
  <2>. QED
    BY <2>1, <2>2
<1>2. BatchTypes'
  BY DEF End, BatchTypes
<1>3. /\ phase' \in Phases /\ cancelled' \in BOOLEAN
      /\ resuming' \in {"none"} \cup Pausing
  BY DEF End, Phases
<1>4. /\ {step', left', attempt', failures', denials'} \subseteq Nat
      /\ {recent', warnings'} \subseteq Nat
  BY DEF End
<1>. QED
  BY <1>1, <1>2, <1>3, <1>4 DEF ControlTypes

LEMMA NextStepTypes ==
  ASSUME ControlTypes, NextStep, {failures', denials'} \subseteq Nat,
         {recent', warnings'} \subseteq Nat
  PROVE  ControlTypes' /\ BatchTypes'
BY DEF NextStep, ControlTypes, BatchTypes, Phases

LEMMA CommitTypes ==
  ASSUME HistoryTypes, BatchTypes, NEW answered \in SUBSET Calls, Commit(answered)
  PROVE  HistoryTypes'
BY DEF HistoryTypes, BatchTypes, Commit

LEMMA BatchSize ==
  ASSUME BatchTypes
  PROVE  Cardinality(acting) \in Nat
<1>1. IsFiniteSet(Calls)
  BY RunLoopAssumption, FS_Interval DEF Calls, RunLoopAssumption
<1>2. IsFiniteSet(acting)
  BY <1>1, FS_Subset DEF BatchTypes
<1>. QED
  BY <1>2, FS_CardinalityType

\* The calls of run_stream, and what the user does.
LEMMA TypeCaller ==
  ASSUME TypeOK, SavedInv, Start \/ Resume \/ Reject \/ Begin \/ Stop
  PROVE  TypeOK'
<1>. USE Parts
<1>1. CASE Start
  BY <1>1, Kept, NextParts, RunLoopAssumption
  DEF Start, Enter, Nothing, ControlTypes, BatchTypes, CallTypes, SavedTypes, CountTypes, Phases,
      Reasons, RunLoopAssumption
<1>2. CASE Resume
  <2>1. saved.step + 1 \in Nat /\ StepsLeft(saved.step + 1) \in Nat
    BY RunLoopAssumption DEF SavedTypes, StepsLeft, RunLoopAssumption
  <2>2. ControlTypes'
    BY <1>2, <2>1 DEF Resume, Enter, ControlTypes, SavedTypes, Phases, Reasons
  <2>3. BatchTypes' /\ SavedTypes'
    BY <1>2 DEF Resume, Enter, BatchTypes, SavedTypes, Nothing
  <2>4. CallTypes'
    <3>1. saved.call \in Calls
      BY <1>2 DEF Resume, SavedInv, Asking, SavedTypes
    <3>. QED
      BY <1>2, <3>1 DEF Resume, Enter, CallTypes
  <2>. QED
    BY <1>2, <2>2, <2>3, <2>4, Kept, NextParts DEF Resume, Enter
<1>3. CASE Reject
  BY <1>3, EndTypes, Kept, NextParts DEF Reject, Reasons, SavedTypes, Nothing
<1>4. CASE Begin
  BY <1>4, EndTypes, Kept, KeptAll, NextParts DEF Begin, ControlTypes, Phases, Reasons, counters,
     detector
<1>5. CASE Stop
  BY <1>5, Kept, KeptAll, NextParts DEF Stop, ControlTypes, counters, detector
<1>. QED
  BY <1>1, <1>2, <1>3, <1>4, <1>5

\* A run that ends, apart from what is saved and committed.
LEMMA TypeEnds ==
  ASSUME TypeOK, NEW reason \in Reasons, End(reason), UNCHANGED <<calls, kept>>
  PROVE  TypeOK'
BY EndTypes, Parts, Kept, KeptAll, NextParts

\* A new step is tried after this one.
LEMMA TypeTriedAgain ==
  ASSUME TypeOK, StepFails
  PROVE  TypeOK'
<1>. USE Parts
<1>1. CASE End("circuit_breaker")
  BY <1>1, TypeEnds DEF StepFails, Reasons
<1>2. CASE NextStep /\ failures' = failures + 1 /\ UNCHANGED <<denials, detector>>
  <2>1. {failures', denials'} \subseteq Nat /\ {recent', warnings'} \subseteq Nat
    BY <1>2 DEF ControlTypes, detector
  <2>. QED
    BY <1>2, <2>1, NextStepTypes, Kept, KeptAll, NextParts DEF StepFails
<1>. QED
  BY <1>1, <1>2 DEF StepFails

LEMMA SettleTypes ==
  ASSUME TypeOK, NEW executed, Cardinality(executed) \in Nat, Settle(executed)
  PROVE  ControlTypes' /\ BatchTypes' /\ warned' \in Nat
<1>. USE Parts
<1>1. PICK repeats \in BOOLEAN :
        /\ warned' = IF repeats THEN warned + 1 ELSE warned
        /\ \/ End("llm_loop_detected")
           \/ End("permission_exhausted")
           \/ /\ NextStep
              /\ recent' = recent + Cardinality(executed)
              /\ warnings' = IF repeats THEN warnings + 1 ELSE warnings
              /\ denials' = (IF Executable(turn) = turn THEN 0 ELSE denials + 1)
              /\ failures' = 0
  BY DEF Settle
<1>2. warned' \in Nat
  BY <1>1 DEF CountTypes
<1>3. CASE End("llm_loop_detected")
  BY <1>2, <1>3, EndTypes DEF Reasons
<1>4. CASE End("permission_exhausted")
  BY <1>2, <1>4, EndTypes DEF Reasons
<1>5. CASE NextStep /\ recent' = recent + Cardinality(executed)
           /\ warnings' = (IF repeats THEN warnings + 1 ELSE warnings)
           /\ denials' = (IF Executable(turn) = turn THEN 0 ELSE denials + 1)
           /\ failures' = 0
  <2>1. {failures', denials'} \subseteq Nat /\ {recent', warnings'} \subseteq Nat
    BY <1>5 DEF ControlTypes
  <2>. QED
    BY <1>2, <1>5, <2>1, NextStepTypes
<1>. QED
  BY <1>1, <1>3, <1>4, <1>5

\* The steps up to the execution.
LEMMA TypeHead ==
  ASSUME TypeOK, HeadEnds \/ TakeUp \/ AskLlm \/ Retry \/ LlmEnds \/ Respond
  PROVE  TypeOK'
<1>. USE Parts
<1>1. CASE HeadEnds
  BY <1>1, TypeEnds DEF HeadEnds, Reasons
<1>2. CASE TakeUp
  <2>1. left - 1 \in Nat
    BY <1>2 DEF TakeUp, GoesOn, ControlTypes
  <2>2. ControlTypes' /\ BatchTypes'
    BY <1>2, <2>1 DEF TakeUp, ControlTypes, BatchTypes, Phases, Executable, detector
  <2>. QED
    BY <1>2, <2>2, Kept, KeptAll, NextParts DEF TakeUp
<1>3. CASE AskLlm
  <2>1. left - 1 \in Nat
    BY <1>3 DEF AskLlm, GoesOn, ControlTypes
  <2>2. ControlTypes' /\ CountTypes'
    BY <1>3, <2>1 DEF AskLlm, ControlTypes, CountTypes, Phases, detector
  <2>. QED
    BY <1>3, <2>2, Kept, NextParts DEF AskLlm
<1>4. CASE Retry
  BY <1>4, Kept, KeptAll, NextParts DEF Retry, ControlTypes, detector
<1>5. CASE LlmEnds
  BY <1>5, TypeEnds DEF LlmEnds, Reasons
<1>6. CASE Respond
  <2>1. PICK T \in SUBSET Calls :
          /\ turn' = T
          /\ \E k \in [T -> Kinds] :
               kind' = [c \in Calls |-> IF c \in T THEN k[c] ELSE kind[c]]
    BY <1>6 DEF Respond
  <2>2. BatchTypes'
    BY <1>6, <2>1 DEF Respond, BatchTypes
  <2>3. CallTypes'
    BY <1>6, <2>1 DEF Respond, CallTypes
  <2>4. ControlTypes'
    BY <1>6 DEF Respond, ControlTypes, Phases, detector
  <2>. QED
    BY <1>6, <2>2, <2>3, <2>4, Kept, KeptAll, NextParts DEF Respond
<1>. QED
  BY <1>1, <1>2, <1>3, <1>4, <1>5, <1>6

LEMMA TypeChecked ==
  ASSUME TypeOK, Pause \/ Ready \/ CommitRefused
  PROVE  TypeOK'
<1>. USE Parts
<1>1. CASE Pause
  <2>1. PICK c \in Asking(UpToAsking(turn)) :
          /\ End(IF kind[c] = "approval" THEN "hitl_paused" ELSE "interaction_paused")
          /\ saved' = IF end' = "audit_failure" THEN saved
                      ELSE RunStateOf(UpToAsking(turn), c, kind[c])
    BY <1>1 DEF Pause
  <2>2. ControlTypes' /\ BatchTypes'
    BY <2>1, EndTypes DEF Reasons
  <2>3. c \in Calls /\ kind[c] \in Pausing /\ UpToAsking(turn) \in SUBSET Calls
    BY DEF Asking, UpToAsking, BatchTypes
  <2>4. RunStateOf(UpToAsking(turn), c, kind[c]) \in
          [turn : SUBSET Calls, call : Calls \cup {0}, step : Nat,
           why : {"none"} \cup Pausing, recent : Nat, warnings : Nat]
    <3>1. /\ step \in Nat
          /\ (IF kind[c] = "approval" THEN recent ELSE 0) \in Nat
          /\ (IF kind[c] = "approval" THEN warnings ELSE 0) \in Nat
      BY DEF ControlTypes
    <3>. QED
      BY <2>3, <3>1 DEF RunStateOf
  <2>5. SavedTypes'
    BY <2>1, <2>4 DEF SavedTypes
  <2>. QED
    BY <1>1, <2>2, <2>5, Kept, NextParts DEF Pause
<1>2. CASE Ready
  BY <1>2, Kept, KeptAll, NextParts
  DEF Ready, ControlTypes, BatchTypes, Phases, Executable, counters, detector
<1>3. CASE CommitRefused
  <2>1. HistoryTypes'
    BY <1>3 DEF CommitRefused, HistoryTypes, BatchTypes
  <2>2. Cardinality({}) \in Nat
    BY FS_EmptySet
  <2>3. ControlTypes' /\ BatchTypes' /\ warned' \in Nat
    BY <1>3, <2>2, SettleTypes DEF CommitRefused
  <2>4. CountTypes'
    BY <1>3, <2>3 DEF CommitRefused, CountTypes
  <2>. QED
    BY <1>3, <2>1, <2>3, <2>4, Kept, NextParts DEF CommitRefused
<1>. QED
  BY <1>1, <1>2, <1>3

LEMMA TypeExecuted ==
  ASSUME TypeOK, Execute \/ ToolReturns \/ CancelWins
  PROVE  TypeOK'
<1>. USE Parts
<1>1. CASE Execute
  BY <1>1, Kept, KeptAll, NextParts DEF Execute, ControlTypes, CallTypes, Phases, counters, detector
<1>2. CASE ToolReturns
  BY <1>2, Kept, KeptAll, NextParts DEF ToolReturns, ControlTypes, CallTypes, BatchTypes, counters,
     detector
<1>3. CASE CancelWins
  BY <1>3, Kept, KeptAll, NextParts DEF CancelWins, ControlTypes, Phases, counters, detector
<1>. QED
  BY <1>1, <1>2, <1>3

LEMMA TypeCollected ==
  ASSUME TypeOK, CollectTurn \/ CollectApproved \/ CollectAnswered
  PROVE  TypeOK'
<1>. USE Parts
<1>1. Cardinality(acting) \in Nat
  BY BatchSize
<1>2. CASE CollectTurn
  <2>1. HistoryTypes'
    BY <1>2, CommitTypes DEF CollectTurn, BatchTypes
  <2>2. ControlTypes' /\ BatchTypes' /\ warned' \in Nat
    <3>1. CASE Settle(acting)
      BY <1>1, <3>1, SettleTypes
    <3>2. CASE \E h \in Stopping : End(IF h \in Halting THEN "tool_halt" ELSE "plan_complete")
               /\ UNCHANGED warned
      BY <3>2, EndTypes DEF Reasons, CountTypes
    <3>. QED
      BY <1>2, <3>1, <3>2 DEF CollectTurn
  <2>3. CountTypes'
    BY <1>2, <2>2 DEF CollectTurn, CountTypes
  <2>. QED
    BY <1>2, <2>1, <2>2, <2>3, Kept, NextParts DEF CollectTurn
<1>3. CASE CollectApproved
  <2>1. HistoryTypes'
    BY <1>3, CommitTypes DEF CollectApproved, BatchTypes
  <2>2. ControlTypes' /\ BatchTypes'
    <3>1. CASE End("tool_halt")
      BY <3>1, EndTypes DEF Reasons
    <3>2. CASE NextStep /\ recent' = recent + Cardinality(acting)
               /\ UNCHANGED <<warnings, denials, failures>>
      <4>1. {failures', denials'} \subseteq Nat /\ {recent', warnings'} \subseteq Nat
        BY <1>1, <3>2 DEF ControlTypes
      <4>. QED
        BY <3>2, <4>1, NextStepTypes
    <3>. QED
      BY <1>3, <3>1, <3>2 DEF CollectApproved
  <2>. QED
    BY <1>3, <2>1, <2>2, Kept, NextParts DEF CollectApproved
<1>4. CASE CollectAnswered
  <2>1. HistoryTypes'
    BY <1>4, CommitTypes DEF CollectAnswered, BatchTypes
  <2>2. ControlTypes' /\ BatchTypes'
    <3>1. CASE End("tool_halt")
      BY <3>1, EndTypes DEF Reasons
    <3>2. CASE NextStep /\ UNCHANGED <<detector, denials, failures>>
      <4>1. {failures', denials'} \subseteq Nat /\ {recent', warnings'} \subseteq Nat
        BY <3>2 DEF ControlTypes, detector
      <4>. QED
        BY <3>2, <4>1, NextStepTypes
    <3>. QED
      BY <1>4, <3>1, <3>2 DEF CollectAnswered
  <2>. QED
    BY <1>4, <2>1, <2>2, Kept, NextParts DEF CollectAnswered
<1>. QED
  BY <1>2, <1>3, <1>4

LEMMA TypeStep ==
  ASSUME TypeOK, SavedInv, [Next]_vars
  PROVE  TypeOK'
<1>1. CASE UNCHANGED vars
  BY <1>1, Parts, Kept, KeptAll, NextParts DEF vars
<1>2. CASE GraceEnds \/ StepTimeout \/ AuditFailure
  BY <1>2, TypeEnds DEF GraceEnds, StepTimeout, AuditFailure, Reasons
<1>. QED
  BY <1>1, <1>2, TypeCaller, TypeHead, TypeChecked, TypeExecuted, TypeCollected, TypeTriedAgain
  DEF Next, Engine

-----------------------------------------------------------------------------
(* The batches.  What a step of the loop does to the calls is one of two   *)
(* things: the turn is over (the run ends or the next step begins), or the *)
(* loop moves on with it.                                                  *)

SafeInv ==
  ShapeInv /\ SavedInv /\ TurnInv /\ KnownInv /\ StartedOnce /\ AllowedFirst /\ TurnsAnswered

LEMMA Safe == LoopInv <=> TypeOK /\ SafeInv
BY DEF LoopInv, SafeInv

\* Nothing is committed and no call is made, checked, allowed or executed.
LEMMA SameHistory ==
  ASSUME LoopInv, UNCHANGED <<calls, history>>
  PROVE  KnownInv' /\ StartedOnce' /\ AllowedFirst' /\ TurnsAnswered'
BY DEF LoopInv, KnownInv, StartedOnce, AllowedFirst, TurnsAnswered, calls, InHistory

\* The turn is committed.
LEMMA Committed ==
  ASSUME LoopInv, phase \in {"check", "act"}, UNCHANGED calls,
         NEW answered, NEW by,
         history' = history \cup {[calls |-> turn, answered |-> answered, by |-> by]},
         answered = turn \/ (by = "approval" /\ \E c \in answered : result[c] = "halt")
  PROVE  KnownInv' /\ StartedOnce' /\ AllowedFirst' /\ TurnsAnswered'
<1>1. \A c \in turn : kind[c] # "none" /\ ~InHistory(c)
  BY DEF LoopInv, TurnInv, Waiting, Open
<1>2. ASSUME NEW c \in Calls
      PROVE  InHistory(c)' <=> InHistory(c) \/ c \in turn
  <2>. DEFINE new == [calls |-> turn, answered |-> answered, by |-> by]
  <2>1. history' = history \cup {new} /\ new.calls = turn
    OBVIOUS
  <2>. HIDE DEF new
  <2>. QED
    BY <2>1 DEF InHistory
<1>3. KnownInv'
  BY <1>1, <1>2 DEF LoopInv, KnownInv, calls
<1>4. StartedOnce' /\ AllowedFirst'
  BY DEF LoopInv, StartedOnce, AllowedFirst, calls
<1>5. TurnsAnswered'
  BY <1>1 DEF LoopInv, TurnsAnswered, InHistory, calls
<1>. QED
  BY <1>3, <1>4, <1>5

\* The turn is over.
LEMMA TurnOver ==
  ASSUME LoopInv, phase' \in {"idle", "head"}, acting' = {}, resuming' = "none",
         UNCHANGED calls,
         \/ phase # "idle" /\ saved' = saved
         \/ saved' = Nothing,
         KnownInv' /\ StartedOnce' /\ AllowedFirst' /\ TurnsAnswered'
  PROVE  SafeInv'
<1>1. saved' = Nothing
  BY DEF LoopInv, SavedInv
<1>2. ShapeInv' /\ TurnInv'
  BY DEF ShapeInv, TurnInv, Waiting
<1>3. SavedInv'
  BY <1>1 DEF SavedInv, Nothing
<1>. QED
  BY <1>2, <1>3 DEF SafeInv

LEMMA Ends ==
  ASSUME LoopInv, NEW reason, End(reason), UNCHANGED calls,
         \/ phase # "idle" /\ saved' = saved
         \/ saved' = Nothing,
         KnownInv' /\ StartedOnce' /\ AllowedFirst' /\ TurnsAnswered'
  PROVE  SafeInv'
BY TurnOver DEF End

LEMMA GoesOnNext ==
  ASSUME LoopInv, NextStep, UNCHANGED <<calls, saved>>,
         phase \in {"llm", "check", "ready", "act", "grace"},
         KnownInv' /\ StartedOnce' /\ AllowedFirst' /\ TurnsAnswered'
  PROVE  SafeInv'
<1>1. resuming = "none"
  BY DEF LoopInv, ShapeInv
<1>. QED
  BY <1>1, TurnOver DEF NextStep

LEMMA EndsUncommitted ==
  ASSUME LoopInv, phase # "idle", NEW reason, End(reason), UNCHANGED <<calls, kept>>
  PROVE  SafeInv'
BY Ends, SameHistory, KeptAll

LEMMA SafeOver ==
  ASSUME LoopInv,
         HeadEnds \/ LlmEnds \/ GraceEnds \/ StepTimeout \/ StepFails \/ AuditFailure \/ Reject
  PROVE  SafeInv'
<1>1. CASE HeadEnds
  BY <1>1, EndsUncommitted DEF HeadEnds
<1>2. CASE LlmEnds
  BY <1>2, EndsUncommitted DEF LlmEnds
<1>3. CASE GraceEnds \/ AuditFailure
  BY <1>3, EndsUncommitted DEF GraceEnds, AuditFailure
<1>4. CASE StepTimeout
  BY <1>4, EndsUncommitted DEF StepTimeout, TimesOut
<1>5. CASE StepFails
  <2>1. CASE End("circuit_breaker")
    BY <1>5, <2>1, EndsUncommitted DEF StepFails
  <2>2. CASE NextStep
    BY <1>5, <2>2, GoesOnNext, SameHistory, KeptAll DEF StepFails
  <2>. QED
    BY <1>5, <2>1, <2>2 DEF StepFails
<1>6. CASE Reject
  BY <1>6, Ends, SameHistory DEF Reject
<1>. QED
  BY <1>1, <1>2, <1>3, <1>4, <1>5, <1>6

LEMMA SettleEnds ==
  ASSUME NEW executed, Settle(executed)
  PROVE  End("llm_loop_detected") \/ End("permission_exhausted") \/ NextStep
BY DEF Settle

LEMMA SafeCommits ==
  ASSUME LoopInv, CommitRefused \/ CollectTurn \/ CollectApproved \/ CollectAnswered
  PROVE  SafeInv'
<1>1. CASE CommitRefused
  <2>1. KnownInv' /\ StartedOnce' /\ AllowedFirst' /\ TurnsAnswered'
    BY <1>1, Committed DEF CommitRefused
  <2>. QED
    BY <1>1, <2>1, SettleEnds, Ends, GoesOnNext DEF CommitRefused
<1>2. CASE CollectTurn
  <2>1. KnownInv' /\ StartedOnce' /\ AllowedFirst' /\ TurnsAnswered'
    BY <1>2, Committed DEF CollectTurn, Commit
  <2>2. \/ \E reason : End(reason)
        \/ NextStep
    BY <1>2, SettleEnds DEF CollectTurn
  <2>. QED
    BY <1>2, <2>1, <2>2, Ends, GoesOnNext DEF CollectTurn
<1>3. CASE CollectApproved
  <2>1. CASE Halting = {} /\ Commit(turn) /\ NextStep
    <3>1. KnownInv' /\ StartedOnce' /\ AllowedFirst' /\ TurnsAnswered'
      BY <1>3, <2>1, Committed DEF CollectApproved, Commit
    <3>. QED
      BY <1>3, <2>1, <3>1, GoesOnNext DEF CollectApproved
  <2>2. CASE \E h \in Halting : /\ Commit({c \in turn : c <= h \/ c \notin acting})
                               /\ End("tool_halt")
    <3>1. PICK h \in Halting : /\ Commit({c \in turn : c <= h \/ c \notin acting})
                              /\ End("tool_halt")
      BY <2>2
    <3>2. h \in turn /\ h <= h /\ result[h] = "halt"
      <4>1. h \in turn /\ h \in Calls
        BY <1>3 DEF Halting, LoopInv, ShapeInv, Executable, CollectApproved, TypeOK
      <4>. QED
        BY <4>1 DEF Halting, Calls
    <3>3. KnownInv' /\ StartedOnce' /\ AllowedFirst' /\ TurnsAnswered'
      <4>. DEFINE answered == {c \in turn : c <= h \/ c \notin acting}
      <4>1. h \in answered /\ Commit(answered)
        BY <3>1, <3>2
      <4>. HIDE DEF answered
      <4>. QED
        BY <1>3, <3>2, <4>1, Committed DEF CollectApproved, Commit
    <3>. QED
      BY <1>3, <3>1, <3>3, Ends DEF CollectApproved
  <2>. QED
    BY <1>3, <2>1, <2>2 DEF CollectApproved
<1>4. CASE CollectAnswered
  <2>1. KnownInv' /\ StartedOnce' /\ AllowedFirst' /\ TurnsAnswered'
    BY <1>4, Committed DEF CollectAnswered, Commit
  <2>. QED
    BY <1>4, <2>1, Ends, GoesOnNext DEF CollectAnswered
<1>. QED
  BY <1>1, <1>2, <1>3, <1>4

LEMMA SafeCaller ==
  ASSUME LoopInv, Start \/ Resume \/ Begin \/ Stop
  PROVE  SafeInv'
<1>1. CASE Start
  <2>1. resuming = "none" /\ acting = {}
    BY <1>1 DEF Start, Enter, LoopInv, ShapeInv
  <2>2. resuming' = "none" /\ acting' = {} /\ phase' = "start" /\ saved' = Nothing
    BY <1>1, <2>1 DEF Start, Enter
  <2>3. KnownInv' /\ StartedOnce' /\ AllowedFirst' /\ TurnsAnswered'
    BY <1>1, SameHistory DEF Start, Enter, calls
  <2>4. ShapeInv' /\ SavedInv' /\ TurnInv'
    BY <2>2 DEF ShapeInv, SavedInv, TurnInv, Waiting, Nothing
  <2>. QED
    BY <2>3, <2>4 DEF SafeInv
<1>2. CASE Resume
  <2>1. /\ phase = "idle" /\ acting = {} /\ saved.why # "none"
        /\ phase' = "start" /\ acting' = {} /\ saved' = Nothing /\ resuming' = saved.why
        /\ turn' = saved.turn /\ allowed' = allowed \cup {saved.call}
        /\ UNCHANGED <<kind, result, starts, history>>
    BY <1>2 DEF Resume, Enter, LoopInv, ShapeInv
  <2>2. /\ saved.why \in Pausing /\ kind[saved.call] = saved.why
        /\ Open(saved.turn) /\ Asking(saved.turn) = {saved.call}
    BY <2>1 DEF LoopInv, SavedInv, TypeOK
  <2>3. KnownInv' /\ StartedOnce' /\ AllowedFirst' /\ TurnsAnswered'
    BY <2>1, <2>2 DEF LoopInv, KnownInv, StartedOnce, AllowedFirst, TurnsAnswered, InHistory
  <2>4. SavedInv'
    BY <2>1 DEF SavedInv, Nothing
  <2>5. ShapeInv'
    BY <2>1 DEF ShapeInv
  <2>6. TurnInv'
    BY <2>1, <2>2 DEF TurnInv, Waiting, Open, Asking, InHistory
  <2>. QED
    BY <2>3, <2>4, <2>5, <2>6 DEF SafeInv
<1>3. CASE Begin
  <2>1. CASE End("llm_error")
    BY <1>3, <2>1, EndsUncommitted DEF Begin
  <2>2. CASE phase' = "head" /\ UNCHANGED <<resuming, batch>>
    <3>1. UNCHANGED <<resuming, turn, acting, kind, result, starts, allowed, saved, history>>
      BY <1>3, <2>2 DEF Begin, batch, calls, kept
    <3>2. KnownInv' /\ StartedOnce' /\ AllowedFirst' /\ TurnsAnswered'
      BY <1>3, SameHistory, KeptAll DEF Begin
    <3>3. ShapeInv' /\ SavedInv' /\ TurnInv'
      BY <1>3, <2>2, <3>1
      DEF Begin, LoopInv, ShapeInv, SavedInv, TurnInv, Waiting, Open, Asking, Executable, InHistory
    <3>. QED
      BY <3>2, <3>3 DEF SafeInv
  <2>. QED
    BY <1>3, <2>1, <2>2 DEF Begin
<1>4. CASE Stop
  <2>1. UNCHANGED <<phase, resuming, turn, acting, kind, result, starts, allowed, saved, history>>
    BY <1>4 DEF Stop, batch, calls, kept
  <2>2. KnownInv' /\ StartedOnce' /\ AllowedFirst' /\ TurnsAnswered'
    BY <1>4, SameHistory, KeptAll DEF Stop
  <2>3. ShapeInv' /\ SavedInv' /\ TurnInv'
    BY <2>1 DEF LoopInv, ShapeInv, SavedInv, TurnInv, Waiting, Open, Asking, Executable, InHistory
  <2>. QED
    BY <2>2, <2>3 DEF SafeInv
<1>. QED
  BY <1>1, <1>2, <1>3, <1>4

LEMMA SafeHead ==
  ASSUME LoopInv, TakeUp \/ AskLlm \/ Retry \/ Ready \/ CancelWins
  PROVE  SafeInv'
<1>1. UNCHANGED <<turn, kind, result, starts, allowed, saved, history>> /\ UNCHANGED calls
  BY DEF TakeUp, AskLlm, Retry, Ready, CancelWins, batch, calls, kept
<1>2. KnownInv' /\ StartedOnce' /\ AllowedFirst' /\ TurnsAnswered'
  BY <1>1, SameHistory
<1>3. CASE TakeUp
  BY <1>1, <1>2, <1>3
  DEF TakeUp, SafeInv, LoopInv, ShapeInv, SavedInv, TurnInv, Waiting, Open, Asking, Executable,
      InHistory
<1>4. CASE AskLlm
  BY <1>1, <1>2, <1>4
  DEF AskLlm, SafeInv, LoopInv, ShapeInv, SavedInv, TurnInv, Waiting, Open, batch
<1>5. CASE Retry
  BY <1>1, <1>2, <1>5
  DEF Retry, SafeInv, LoopInv, ShapeInv, SavedInv, TurnInv, Waiting, Open, batch
<1>6. CASE Ready
  BY <1>1, <1>2, <1>6
  DEF Ready, SafeInv, LoopInv, ShapeInv, SavedInv, TurnInv, Waiting, Open, Asking, Executable,
      InHistory
<1>7. CASE CancelWins
  BY <1>1, <1>2, <1>7
  DEF CancelWins, SafeInv, LoopInv, ShapeInv, SavedInv, TurnInv, Waiting, Open, Executable,
      InHistory, batch
<1>. QED
  BY <1>3, <1>4, <1>5, <1>6, <1>7

LEMMA SafeRespond ==
  ASSUME LoopInv, Respond
  PROVE  SafeInv'
<1>1. PICK T \in SUBSET Calls :
        /\ \A c \in T : kind[c] = "none"
        /\ turn' = T
        /\ \E k \in [T -> Kinds] :
             kind' = [c \in Calls |-> IF c \in T THEN k[c] ELSE kind[c]]
  BY DEF Respond, NewCalls
<1>2. /\ phase = "llm" /\ phase' = "check" /\ resuming = "none"
      /\ UNCHANGED <<resuming, acting, result, starts, allowed, saved, history>>
  BY DEF Respond, kept, LoopInv, ShapeInv
<1>3. \A c \in Calls : IF c \in T THEN kind'[c] \in Kinds ELSE kind'[c] = kind[c]
  BY <1>1
<1>4. \A c \in T : starts[c] = 0 /\ ~InHistory(c) /\ c \notin allowed
  BY <1>1 DEF LoopInv, KnownInv, TypeOK, Pausing
<1>5. KnownInv' /\ StartedOnce' /\ AllowedFirst' /\ TurnsAnswered'
  BY <1>2, <1>3, <1>4
  DEF LoopInv, KnownInv, StartedOnce, AllowedFirst, TurnsAnswered, InHistory, Kinds
<1>6. ShapeInv' /\ SavedInv'
  BY <1>2 DEF LoopInv, ShapeInv, SavedInv
<1>7. TurnInv'
  BY <1>1, <1>2, <1>3, <1>4 DEF TurnInv, Waiting, Open, Asking, InHistory, Kinds
<1>. QED
  BY <1>5, <1>6, <1>7 DEF SafeInv

LEMMA SafePause ==
  ASSUME LoopInv, Pause
  PROVE  SafeInv'
<1>. DEFINE T == UpToAsking(turn)
<1>1. PICK c \in Asking(T) :
        /\ End(IF kind[c] = "approval" THEN "hitl_paused" ELSE "interaction_paused")
        /\ saved' = IF end' = "audit_failure" THEN saved ELSE RunStateOf(T, c, kind[c])
  BY DEF Pause
<1>2. phase = "check" /\ UNCHANGED calls /\ UNCHANGED <<kind, starts, allowed, history>>
  BY DEF Pause, calls
<1>3. KnownInv' /\ StartedOnce' /\ AllowedFirst' /\ TurnsAnswered'
  BY <1>2, SameHistory DEF Pause
<1>4. CASE end' = "audit_failure"
  BY <1>1, <1>2, <1>3, <1>4, Ends
<1>5. CASE end' # "audit_failure"
  <2>1. /\ saved'.turn = T /\ saved'.call = c /\ saved'.why = kind[c]
        /\ kind[c] \in Pausing /\ c \in turn /\ T \subseteq turn
    BY <1>1, <1>5 DEF RunStateOf, Asking, UpToAsking
  <2>2. Asking(T) = {c}
    BY <1>1 DEF Asking, UpToAsking, Calls, LoopInv, TypeOK
  <2>3. Open(T) /\ c \notin allowed
    BY <1>2, <2>1 DEF LoopInv, TurnInv, Waiting, Open, Asking
  <2>4. phase' = "idle" /\ acting' = {} /\ resuming' = "none"
    BY <1>1 DEF End
  <2>5. SavedInv'
    <3>. HIDE DEF T
    <3>1. saved'.why # "none"
      BY <2>1 DEF Pausing
    <3>2. Open(saved.turn)'
      BY <1>2, <2>1, <2>3 DEF Open, InHistory
    <3>3. Asking(saved.turn)' = {c}
      BY <1>2, <2>1, <2>2 DEF Asking
    <3>. QED
      BY <1>2, <2>1, <2>3, <2>4, <3>1, <3>2, <3>3 DEF SavedInv
  <2>6. ShapeInv' /\ TurnInv'
    BY <2>4 DEF ShapeInv, TurnInv, Waiting
  <2>. QED
    BY <1>3, <2>5, <2>6 DEF SafeInv
<1>. QED
  BY <1>4, <1>5

LEMMA SafeExecuted ==
  ASSUME LoopInv, Execute \/ ToolReturns
  PROVE  SafeInv'
<1>1. CASE Execute
  <2>1. /\ phase = "ready" /\ phase' = "act"
        /\ UNCHANGED <<resuming, turn, acting, kind, result, allowed, saved, history>>
        /\ \A c \in Calls : starts'[c] = IF c \in acting THEN starts[c] + 1 ELSE starts[c]
    BY <1>1 DEF Execute, batch, kept
  <2>2. /\ acting = Executable(turn) /\ Open(turn) /\ Asking(turn) \subseteq allowed
        /\ turn \subseteq Calls
    BY <2>1 DEF LoopInv, ShapeInv, TurnInv, Waiting, TypeOK
  <2>3. \A c \in acting : c \in turn /\ starts[c] = 0 /\ kind[c] # "none"
    BY <2>2 DEF Executable, Open
  <2>4. KnownInv' /\ StartedOnce'
    BY <2>1, <2>3 DEF LoopInv, KnownInv, StartedOnce, InHistory, TypeOK
  <2>5. AllowedFirst'
    BY <2>1, <2>2, <2>3 DEF LoopInv, AllowedFirst, Asking
  <2>6. TurnsAnswered'
    BY <2>1 DEF LoopInv, TurnsAnswered
  <2>7. ShapeInv' /\ SavedInv'
    BY <2>1, <2>2 DEF LoopInv, ShapeInv, SavedInv, Executable
  <2>8. TurnInv'
    BY <2>1, <2>2, <2>3 DEF TurnInv, Waiting, Open, InHistory, LoopInv, ShapeInv
  <2>. QED
    BY <2>4, <2>5, <2>6, <2>7, <2>8 DEF SafeInv
<1>2. CASE ToolReturns
  <2>1. /\ UNCHANGED <<phase, resuming, turn, acting, kind, starts, allowed, saved, history>>
        /\ \A c \in Calls : result[c] = "halt" => result'[c] = "halt"
    BY <1>2 DEF ToolReturns, batch, kept, LoopInv, TypeOK
  <2>2. KnownInv' /\ StartedOnce' /\ AllowedFirst'
    BY <2>1 DEF LoopInv, KnownInv, StartedOnce, AllowedFirst, InHistory
  <2>3. TurnsAnswered'
    BY <2>1 DEF LoopInv, TurnsAnswered, TypeOK
  <2>4. ShapeInv' /\ SavedInv' /\ TurnInv'
    BY <2>1 DEF LoopInv, ShapeInv, SavedInv, TurnInv, Waiting, Open, Asking, Executable, InHistory
  <2>. QED
    BY <2>2, <2>3, <2>4 DEF SafeInv
<1>. QED
  BY <1>1, <1>2

LEMMA LoopStep ==
  ASSUME LoopInv, [Next]_vars
  PROVE  LoopInv'
<1>1. TypeOK'
  BY TypeStep DEF LoopInv
<1>2. CASE UNCHANGED vars
  <2>1. UNCHANGED <<phase, resuming, turn, acting, kind, result, starts, allowed, saved, history>>
    BY <1>2 DEF vars, batch, calls, kept
  <2>2. KnownInv' /\ StartedOnce' /\ AllowedFirst' /\ TurnsAnswered'
    BY <1>2, SameHistory DEF vars, kept
  <2>3. ShapeInv' /\ SavedInv' /\ TurnInv'
    BY <2>1 DEF LoopInv, ShapeInv, SavedInv, TurnInv, Waiting, Open, Asking, Executable, InHistory
  <2>. QED
    BY <1>1, <2>2, <2>3 DEF LoopInv
<1>3. CASE Next
  <2>1. SafeInv'
    BY <1>3, SafeOver, SafeCommits, SafeCaller, SafeHead, SafeRespond, SafePause, SafeExecuted
    DEF Next, Engine
  <2>. QED
    BY <1>1, <2>1 DEF SafeInv, LoopInv
<1>. QED
  BY <1>2, <1>3

LEMMA LoopInit ==
  ASSUME Init
  PROVE  LoopInv
<1>1. TypeOK
  <2>1. ControlTypes /\ BatchTypes
    <3>1. end \in Reasons /\ phase \in Phases
      BY DEF Init, Reasons, Phases
    <3>2. /\ {step, left, attempt, failures, denials} \subseteq Nat
          /\ {recent, warnings} \subseteq Nat
          /\ resuming \in {"none"} \cup Pausing
      BY DEF Init
    <3>3. BatchTypes
      BY DEF Init, BatchTypes
    <3>4. cancelled \in BOOLEAN
      BY DEF Init
    <3>. QED
      BY <3>1, <3>2, <3>3, <3>4 DEF ControlTypes
  <2>3. CountTypes /\ HistoryTypes
    BY DEF Init, CountTypes, HistoryTypes
  <2>2. CallTypes /\ SavedTypes
    BY DEF Init, CallTypes, SavedTypes, Nothing
  <2>. QED
    BY <2>1, <2>2, <2>3, Parts
<1>2. SafeInv
  BY DEF Init, SafeInv, ShapeInv, SavedInv, TurnInv, Waiting, KnownInv, StartedOnce, AllowedFirst,
     TurnsAnswered, InHistory, Nothing
<1>. QED
  BY <1>1, <1>2, Safe

\* In every reachable state.
LEMMA LoopAlways == Spec => []LoopInv
BY LoopInit, LoopStep, PTL DEF Spec

\* The state of a run, of the batch it executes, of the RunState and of the
\* memory keeps its types (_run_stream_core).
THEOREM TypeCorrect == Spec => []TypeOK
BY LoopAlways, PTL DEF LoopInv

\* No call that needs the user is executed before the user has allowed it,
\* however the run is paused, resumed, given up, stopped or failed.
THEOREM NothingIsExecutedUnasked == Spec => []AllowedFirst
BY LoopAlways, PTL DEF LoopInv

\* No call is executed twice.
THEOREM CallsAreStartedOnce == Spec => []StartedOnce
BY LoopAlways, PTL DEF LoopInv

\* Every turn in the memory has its results, and no call is in two turns.
THEOREM TurnsAreAnswered == Spec => []TurnsAnswered
BY LoopAlways, PTL DEF LoopInv

-----------------------------------------------------------------------------
(* The limits over the pauses of a run.  A resumed run has at least one    *)
(* step left, but that step asks nothing.                                  *)

NoQuestions == \A c \in allowed : kind[c] # "ask"

StepsInv ==
  /\ asked <= MaxSteps
  /\ phase # "idle" =>
       /\ asked <= step + (IF phase \in {"start", "head"} THEN 0 ELSE 1)
       /\ asked + left <= MaxSteps + (IF resuming = "none" THEN 0 ELSE 1)
  /\ saved.why # "none" => asked <= saved.step + 1

\* A question loses what the detector has counted, an approval keeps it.
WarnedInv ==
  NoQuestions =>
    /\ phase # "idle" => warned = warnings /\ warned < MaxWarnings
    /\ saved.why # "none" => warned < MaxWarnings
    /\ saved.why = "approval" => saved.warnings = warned

CutInv == StepsInv /\ WarnedInv

LEMMA CutIsEnough ==
  ASSUME LoopInv, CutInv
  PROVE  RunIsCutOff
<1>1. asked <= MaxSteps
  BY DEF CutInv, StepsInv
<1>2. ASSUME warned >= MaxWarnings, NoQuestions
      PROVE  phase = "idle" /\ saved = Nothing
  <2>1. ~(warned < MaxWarnings)
    BY <1>2, RunLoopAssumption DEF LoopInv, TypeOK, RunLoopAssumption
  <2>. QED
    BY <1>2, <2>1 DEF CutInv, WarnedInv, LoopInv, SavedInv
<1>. QED
  BY <1>1, <1>2 DEF RunIsCutOff, NoQuestions

\* The numbers that CutInv compares.
LEMMA Numbers ==
  ASSUME TypeOK
  PROVE  /\ step \in Nat /\ left \in Nat /\ asked \in Nat /\ warned \in Nat /\ warnings \in Nat
         /\ saved.step \in Nat /\ saved.warnings \in Nat /\ saved.why \in {"none"} \cup Pausing
         /\ MaxSteps \in Nat /\ MaxSteps > 0 /\ MaxWarnings \in Nat /\ MaxWarnings > 0
BY RunLoopAssumption DEF TypeOK, RunLoopAssumption

\* A run that is over has no limits to keep.
LEMMA CutEnds ==
  ASSUME LoopInv, CutInv, NEW reason, End(reason),
         asked' = asked, saved' = saved \/ saved' = Nothing,
         phase # "idle" \/ saved' = Nothing
  PROVE  CutInv'
<1>1. phase' = "idle" /\ saved' = Nothing
  BY DEF End, LoopInv, SavedInv
<1>. QED
  BY <1>1 DEF CutInv, StepsInv, WarnedInv, Nothing

LEMMA CutNext ==
  ASSUME LoopInv, CutInv, NextStep, phase \in {"llm", "check", "ready", "act", "grace"},
         UNCHANGED <<asked, saved, kind, allowed>>,
         warned = warnings => warned' = warnings',
         warned < MaxWarnings /\ warned = warnings => warned' < MaxWarnings
  PROVE  CutInv'
<1>1. phase' = "head" /\ step' = step + 1 /\ left' = left /\ resuming' = "none" /\ resuming = "none"
  BY DEF NextStep, LoopInv, ShapeInv
<1>2. saved.why = "none"
  BY DEF LoopInv, SavedInv
<1>3. asked <= step + 1 /\ asked + left <= MaxSteps /\ asked <= MaxSteps
  BY <1>1, Numbers DEF CutInv, StepsInv, LoopInv
<1>4. StepsInv'
  BY <1>1, <1>2, <1>3, Numbers DEF StepsInv, LoopInv
<1>5. WarnedInv'
  BY <1>1, <1>2 DEF CutInv, WarnedInv, NoQuestions
<1>. QED
  BY <1>4, <1>5 DEF CutInv

\* The steps that leave the counters alone and stay beyond the head of a step.
LEMMA CutStays ==
  ASSUME LoopInv, CutInv,
         UNCHANGED <<step, left, warnings, resuming, kind, allowed, saved, asked, warned>>,
         phase' = phase \/ {phase, phase'} \cap {"idle", "start", "head"} = {}
                        \/ (phase = "start" /\ phase' = "head")
  PROVE  CutInv'
BY DEF CutInv, StepsInv, WarnedInv, NoQuestions

LEMMA CutSettles ==
  ASSUME LoopInv, CutInv, NEW executed, Settle(executed), phase \in {"check", "act"},
         UNCHANGED <<calls, saved, asked>>
  PROVE  CutInv'
<1>1. PICK repeats \in BOOLEAN :
        LET corrected == IF repeats THEN warnings + 1 ELSE warnings
        IN /\ warned' = IF repeats THEN warned + 1 ELSE warned
           /\ \/ End("llm_loop_detected")
              \/ End("permission_exhausted")
              \/ /\ ~(repeats /\ corrected >= MaxWarnings)
                 /\ NextStep
                 /\ warnings' = corrected
  BY DEF Settle
<1>2. CASE End("llm_loop_detected") \/ End("permission_exhausted")
  BY <1>2, CutEnds
<1>3. CASE LET corrected == IF repeats THEN warnings + 1 ELSE warnings
           IN /\ ~(repeats /\ corrected >= MaxWarnings)
              /\ NextStep
              /\ warnings' = corrected
  <2>1. warned = warnings => warned' = warnings'
    BY <1>1, <1>3, Numbers DEF LoopInv
  <2>2. warned < MaxWarnings /\ warned = warnings => warned' < MaxWarnings
    BY <1>1, <1>3, Numbers DEF LoopInv
  <2>. QED
    BY <1>3, <2>1, <2>2, CutNext DEF calls
<1>. QED
  BY <1>1, <1>2, <1>3

LEMMA CutStep ==
  ASSUME LoopInv, CutInv, [Next]_vars
  PROVE  CutInv'
<1>1. CASE UNCHANGED vars
  BY <1>1, CutStays DEF vars, counters, detector, batch, calls, kept
<1>2. CASE HeadEnds \/ LlmEnds \/ GraceEnds \/ StepTimeout \/ AuditFailure \/ Reject \/ Pause
  <2>1. CASE Pause
    <3>1. PICK c \in Asking(UpToAsking(turn)) :
            /\ End(IF kind[c] = "approval" THEN "hitl_paused" ELSE "interaction_paused")
            /\ saved' = IF end' = "audit_failure" THEN saved
                        ELSE RunStateOf(UpToAsking(turn), c, kind[c])
      BY <2>1 DEF Pause
    <3>2. CASE saved' = saved
      BY <2>1, <3>1, <3>2, CutEnds DEF Pause
    <3>3. CASE saved' = RunStateOf(UpToAsking(turn), c, kind[c])
      <4>1. /\ saved'.step = step /\ saved'.why = kind[c]
            /\ kind[c] = "approval" => saved'.warnings = warnings
        BY <3>3 DEF RunStateOf
      <4>2. phase' = "idle" /\ UNCHANGED <<kind, allowed, asked, warned>> /\ phase = "check"
        BY <2>1, <3>1 DEF Pause, End, calls
      <4>. QED
        BY <4>1, <4>2, Numbers DEF CutInv, StepsInv, WarnedInv, NoQuestions, LoopInv
    <3>. QED
      BY <3>1, <3>2, <3>3
  <2>2. CASE Reject
    BY <2>2, CutEnds DEF Reject
  <2>. QED
    BY <1>2, <2>1, <2>2, CutEnds
    DEF HeadEnds, LlmEnds, GraceEnds, StepTimeout, TimesOut, AuditFailure, kept
<1>3. CASE Start
  <2>1. /\ phase' = "start" /\ step' = 0 /\ left' = MaxSteps /\ asked' = 0 /\ warned' = 0
        /\ warnings' = 0 /\ saved' = Nothing /\ resuming' = "none"
    BY <1>3 DEF Start, Enter, LoopInv, ShapeInv
  <2>. QED
    BY <2>1, Numbers DEF CutInv, StepsInv, WarnedInv, Nothing, LoopInv
<1>4. CASE Resume
  <2>1. /\ saved.why # "none" /\ phase' = "start" /\ step' = saved.step + 1
        /\ left' = StepsLeft(saved.step + 1) /\ warnings' = saved.warnings
        /\ saved' = Nothing /\ resuming' = saved.why /\ UNCHANGED <<kind, asked, warned>>
        /\ allowed' = allowed \cup {saved.call}
    BY <1>4 DEF Resume, Enter
  <2>2. /\ kind[saved.call] = saved.why
        /\ asked <= saved.step + 1 /\ asked <= MaxSteps
    BY <2>1 DEF LoopInv, SavedInv, CutInv, StepsInv
  <2>3. StepsInv'
    BY <2>1, <2>2, Numbers DEF StepsInv, StepsLeft, LoopInv, Nothing
  <2>4. WarnedInv'
    <3>1. NoQuestions' => NoQuestions /\ saved.why = "approval"
      BY <2>1, <2>2, Numbers DEF NoQuestions, LoopInv, Pausing
    <3>. QED
      BY <2>1, <3>1 DEF CutInv, WarnedInv, Nothing
  <2>. QED
    BY <2>3, <2>4 DEF CutInv
<1>5. CASE Begin
  BY <1>5, CutEnds, CutStays DEF Begin, counters, detector, calls, kept
<1>6. CASE TakeUp
  <2>1. /\ phase = "head" /\ phase' = "ready" /\ left > 0 /\ left' = left - 1 /\ resuming' = "none"
        /\ resuming # "none" /\ UNCHANGED <<step, warnings, kind, allowed, saved, asked, warned>>
    BY <1>6 DEF TakeUp, GoesOn, detector, calls, kept
  <2>2. StepsInv'
    BY <2>1, Numbers DEF CutInv, StepsInv, LoopInv
  <2>3. WarnedInv'
    BY <2>1 DEF CutInv, WarnedInv, NoQuestions
  <2>. QED
    BY <2>2, <2>3 DEF CutInv
<1>7. CASE AskLlm
  <2>1. /\ phase = "head" /\ phase' = "llm" /\ left > 0 /\ left' = left - 1 /\ asked' = asked + 1
        /\ resuming = "none"
        /\ UNCHANGED <<step, warnings, resuming, kind, allowed, saved, warned>>
    BY <1>7 DEF AskLlm, GoesOn, detector, calls
  <2>2. saved.why = "none"
    BY <2>1 DEF LoopInv, SavedInv
  <2>3. StepsInv'
    BY <2>1, <2>2, Numbers DEF CutInv, StepsInv, LoopInv
  <2>4. WarnedInv'
    BY <2>1, <2>2 DEF CutInv, WarnedInv, NoQuestions
  <2>. QED
    BY <2>3, <2>4 DEF CutInv
<1>8. CASE Respond
  <2>1. PICK T \in SUBSET Calls :
          /\ \A c \in T : kind[c] = "none"
          /\ \E k \in [T -> Kinds] :
               kind' = [c \in Calls |-> IF c \in T THEN k[c] ELSE kind[c]]
    BY <1>8 DEF Respond, NewCalls
  <2>2. /\ phase = "llm" /\ phase' = "check"
        /\ UNCHANGED <<step, left, warnings, resuming, allowed, saved, asked, warned>>
    BY <1>8 DEF Respond, detector, kept
  <2>3. NoQuestions' <=> NoQuestions
    <3>1. \A c \in allowed : c \in Calls /\ kind[c] # "none"
      BY DEF LoopInv, KnownInv, TypeOK, Pausing
    <3>. QED
      BY <2>1, <2>2, <3>1 DEF NoQuestions
  <2>. QED
    BY <2>2, <2>3 DEF CutInv, StepsInv, WarnedInv
<1>9. CASE Stop \/ Retry \/ Ready \/ Execute \/ ToolReturns \/ CancelWins
  BY <1>9, CutStays
  DEF Stop, Retry, Ready, Execute, ToolReturns, CancelWins, counters, detector, calls, kept
<1>10. CASE CommitRefused
  BY <1>10, CutSettles DEF CommitRefused
<1>11. CASE CollectTurn \/ CollectApproved \/ CollectAnswered
  <2>1. phase = "act" /\ UNCHANGED <<calls, kind, allowed, saved, asked>>
    BY <1>11 DEF CollectTurn, CollectApproved, CollectAnswered, calls
  <2>2. CASE Settle(acting)
    BY <2>1, <2>2, CutSettles
  <2>3. CASE \E reason : End(reason)
    BY <2>1, <2>3, CutEnds
  <2>4. CASE NextStep /\ UNCHANGED <<warned, warnings>>
    BY <2>1, <2>4, CutNext
  <2>. QED
    BY <1>11, <2>2, <2>3, <2>4 DEF CollectTurn, CollectApproved, CollectAnswered, detector
<1>12. CASE StepFails
  <2>1. CASE End("circuit_breaker")
    BY <1>12, <2>1, CutEnds DEF StepFails, kept
  <2>2. CASE NextStep /\ UNCHANGED detector
    BY <1>12, <2>2, CutNext DEF StepFails, kept, calls, detector
  <2>. QED
    BY <1>12, <2>1, <2>2 DEF StepFails
<1>. QED
  BY <1>1, <1>2, <1>3, <1>4, <1>5, <1>6, <1>7, <1>8, <1>9, <1>10, <1>11, <1>12 DEF Next, Engine

LEMMA CutInit ==
  ASSUME Init
  PROVE  CutInv
BY RunLoopAssumption DEF Init, CutInv, StepsInv, WarnedInv, Nothing, RunLoopAssumption

\* However often a run is paused, its LLM steps stay within max_steps, and the
\* loop detector ends it, unless a question has made it forget.
THEOREM RunsAreCutOff == Spec => []RunIsCutOff
<1>1. LoopInv /\ CutInv /\ [Next]_vars => CutInv'
  BY CutStep
<1>2. LoopInv /\ CutInv => RunIsCutOff
  BY CutIsEnough
<1>. QED
  BY <1>1, <1>2, LoopAlways, CutInit, PTL DEF Spec

-----------------------------------------------------------------------------
(* The refinement: each step of the loop is a step of CallLifecycle or     *)
(* changes no call.                                                        *)

\* Only calls of its turn have a result in a turn.
AnsweredInv == \A t \in history : t.answered \subseteq t.calls

\* A turn is committed with results of its own calls.
LEMMA CommitsTurn ==
  ASSUME CommitRefused \/ CollectTurn \/ CollectApproved \/ CollectAnswered
  PROVE  \E answered \in SUBSET turn : \E source :
           history' = history \cup {[calls |-> turn, answered |-> answered, by |-> source]}
<1>1. CASE CommitRefused
  BY <1>1 DEF CommitRefused
<1>2. CASE CollectTurn
  BY <1>2 DEF CollectTurn, Commit
<1>3. CASE CollectAnswered
  BY <1>3 DEF CollectAnswered, Commit
<1>4. CASE CollectApproved
  <2>1. PICK answered \in SUBSET turn : Commit(answered)
    BY <1>4 DEF CollectApproved
  <2>. QED
    BY <2>1 DEF Commit
<1>. QED
  BY <1>1, <1>2, <1>3, <1>4

LEMMA AnsweredStep ==
  ASSUME AnsweredInv, [Next]_vars
  PROVE  AnsweredInv'
<1>1. CASE UNCHANGED history
  BY <1>1 DEF AnsweredInv
<1>2. CASE CommitRefused \/ CollectTurn \/ CollectApproved \/ CollectAnswered
  BY <1>2, CommitsTurn DEF AnsweredInv
<1>. QED
  BY <1>1, <1>2
  DEF Next, Engine, vars, kept, Start, Resume, Enter, Reject, Stop, Begin, HeadEnds, TakeUp, AskLlm,
      Retry, LlmEnds, Respond, Pause, Ready, Execute, ToolReturns, CancelWins, GraceEnds, StepTimeout,
      StepFails, AuditFailure

LEMMA AnsweredKnown ==
  ASSUME AnsweredInv, NEW c
  PROVE  ~InHistory(c) => c \notin Answered
BY DEF AnsweredInv, Answered, InHistory

LEMMA AtStage ==
  ASSUME NEW stage
  PROVE  Lifecycle!At(stage) = {c \in Calls : Stage(c) = stage}
BY DEF Lifecycle!At

LifecycleStep == [Lifecycle!Next]_<<[c \in Calls |-> Stage(c)], Asking(Calls)>>

\* Nothing that CallLifecycle shows has changed.
LEMMA Stutters ==
  ASSUME UNCHANGED <<kind, starts, allowed, history>>,
         \A c \in Calls : starts[c] > 0 => (c \in acting <=> c \in acting')
  PROVE  LifecycleStep
<1>1. Answered' = Answered
  BY DEF Answered
<1>2. \A c \in Calls : Stage(c)' = Stage(c)
  BY <1>1 DEF Stage
<1>3. Asking(Calls)' = Asking(Calls)
  BY DEF Asking
<1>. QED
  BY <1>2, <1>3 DEF LifecycleStep

\* The turn is over and its executions are gone; some of its calls have a result.
LEMMA OverIsClose ==
  ASSUME LoopInv, AnsweredInv, NEW answered \in SUBSET turn, acting' = {}, UNCHANGED calls,
         Answered' = Answered \cup answered,
         \/ answered = {}
         \/ phase = "act"
         \/ phase = "check" /\ Executable(turn) = {}
  PROVE  LifecycleStep
<1>. DEFINE A == answered
<1>. DEFINE D == {c \in Calls : Stage(c) = "running"} \ A
<1>1. UNCHANGED <<kind, starts, allowed>>
  BY DEF calls
<1>2. Asking(Calls)' = Asking(Calls)
  BY <1>1 DEF Asking
<1>3. ASSUME NEW c \in A
      PROVE  c \in Calls /\ (Stage(c) = "running" \/ (Stage(c) = "proposed" /\ c \notin Asking(Calls)))
  <2>1. c \in Calls /\ c \in turn /\ starts[c] \in Nat
    BY DEF LoopInv, TypeOK
  <2>2. c \notin Answered /\ kind[c] # "none"
    BY <2>1, AnsweredKnown DEF LoopInv, TurnInv, Waiting, Open
  <2>3. CASE phase = "act" /\ c \in acting
    BY <2>1, <2>2, <2>3 DEF LoopInv, TurnInv, Stage
  <2>4. CASE phase \in {"act", "check"} /\ kind[c] = "refused" /\ starts[c] = 0
    BY <2>1, <2>2, <2>4 DEF LoopInv, KnownInv, Stage, Asking, Pausing
  <2>5. CASE phase = "act" /\ c \notin acting
    BY <2>1, <2>4, <2>5 DEF LoopInv, ShapeInv, TurnInv, Executable
  <2>6. CASE phase = "check" /\ Executable(turn) = {}
    BY <2>1, <2>4, <2>6 DEF LoopInv, TurnInv, Waiting, Open, Executable
  <2>. QED
    BY <2>3, <2>5, <2>6
<1>4. ASSUME NEW c \in Calls
      PROVE  Stage(c)' = IF c \in A THEN "answered" ELSE IF c \in D THEN "dropped" ELSE Stage(c)
  BY <1>1 DEF Stage
<1>5. A \in SUBSET (Lifecycle!At("running") \cup (Lifecycle!At("proposed") \ Asking(Calls)))
  BY <1>3, AtStage
<1>6. D \in SUBSET (Lifecycle!At("running") \ A)
  BY AtStage
<1>. HIDE DEF A, D
<1>7. [c \in Calls |-> Stage(c)]' =
        [c \in Calls |-> IF c \in A THEN "answered"
                         ELSE IF c \in D THEN "dropped" ELSE [d \in Calls |-> Stage(d)][c]]
  BY <1>4
<1>8. Lifecycle!Close
  BY <1>2, <1>5, <1>6, <1>7 DEF Lifecycle!Close
<1>. QED
  BY <1>8 DEF LifecycleStep, Lifecycle!Next

LEMMA OverUncommitted ==
  ASSUME LoopInv, AnsweredInv, acting' = {}, UNCHANGED <<calls, history>>
  PROVE  LifecycleStep
<1>1. {} \in SUBSET turn /\ Answered' = Answered \cup {}
  BY DEF Answered
<1>. QED
  BY <1>1, OverIsClose

LEMMA CommitIsClose ==
  ASSUME LoopInv, AnsweredInv, CommitRefused \/ CollectTurn \/ CollectApproved \/ CollectAnswered
  PROVE  LifecycleStep
<1>0. PICK answered \in SUBSET turn : \E source :
        history' = history \cup {[calls |-> turn, answered |-> answered, by |-> source]}
  BY CommitsTurn
<1>1. PICK source :
        history' = history \cup {[calls |-> turn, answered |-> answered, by |-> source]}
  BY <1>0
<1>2. Answered' = Answered \cup answered
  <2>. DEFINE new == [calls |-> turn, answered |-> answered, by |-> source]
  <2>1. history' = history \cup {new} /\ new.answered = answered
    BY <1>1
  <2>. HIDE DEF new
  <2>2. \A c : c \in UNION {t.answered : t \in history \cup {new}}
               <=> c \in UNION {t.answered : t \in history} \/ c \in new.answered
    OBVIOUS
  <2>. QED
    BY <2>1, <2>2 DEF Answered
<1>3. acting' = {} /\ UNCHANGED calls
  BY SettleEnds DEF CommitRefused, CollectTurn, CollectApproved, CollectAnswered, End, NextStep
<1>4. phase = "act" \/ (phase = "check" /\ Executable(turn) = {})
  BY DEF CommitRefused, CollectTurn, CollectApproved, CollectAnswered
<1>. QED
  BY <1>1, <1>2, <1>3, <1>4, OverIsClose

LEMMA RespondIsPropose ==
  ASSUME LoopInv, AnsweredInv, Respond
  PROVE  LifecycleStep
<1>1. PICK T \in SUBSET Calls :
        /\ \A c \in T : kind[c] = "none"
        /\ \E k \in [T -> Kinds] :
             kind' = [c \in Calls |-> IF c \in T THEN k[c] ELSE kind[c]]
  BY DEF Respond, NewCalls
<1>2. UNCHANGED <<acting, starts, allowed, history>>
  BY DEF Respond, kept
<1>3. \A c \in Calls : IF c \in T THEN kind'[c] \in Kinds ELSE kind'[c] = kind[c]
  BY <1>1
<1>4. \A c \in T : starts[c] = 0 /\ c \notin Answered /\ c \notin allowed
  BY <1>1, AnsweredKnown DEF LoopInv, KnownInv, TypeOK, Pausing
<1>5. Answered' = Answered
  BY <1>2 DEF Answered
<1>6. \A c \in T : Stage(c) = "unknown"
  BY <1>1, <1>4 DEF Stage
<1>7. \A c \in Calls : Stage(c)' = IF c \in T THEN "proposed" ELSE Stage(c)
  BY <1>2, <1>3, <1>4, <1>5 DEF Stage, Kinds
<1>8. T \in SUBSET Lifecycle!At("unknown")
  BY <1>6, AtStage
<1>9. [c \in Calls |-> Stage(c)]' = Lifecycle!Moved(T, "proposed")
  BY <1>7 DEF Lifecycle!Moved
<1>10. \E U \in SUBSET T : Asking(Calls)' = Asking(Calls) \cup U
  <2>1. Asking(Calls)' = Asking(Calls) \cup {c \in T : kind'[c] \in Pausing}
    BY <1>1, <1>3 DEF Asking, Pausing
  <2>. QED
    BY <2>1
<1>11. Lifecycle!Propose
  BY <1>8, <1>9, <1>10 DEF Lifecycle!Propose
<1>. QED
  BY <1>11 DEF LifecycleStep, Lifecycle!Next

LEMMA ResumeIsAllow ==
  ASSUME LoopInv, AnsweredInv, Resume
  PROVE  LifecycleStep
<1>. DEFINE call == saved.call
<1>1. /\ acting' = acting /\ allowed' = allowed \cup {call} /\ UNCHANGED <<kind, starts, history>>
  BY DEF Resume, Enter
<1>2. /\ call \in Asking(saved.turn) /\ Open(saved.turn) /\ call \notin allowed
  BY DEF Resume, LoopInv, SavedInv
<1>3. /\ call \in Calls /\ call \in Asking(Calls) /\ starts[call] = 0
      /\ call \notin Answered /\ kind[call] # "none"
  BY <1>2, AnsweredKnown DEF Asking, Open, LoopInv, TypeOK
<1>4. Answered' = Answered /\ Asking(Calls)' = Asking(Calls)
  BY <1>1 DEF Answered, Asking
<1>. HIDE DEF call
<1>5. \A c \in Calls : Stage(c)' = IF c \in {call} THEN "allowed" ELSE Stage(c)
  BY <1>1, <1>2, <1>3, <1>4 DEF Stage
<1>6. call \in Lifecycle!At("proposed") \cap Asking(Calls)
  BY <1>2, <1>3, AtStage DEF Stage
<1>7. [c \in Calls |-> Stage(c)]' = Lifecycle!Moved({call}, "allowed")
  BY <1>5 DEF Lifecycle!Moved
<1>8. Lifecycle!Allow
  BY <1>4, <1>6, <1>7 DEF Lifecycle!Allow
<1>. QED
  BY <1>8 DEF LifecycleStep, Lifecycle!Next

LEMMA ExecuteIsStart ==
  ASSUME LoopInv, AnsweredInv, Execute
  PROVE  LifecycleStep
<1>1. /\ UNCHANGED <<acting, kind, allowed, history>>
      /\ \A c \in Calls : starts'[c] = IF c \in acting THEN starts[c] + 1 ELSE starts[c]
  BY DEF Execute, batch, kept
<1>2. /\ acting = Executable(turn) /\ Open(turn) /\ Asking(turn) \subseteq allowed
      /\ acting \subseteq Calls
  BY DEF Execute, LoopInv, ShapeInv, TurnInv, Waiting, TypeOK
<1>3. \A c \in acting : /\ c \in turn /\ starts[c] = 0 /\ c \notin Answered /\ kind[c] # "none"
                        /\ kind[c] \in Pausing => c \in allowed
  BY <1>2, AnsweredKnown DEF Executable, Open, Asking
<1>4. Answered' = Answered /\ Asking(Calls)' = Asking(Calls)
  BY <1>1 DEF Answered, Asking
<1>5. \A c \in Calls : Stage(c)' = IF c \in acting THEN "running" ELSE Stage(c)
  BY <1>1, <1>2, <1>3, <1>4 DEF Stage
<1>6. acting \in SUBSET (Lifecycle!At("allowed") \cup (Lifecycle!At("proposed") \ Asking(Calls)))
  <2>1. ASSUME NEW c \in acting
        PROVE  Stage(c) = "allowed" \/ (Stage(c) = "proposed" /\ c \notin Asking(Calls))
    BY <1>3 DEF Stage, Asking
  <2>. QED
    BY <1>2, <2>1, AtStage
<1>7. [c \in Calls |-> Stage(c)]' = Lifecycle!Moved(acting, "running")
  BY <1>5 DEF Lifecycle!Moved
<1>8. Lifecycle!Start
  BY <1>4, <1>6, <1>7 DEF Lifecycle!Start
<1>. QED
  BY <1>8 DEF LifecycleStep, Lifecycle!Next

LEMMA StepRefines ==
  ASSUME LoopInv, AnsweredInv, [Next]_vars
  PROVE  LifecycleStep
<1>1. CASE UNCHANGED vars
  BY <1>1, Stutters DEF vars, batch, calls, kept
<1>2. CASE HeadEnds \/ LlmEnds \/ GraceEnds \/ StepTimeout \/ AuditFailure \/ Reject
  BY <1>2, OverUncommitted
  DEF HeadEnds, LlmEnds, GraceEnds, StepTimeout, AuditFailure, Reject, End, kept
<1>3. CASE Pause \/ StepFails
  BY <1>3, OverUncommitted DEF Pause, StepFails, End, NextStep, kept
<1>4. CASE Begin
  <2>1. CASE End("llm_error")
    BY <1>4, <2>1, OverUncommitted DEF Begin, End, kept
  <2>2. CASE UNCHANGED batch
    BY <1>4, <2>2, Stutters DEF Begin, batch, calls, kept
  <2>. QED
    BY <1>4, <2>1, <2>2 DEF Begin
<1>5. CASE Start \/ Stop \/ AskLlm \/ Retry \/ ToolReturns \/ CancelWins
  BY <1>5, Stutters DEF Start, Enter, Stop, AskLlm, Retry, ToolReturns, CancelWins, batch, calls, kept
<1>6. CASE TakeUp \/ Ready
  <2>1. /\ UNCHANGED <<kind, starts, allowed, history>> /\ acting = {} /\ acting' \subseteq turn
        /\ Open(turn)
    BY <1>6 DEF TakeUp, Ready, calls, kept, LoopInv, ShapeInv, TurnInv, Waiting, Executable
  <2>. QED
    BY <2>1, Stutters DEF Open
<1>. QED
  BY <1>1, <1>2, <1>3, <1>4, <1>5, <1>6, CommitIsClose, RespondIsPropose, ResumeIsAllow, ExecuteIsStart
  DEF Next, Engine

LEMMA InitRefines ==
  ASSUME Init
  PROVE  Lifecycle!Init /\ AnsweredInv
<1>1. Answered = {} /\ AnsweredInv
  BY DEF Init, Answered, AnsweredInv
<1>2. \A c \in Calls : Stage(c) = "unknown" /\ kind[c] = "none"
  BY <1>1 DEF Init, Stage
<1>3. Asking(Calls) = {}
  BY <1>2 DEF Asking, Pausing
<1>. QED
  BY <1>1, <1>2, <1>3 DEF Lifecycle!Init

\* The loop keeps the promise CallLifecycle makes about each call: allowed before it
\* is executed, executed once, answered once, and dropped for good when interrupted.
THEOREM LoopImplementsLifecycle == Spec => ImplementsLifecycle
<1>1. LoopInv /\ AnsweredInv /\ [Next]_vars
        => [Lifecycle!Next]_<<[c \in Calls |-> Stage(c)], Asking(Calls)>>
  BY StepRefines DEF LifecycleStep
<1>2. AnsweredInv /\ [Next]_vars => AnsweredInv'
  BY AnsweredStep
<1>. QED
  BY <1>1, <1>2, InitRefines, LoopAlways, PTL DEF Spec, ImplementsLifecycle, Lifecycle!Spec

-----------------------------------------------------------------------------
(* A run that is scheduled comes to its end: each of its steps leaves less *)
(* to do, in the lexicographic order of the steps the for loop has to go,  *)
(* the phase within the step, and what can still happen in that phase.     *)

AttemptInv == attempt < MaxAttempts

Unreturned == {c \in acting : result[c] = "none"}

Rank ==
  CASE phase = "start" -> 6
    [] phase = "llm"   -> 5
    [] phase = "check" -> 4
    [] phase = "ready" -> 3
    [] phase = "act"   -> 2
    [] phase = "grace" -> 1
    [] OTHER           -> 0

\* LLM attempts to repeat, tools that have not returned, a stop not yet made.
Events ==
  (MaxAttempts - attempt) + Cardinality(Unreturned) + (IF cancelled THEN 0 ELSE 1)

ToDo == <<left, <<Rank, Events>>>>
ToDoNatural == ToDo \in Nat \X (Nat \X Nat)

Below == OpToRel(<, Nat)
Less == LexPairOrdering(Below, LexPairOrdering(Below, Below, Nat, Nat), Nat, Nat \X Nat)

\* Of a run that goes on, less is left to do.
RunNearsItsEnd == phase # "idle" => phase' = "idle" \/ <<ToDo', ToDo>> \in Less

Nearer ==
  \/ left' < left
  \/ left' = left /\ Rank' < Rank
  \/ left' = left /\ Rank' = Rank /\ Events' < Events

\* There is no infinite descent, so no run has infinitely many steps.
LEMMA LessIsWellFounded == IsWellFoundedOn(Less, Nat \X (Nat \X Nat))
<1>1. IsWellFoundedOn(Below, Nat)
  BY NatLessThanWellFounded DEF Below
<1>. QED
  BY <1>1, WFLexPairOrdering DEF Less

LEMMA UnreturnedFinite ==
  ASSUME TypeOK
  PROVE  IsFiniteSet(Unreturned) /\ Cardinality(Unreturned) \in Nat
<1>1. IsFiniteSet(Calls)
  BY RunLoopAssumption, FS_Interval DEF Calls, RunLoopAssumption
<1>. QED
  BY <1>1, FS_Subset, FS_CardinalityType DEF Unreturned, TypeOK

LEMMA ToDoIsNatural ==
  ASSUME TypeOK, AttemptInv
  PROVE  ToDoNatural
<1>1. left \in Nat /\ Rank \in Nat
  BY DEF TypeOK, Rank
<1>2. Events \in Nat
  BY UnreturnedFinite, RunLoopAssumption DEF Events, TypeOK, AttemptInv, RunLoopAssumption
<1>. QED
  BY <1>1, <1>2 DEF ToDoNatural, ToDo

LEMMA NearerIsLess ==
  ASSUME ToDoNatural, ToDoNatural', Nearer
  PROVE  <<ToDo', ToDo>> \in Less
<1>1. /\ left \in Nat /\ Rank \in Nat /\ Events \in Nat
      /\ left' \in Nat /\ Rank' \in Nat /\ Events' \in Nat
  BY DEF ToDoNatural, ToDo
<1>2. ASSUME NEW m \in Nat, NEW n \in Nat
      PROVE  <<m, n>> \in Below <=> m < n
  BY DEF Below, OpToRel
<1>3. \/ <<left', left>> \in Below
      \/ left' = left /\ <<Rank', Rank>> \in Below
      \/ left' = left /\ Rank' = Rank /\ <<Events', Events>> \in Below
  BY <1>1, <1>2 DEF Nearer
<1>. QED
  BY <1>1, <1>3 DEF Less, LexPairOrdering, ToDo

LEMMA AttemptStep ==
  ASSUME TypeOK, AttemptInv, [Next]_vars
  PROVE  AttemptInv'
<1>1. 0 < MaxAttempts
  BY RunLoopAssumption DEF RunLoopAssumption
<1>2. attempt' \in {0, attempt} \/ (attempt + 1 < MaxAttempts /\ attempt' = attempt + 1)
  <2>1. CASE UNCHANGED vars
    BY <2>1 DEF vars, counters
  <2>2. CASE Start \/ Resume
    BY <2>2 DEF Start, Resume, Enter
  <2>3. CASE (\E reason : End(reason)) \/ NextStep
    BY <2>3 DEF End, NextStep
  <2>4. CASE Stop \/ Retry \/ Respond \/ TakeUp \/ AskLlm \/ Ready \/ Execute \/ ToolReturns
             \/ CancelWins
    BY <2>4 DEF Stop, Retry, Respond, TakeUp, AskLlm, Ready, Execute, ToolReturns, CancelWins,
       counters
  <2>5. CASE Begin
    BY <2>3, <2>5 DEF Begin, counters
  <2>6. CASE Reject \/ HeadEnds \/ LlmEnds \/ Pause \/ GraceEnds \/ StepTimeout \/ AuditFailure
             \/ StepFails
    BY <2>3, <2>6 DEF Reject, HeadEnds, LlmEnds, Pause, GraceEnds, StepTimeout, AuditFailure, StepFails
  <2>7. CASE CommitRefused \/ CollectTurn \/ CollectApproved \/ CollectAnswered
    BY <2>3, <2>7, SettleEnds DEF CommitRefused, CollectTurn, CollectApproved, CollectAnswered
  <2>. QED
    BY <2>1, <2>2, <2>4, <2>5, <2>6, <2>7 DEF Next, Engine
<1>. QED
  BY <1>1, <1>2 DEF AttemptInv

\* Actions that end a step of the loop or the run.
LEMMA NextStepIsNearer ==
  ASSUME TypeOK, phase \in {"llm", "check", "ready", "act", "grace"}, NextStep
  PROVE  Nearer
BY DEF NextStep, Nearer, Rank, TypeOK

LEMMA StepIsNearer ==
  ASSUME TypeOK, phase # "idle", phase' # "idle", Next
  PROVE  Nearer
<1>1. CASE Begin \/ HeadEnds \/ TakeUp \/ AskLlm \/ LlmEnds \/ Respond \/ Pause \/ Ready
           \/ Execute \/ CancelWins \/ GraceEnds \/ StepTimeout \/ AuditFailure
  <2>1. \/ left' = left /\ phase = "start" /\ phase' = "head"
        \/ left' = left - 1 /\ left > 0
        \/ left' = left /\ phase = "llm" /\ phase' = "check"
        \/ left' = left /\ phase = "check" /\ phase' = "ready"
        \/ left' = left /\ phase = "ready" /\ phase' = "act"
        \/ left' = left /\ phase = "act" /\ phase' = "grace"
    BY <1>1
    DEF Begin, HeadEnds, TakeUp, AskLlm, LlmEnds, Respond, Pause, Ready, Execute, CancelWins,
        GraceEnds, StepTimeout, AuditFailure, End, GoesOn, counters
  <2>. QED
    BY <2>1 DEF Nearer, Rank, TypeOK
<1>2. CASE Retry
  <2>1. /\ attempt' = attempt + 1
        /\ UNCHANGED <<phase, left, cancelled, acting, result>>
    BY <1>2 DEF Retry, batch, calls
  <2>2. UNCHANGED <<Rank, Unreturned>>
    BY <2>1 DEF Rank, Unreturned
  <2>. QED
    BY <2>1, <2>2, UnreturnedFinite, RunLoopAssumption
    DEF Nearer, Events, TypeOK, RunLoopAssumption
<1>3. CASE Stop
  <2>1. /\ ~cancelled /\ cancelled'
        /\ UNCHANGED <<phase, left, attempt, acting, result>>
    BY <1>3 DEF Stop, counters, batch, calls
  <2>2. UNCHANGED <<Rank, Unreturned>>
    BY <2>1 DEF Rank, Unreturned
  <2>. QED
    BY <2>1, <2>2, UnreturnedFinite, RunLoopAssumption
    DEF Nearer, Events, TypeOK, RunLoopAssumption
<1>4. CASE ToolReturns
  <2>1. PICK c \in acting :
          /\ result[c] = "none"
          /\ \E r \in {"ok", "halt"} : result' = [result EXCEPT ![c] = r]
    BY <1>4 DEF ToolReturns
  <2>2. UNCHANGED <<phase, left, attempt, cancelled, acting>>
    BY <1>4 DEF ToolReturns, counters, batch
  <2>3. c \in Unreturned /\ Unreturned' = Unreturned \ {c}
    BY <2>1, <2>2 DEF Unreturned, TypeOK
  <2>4. Cardinality(Unreturned') = Cardinality(Unreturned) - 1
    BY <2>3, UnreturnedFinite, FS_RemoveElement
  <2>5. Rank' = Rank
    BY <2>2 DEF Rank
  <2>. QED
    BY <2>2, <2>4, <2>5, UnreturnedFinite, RunLoopAssumption
    DEF Nearer, Events, TypeOK, RunLoopAssumption
<1>5. CASE CommitRefused \/ CollectTurn \/ CollectApproved \/ CollectAnswered \/ StepFails
  <2>1. NextStep /\ phase \in {"llm", "check", "act", "grace"}
    BY <1>5, SettleEnds
    DEF CommitRefused, CollectTurn, CollectApproved, CollectAnswered, StepFails, End
  <2>. QED
    BY <2>1, NextStepIsNearer
<1>6. CASE Start \/ Resume \/ Reject
  BY <1>6 DEF Start, Resume, Reject, Enter
<1>. QED
  BY <1>1, <1>2, <1>3, <1>4, <1>5, <1>6 DEF Next, Engine

\* Whatever fails, returns late or is stopped, a run takes finitely many
\* steps: each one but its last leaves less to do, in an order without
\* infinite descent.  This is the safety half of RunEnds; that the loop takes
\* a step at all is its fairness.
THEOREM RunsNearTheirEnd ==
  /\ IsWellFoundedOn(Less, Nat \X (Nat \X Nat))
  /\ Spec => []ToDoNatural /\ [][RunNearsItsEnd]_vars
<1>1. TypeOK /\ AttemptInv /\ [Next]_vars => AttemptInv'
  BY AttemptStep
<1>2. TypeOK /\ AttemptInv => ToDoNatural
  BY ToDoIsNatural
<1>3. Init => AttemptInv
  BY RunLoopAssumption DEF Init, AttemptInv, RunLoopAssumption
<1>4. ASSUME TypeOK, AttemptInv, ToDoNatural, ToDoNatural', [Next]_vars
      PROVE  [RunNearsItsEnd]_vars
  BY <1>4, StepIsNearer, NearerIsLess DEF RunNearsItsEnd
<1>5. Spec => []ToDoNatural /\ [][RunNearsItsEnd]_vars
  BY <1>1, <1>2, <1>3, <1>4, TypeCorrect, PTL DEF Spec
<1>. QED
  BY <1>5, LessIsWellFounded
=============================================================================
