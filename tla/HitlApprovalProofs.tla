------------------------- MODULE HitlApprovalProofs -------------------------
(***************************************************************************)
(* Safety of human approval for every number of approvals, messages and    *)
(* runners.  What is about the answers given to the agent is proved for    *)
(* approvals that are answered with buttons: a text decides a call without *)
(* touching its approval, so none of it would hold.                        *)
(***************************************************************************)
EXTENDS HitlApproval, TLAPS

\* A runner that has drawn an approval id and not yet stored the approval.
Asks(p) == pc[p] \in {"saving", "asking"}

\* No two runners ask for the same approval, and it has no row yet.
AskInv ==
  /\ \A p \in Procs : Asks(p) => call[p] \in drawn /\ approval[call[p]] = "none"
  /\ \A p, q \in Procs : Asks(p) /\ Asks(q) /\ call[p] = call[q] => p = q
  /\ \A a \in Approvals : a \notin drawn => approval[a] = "none"

\* Approvals stored by a failed INSERT have a row.
LateInv == \A a \in late : a \in drawn /\ approval[a] # "none"

\* An approval its run waits for, as opposed to one stored by a failed INSERT.
Awaited(a) == approval[a] = "pending" /\ a \notin late

\* A task that brings a decision to HITLManager.resume.
Carries(p) == pc[p] \in {"dispatch", "loaded"}

\* The run is where it is executed, or with the task that carries a decision
\* about it, or waits for the answer to an approval: at one of these places.
Holds(p) == Carries(p) \/ (p \in Runners /\ pc[p] # "idle")

OneThread ==
  /\ \A p, q \in Procs : Holds(p) /\ Holds(q) => p = q
  /\ \A p \in Procs, a \in Approvals : Holds(p) => ~Awaited(a)
  /\ \A a, b \in Approvals : Awaited(a) /\ Awaited(b) => a = b

\* So whatever RunState is stored is about the call being asked or decided.
SavedForCall ==
  /\ \A p \in Procs :
        /\ Carries(p) \/ pc[p] = "asking" => runState \in {NoApproval, call[p]}
        /\ pc[p] \in {"queued", "run", "saving"} => runState = NoApproval
        /\ pc[p] = "loaded" => snap[p] = call[p]
  /\ \A a \in Approvals : Awaited(a) => runState \in {NoApproval, a}

\* A call is asked, decided and passed on before the agent gets its answer.
Unanswered(a) == given[a]["approved"] = 0 /\ given[a]["rejected"] = 0

AnsweredLast ==
  /\ \A p \in Procs :
        pc[p] \in {"queued", "saving", "asking"} \/ Carries(p) =>
          call[p] \in drawn /\ Unanswered(call[p])
  /\ \A a \in Approvals :
        Awaited(a) \/ a \notin drawn \/ runState = a => Unanswered(a)

\* The decision a task carries is the one recorded for its call, or a
\* rejection of a call that could not be asked, or was not meant to be.
Unasked(a) == approval[a] = "none" \/ a \in late

DecisionFits ==
  \A p \in Procs :
        /\ pc[p] \in {"looked", "expire", "resolve"} => call[p] \in drawn
        /\ pc[p] \in {"run", "saving", "asking"} => decision[p] = "rejected"
        /\ pc[p] = "queued" \/ Carries(p) =>
              IF Unasked(call[p]) THEN decision[p] = "rejected"
              ELSE approval[call[p]] = decision[p]

\* What holds until a button answers an approval nobody waits for.
Orderly ==
  /\ OneThread
  /\ SavedForCall
  /\ AnsweredLast
  /\ DecisionFits
  /\ OwnCallOnly
  /\ ResumedOnce

GateInv ==
  /\ TypeOK
  /\ AskInv
  /\ LateInv
  /\ ~misled => Orderly

-----------------------------------------------------------------------------
(* Type correctness.                                                       *)

\* The agent is given one more answer: d, for the call c.
LEMMA GivenOnce ==
  ASSUME given \in [Approvals -> [Decisions -> Nat]],
         NEW c, NEW d \in Decisions
  PROVE  LET g == [given EXCEPT ![c][d] = @ + 1]
         IN  /\ g \in [Approvals -> [Decisions -> Nat]]
             /\ \A a \in Approvals, e \in Decisions :
                   g[a][e] = IF a = c /\ e = d THEN given[a][e] + 1 ELSE given[a][e]
<1> DEFINE answers(a) == IF a = c THEN [given[a] EXCEPT ![d] = @ + 1] ELSE given[a]
<1>1. [given EXCEPT ![c][d] = @ + 1] = [a \in Approvals |-> answers(a)]
  OBVIOUS
<1>2. ASSUME NEW a \in Approvals
      PROVE  /\ answers(a) \in [Decisions -> Nat]
             /\ \A e \in Decisions :
                   answers(a)[e] = IF a = c /\ e = d THEN given[a][e] + 1 ELSE given[a][e]
  OBVIOUS
<1> HIDE DEF answers
<1>. QED
  BY <1>1, <1>2

LEMMA TypeStep ==
  ASSUME TypeOK, [Next]_vars
  PROVE  TypeOK'
<1> USE HitlAssumption DEF HitlAssumption, TypeOK, Procs, Decisions, HandlerStages, RunnerStages, cards
<1>1. CASE UNCHANGED vars
  BY <1>1 DEF vars, tables, starting, locals
<1>2. ASSUME NEW r \in Runners, RunnerStep(r)
      PROVE  TypeOK'
  <2>1. CASE BeginRun(r)
    <3>1. given' \in [Approvals -> [Decisions -> Nat]]
      BY <2>1, GivenOnce DEF BeginRun
    <3>. QED
      BY <2>1, <3>1 DEF BeginRun, Afresh, tables, starting
  <2>2. CASE Pause(r)
    BY <2>2 DEF Pause, starting
  <2>3. CASE SaveRunState(r)
    BY <2>3 DEF SaveRunState, Goto, starting, locals
  <2>4. CASE AskApproval(r)
    BY <2>4 DEF AskApproval, Leave, Afresh, starting
  <2>5. CASE AskFails(r)
    BY <2>5 DEF AskFails, Goto, starting, locals
  <2>6. CASE EndRun(r)
    BY <2>6 DEF EndRun, Leave, Afresh, tables, starting
  <2>. QED
    BY <1>2, <2>1, <2>2, <2>3, <2>4, <2>5, <2>6 DEF RunnerStep
<1>3. ASSUME NEW h \in Handlers, HandlerStep(h)
      PROVE  TypeOK'
  <2>1. CASE \E d \in Decisions : TextDecision(h, d) \/ \E a \in Approvals : Click(h, a, d)
    <3>1. ASSUME NEW d \in Decisions, TextDecision(h, d)
          PROVE  TypeOK'
      BY <3>1 DEF TextDecision, tables, starting
    <3>2. ASSUME NEW d \in Decisions, NEW a \in Approvals, Click(h, a, d)
          PROVE  TypeOK'
      BY <3>2 DEF Click, tables, starting
    <3>. QED
      BY ONLY <2>1, <3>1, <3>2
  <2>2. CASE CheckRunState(h) \/ TimesOut(h)
    <3>1. CASE CheckRunState(h)
      BY <3>1 DEF CheckRunState, Leave, Afresh, Goto, tables, starting, locals
    <3>2. CASE TimesOut(h)
      BY <3>2 DEF TimesOut, Leave, Afresh, Goto, tables, starting, locals
    <3>. QED
      BY ONLY <2>2, <3>1, <3>2
  <2>3. CASE WipeSession(h)
    <3>1. deleted' \in BOOLEAN
      BY <2>3 DEF WipeSession
    <3>. QED
      BY <2>3, <3>1 DEF WipeSession, Leave, Afresh, starting
  <2>4. CASE Expire(h) \/ Resolve(h) \/ DeleteSession(h)
    <3>1. approval' \in [Approvals -> {"none", "pending"} \cup Decisions]
      BY <2>4 DEF Expire, Resolve, DeleteSession, ResolveRequests
    <3>2. misled' \in BOOLEAN
      BY ONLY <2>4, misled \in BOOLEAN DEF Expire, Resolve, DeleteSession, cards
    <3>3. /\ UNCHANGED <<runState, drawn, deleted, boot, toRestore, given, unseen, late>>
          /\ Afresh(h, "idle") \/ Goto(h, "dispatch") \/ Goto(h, "wiping")
      BY <2>4 DEF Expire, Resolve, DeleteSession, Leave, starting
    <3>. QED
      BY <3>1, <3>2, <3>3 DEF Afresh, Goto, locals
  <2>. QED
    BY <1>3, <2>1, <2>2, <2>3, <2>4 DEF HandlerStep
<1>4. ASSUME NEW p \in Procs, ResumeStep(p)
      PROVE  TypeOK'
  BY <1>4 DEF ResumeStep, LoadRunState, DeleteAndSpawn, DeleteFails, Leave, Afresh,
     tables, starting, locals
<1>5. CASE Crash
  BY <1>5 DEF Crash, tables
<1>6. CASE Startup
  BY <1>6 DEF Startup, ReadPending, RestoreOne, RestoreDone, CleanupExpired,
     ResolveRequests, PendingApprovals, tables, locals
<1>. QED
  BY <1>1, <1>2, <1>3, <1>4, <1>5, <1>6 DEF Next

LEMMA TypeInit ==
  ASSUME Init
  PROVE  TypeOK
<1> USE HitlAssumption DEF HitlAssumption, TypeOK, Procs, Decisions, HandlerStages, RunnerStages, cards
<1>1. deleted \in BOOLEAN
  BY DEF Init
<1>2. /\ pc \in [Procs -> HandlerStages \cup RunnerStages]
      /\ \A h \in Handlers : pc[h] \in HandlerStages
      /\ \A r \in Runners : pc[r] \in RunnerStages
  BY DEF Init
<1>3. given \in [Approvals -> [Decisions -> Nat]]
  BY DEF Init
<1>4. /\ call \in [Procs -> Approvals \cup {NoApproval}]
      /\ \A r \in Runners : pc[r] \notin {"saving", "asking"}
      /\ decision \in [Procs -> Decisions]
      /\ snap \in [Procs -> Approvals \cup {NoApproval}]
  BY DEF Init
<1>. QED
  BY <1>1, <1>2, <1>3, <1>4 DEF Init

\* The tables and the locals of the tasks keep their types, and no message
\* handler comes to execute the run.
THEOREM TypeCorrect == Spec => []TypeOK
<1>1. Init => TypeOK
  BY TypeInit
<1>2. TypeOK /\ [Next]_vars => TypeOK'
  BY TypeStep
<1>. QED
  BY <1>1, <1>2, PTL DEF Spec

-----------------------------------------------------------------------------
(* Decisions are final.                                                    *)

\* A step in which no task comes to ask for an approval, and no approval that
\* was never asked for gets a row.
Quiet ==
  /\ drawn' = drawn
  /\ \A p \in Procs : Asks(p)' => Asks(p) /\ call'[p] = call[p]
  /\ \A a \in Approvals : approval[a] = "none" => approval'[a] = "none"

LEMMA QuietKeepsAskInv ==
  ASSUME TypeOK, AskInv, Quiet
  PROVE  AskInv'
BY DEF TypeOK, AskInv, Quiet

\* Only a pause asks, and only handle_approval_needed stores an approval.
LEMMA QuietOrAsks ==
  ASSUME TypeOK, [Next]_vars
  PROVE  Quiet \/ \E r \in Runners : Pause(r) \/ AskApproval(r) \/ AskFails(r)
<1> USE DEF TypeOK, Procs, Asks, tables, starting, locals
<1>1. CASE UNCHANGED vars
  BY <1>1 DEF vars, Quiet
<1>2. ASSUME NEW r \in Runners,
             BeginRun(r) \/ SaveRunState(r) \/ EndRun(r)
      PROVE  Quiet
  BY <1>2 DEF BeginRun, SaveRunState, EndRun, Leave, Afresh, Goto, Quiet
<1>3. ASSUME NEW h \in Handlers, HandlerStep(h)
      PROVE  Quiet
  <2>1. CASE \E d \in Decisions : TextDecision(h, d) \/ \E a \in Approvals : Click(h, a, d)
    BY <2>1 DEF TextDecision, Click, Quiet
  <2>2. CASE CheckRunState(h) \/ TimesOut(h) \/ WipeSession(h)
    BY <2>2 DEF CheckRunState, TimesOut, WipeSession, Leave, Afresh, Goto, Quiet
  <2>3. CASE Expire(h) \/ Resolve(h) \/ DeleteSession(h)
    BY <2>3 DEF Expire, Resolve, DeleteSession, ResolveRequests, Leave, Afresh, Goto, Quiet
  <2>. QED
    BY <1>3, <2>1, <2>2, <2>3 DEF HandlerStep
<1>4. ASSUME NEW p \in Procs, ResumeStep(p)
      PROVE  Quiet
  BY <1>4 DEF ResumeStep, LoadRunState, DeleteAndSpawn, DeleteFails, Leave, Afresh, Quiet
<1>5. CASE Crash
  BY <1>5 DEF Crash, Quiet
<1>6. CASE Startup
  BY <1>6 DEF Startup, ReadPending, RestoreOne, RestoreDone, CleanupExpired,
     ResolveRequests, Quiet
<1>. QED
  BY <1>1, <1>2, <1>3, <1>4, <1>5, <1>6 DEF Next, RunnerStep

LEMMA AskInvStep ==
  ASSUME TypeOK, AskInv, [Next]_vars
  PROVE  AskInv'
<1>1. CASE Quiet
  BY <1>1, QuietKeepsAskInv
<1>2. ASSUME NEW r \in Runners, Pause(r)
      PROVE  AskInv'
  BY <1>2 DEF Pause, AskInv, Asks, TypeOK, Procs
<1>3. ASSUME NEW r \in Runners, AskApproval(r)
      PROVE  AskInv'
  BY <1>3 DEF AskApproval, Leave, Afresh, AskInv, Asks, TypeOK, Procs
<1>4. ASSUME NEW r \in Runners, AskFails(r)
      PROVE  AskInv'
  BY <1>4 DEF AskFails, Goto, locals, AskInv, Asks, TypeOK, Procs
<1>. QED
  BY <1>1, <1>2, <1>3, <1>4, QuietOrAsks

LEMMA AskInvInit == Init => AskInv
BY HitlAssumption DEF Init, AskInv, Asks, Procs

LEMMA DecisionKept ==
  ASSUME TypeOK, AskInv, [Next]_vars,
         NEW a \in Approvals, approval[a] \in Decisions
  PROVE  approval'[a] = approval[a]
<1> USE DEF TypeOK, Decisions, tables, starting, cards
<1>1. CASE UNCHANGED vars
  BY <1>1 DEF vars
<1>2. ASSUME NEW r \in Runners, RunnerStep(r)
      PROVE  approval'[a] = approval[a]
  <2>1. CASE AskApproval(r)
    BY <2>1 DEF AskApproval, AskInv, Asks, Procs
  <2>2. CASE AskFails(r)
    BY <2>2 DEF AskFails, AskInv, Asks, Procs
  <2>. QED
    BY <1>2, <2>1, <2>2 DEF RunnerStep, BeginRun, Pause, SaveRunState, EndRun
<1>3. ASSUME NEW h \in Handlers, HandlerStep(h)
      PROVE  approval'[a] = approval[a]
  BY <1>3 DEF HandlerStep, TextDecision, Click, CheckRunState, Expire, Resolve, TimesOut,
     DeleteSession, WipeSession, ResolveRequests
<1>4. ASSUME NEW p \in Procs, ResumeStep(p)
      PROVE  approval'[a] = approval[a]
  BY <1>4 DEF ResumeStep, LoadRunState, DeleteAndSpawn, DeleteFails
<1>5. CASE Crash
  BY <1>5 DEF Crash
<1>6. CASE Startup
  BY <1>6 DEF Startup, ReadPending, RestoreOne, RestoreDone, CleanupExpired, ResolveRequests
<1>. QED
  BY <1>1, <1>2, <1>3, <1>4, <1>5, <1>6 DEF Next

\* BL1 and BL7 of bridge.py: once an approval is approved or rejected, no
\* click, timeout, session deletion, crash or startup decides it again, and
\* no later pause of the run asks under its id.
THEOREM DecisionsAreFinal == Spec => DecidedOnce
<1>1. TypeOK /\ AskInv /\ [Next]_vars => AskInv'
  BY AskInvStep
<1>2. Spec => []AskInv
  BY <1>1, AskInvInit, TypeCorrect, PTL DEF Spec
<1>3. TypeOK /\ AskInv /\ [Next]_vars =>
        [\A a \in Approvals :
           approval[a] \in Decisions => approval'[a] = approval[a]]_vars
  BY DecisionKept
<1>. QED
  BY <1>2, <1>3, TypeCorrect, PTL DEF Spec, DecidedOnce

-----------------------------------------------------------------------------
(* The approvals of failed INSERTs.                                        *)

\* Only a failed INSERT adds to them, only a restart takes one back, and only
\* a button that answers one misleads.
LEMMA LateMoves ==
  ASSUME [Next]_vars
  PROVE  \/ late' = late
         \/ Crash
         \/ \E r \in Runners : AskFails(r)
BY DEF vars, cards, Next, RunnerStep, BeginRun, Pause, SaveRunState, AskApproval, EndRun,
   HandlerStep, TextDecision, Click, CheckRunState, Expire, Resolve, TimesOut,
   DeleteSession, WipeSession, ResumeStep, LoadRunState, DeleteAndSpawn, DeleteFails,
   Startup, ReadPending, RestoreOne, RestoreDone, CleanupExpired

LEMMA MisledForGood ==
  ASSUME [Next]_vars, misled
  PROVE  misled'
BY DEF vars, cards, Next, RunnerStep, BeginRun, Pause, SaveRunState, AskApproval, AskFails,
   EndRun, HandlerStep, TextDecision, Click, CheckRunState, Expire, Resolve, TimesOut,
   DeleteSession, WipeSession, ResumeStep, LoadRunState, DeleteAndSpawn, DeleteFails,
   Crash, Startup, ReadPending, RestoreOne, RestoreDone, CleanupExpired

LEMMA RowsStay ==
  ASSUME TypeOK, [Next]_vars, NEW a \in Approvals
  PROVE  /\ approval[a] # "none" => approval'[a] # "none"
         /\ a \in drawn => a \in drawn'
<1> USE DEF TypeOK, Decisions, tables
<1>1. CASE UNCHANGED vars
  BY <1>1 DEF vars
<1>2. ASSUME NEW r \in Runners, RunnerStep(r)
      PROVE  /\ approval[a] # "none" => approval'[a] # "none"
             /\ a \in drawn => a \in drawn'
  BY <1>2 DEF RunnerStep, BeginRun, Pause, SaveRunState, AskApproval, AskFails, EndRun
<1>3. ASSUME NEW h \in Handlers, HandlerStep(h)
      PROVE  /\ approval[a] # "none" => approval'[a] # "none"
             /\ a \in drawn => a \in drawn'
  <2>1. decision[h] \in Decisions
    BY DEF Procs
  <2>. QED
    BY <1>3, <2>1 DEF HandlerStep, TextDecision, Click, CheckRunState, Expire, Resolve, TimesOut,
       DeleteSession, WipeSession, ResolveRequests
<1>4. ASSUME NEW p \in Procs, ResumeStep(p)
      PROVE  /\ approval[a] # "none" => approval'[a] # "none"
             /\ a \in drawn => a \in drawn'
  BY <1>4 DEF ResumeStep, LoadRunState, DeleteAndSpawn, DeleteFails
<1>5. CASE Crash
  BY <1>5 DEF Crash
<1>6. CASE Startup
  BY <1>6 DEF Startup, ReadPending, RestoreOne, RestoreDone, CleanupExpired, ResolveRequests
<1>. QED
  BY <1>1, <1>2, <1>3, <1>4, <1>5, <1>6 DEF Next

LEMMA LateInvStep ==
  ASSUME TypeOK, AskInv, LateInv, [Next]_vars
  PROVE  LateInv'
<1>1. CASE late' = late
  BY <1>1, RowsStay DEF LateInv, TypeOK
<1>2. CASE Crash
  BY <1>2 DEF Crash, LateInv, tables
<1>3. ASSUME NEW r \in Runners, AskFails(r)
      PROVE  LateInv'
  <2>1. CASE late' = late
    BY <1>1, <2>1
  <2>2. CASE late' = late \cup {call[r]}
    <3>1. /\ call[r] \in drawn /\ drawn' = drawn
          /\ approval' = approval \/ approval' = [approval EXCEPT ![call[r]] = "pending"]
      BY <1>3 DEF AskFails, AskInv, Asks, Procs
    <3>2. \A a \in Approvals : approval[a] # "none" => approval'[a] # "none"
      BY RowsStay
    <3>3. approval'[call[r]] # "none"
      BY <1>3, <2>2, <3>1 DEF AskFails, AskInv, Asks, Procs, TypeOK, cards, LateInv
    <3>. QED
      BY <2>2, <3>1, <3>2, <3>3 DEF LateInv, TypeOK
  <2>. QED
    BY <1>3, <2>1, <2>2 DEF AskFails, cards
<1>. QED
  BY <1>1, <1>2, <1>3, LateMoves

-----------------------------------------------------------------------------
(* The run is at one place.                                                *)

\* A task goes on with what it has, or gives up what it carries.
GivesUp(p) ==
  \/ /\ pc'[p] = pc[p]
     /\ call'[p] = call[p]
     /\ decision'[p] = decision[p]
     /\ snap'[p] = snap[p]
  \/ pc'[p] = "idle"
  \/ p \in Handlers /\ pc'[p] = "wiping"
  \/ p \in Handlers /\ pc'[p] \in {"looked", "expire", "resolve"} /\ call'[p] \in drawn

\* A step in which nothing is passed on: a RunState may be deleted, pending
\* approvals may be decided, and tasks may give up.
Receding ==
  /\ drawn' = drawn
  /\ late' = late
  /\ given' = given
  /\ runState' \in {NoApproval, runState}
  /\ \A a \in Approvals : \/ approval'[a] = approval[a]
                          \/ approval[a] = "pending" /\ approval'[a] \in Decisions
  /\ \A p \in Procs : GivesUp(p)

LEMMA RecedingKeepsOrder ==
  ASSUME GateInv, ~misled, TypeOK', AskInv', Receding
  PROVE  Orderly'
<1> USE HitlAssumption DEF HitlAssumption, GateInv, Orderly, TypeOK, Procs, Awaited, Unasked, Receding, GivesUp, Decisions
<1>1. OneThread'
  BY DEF OneThread, Holds, Carries
<1>2. SavedForCall'
  BY DEF SavedForCall, Carries
<1>3. AnsweredLast'
  BY DEF AnsweredLast, Carries, Unanswered
<1>4. DecisionFits'
  BY DEF DecisionFits, AnsweredLast, OneThread, Holds, Carries
<1>5. OwnCallOnly' /\ ResumedOnce'
  BY DEF OwnCallOnly, ResumedOnce
<1>. QED
  BY <1>1, <1>2, <1>3, <1>4, <1>5

LEMMA InTransitHolds ==
  ASSUME TypeOK
  PROVE  \A p \in Procs :
           pc[p] \in {"queued", "run", "saving", "asking"} \/ Carries(p) => Holds(p)
BY DEF TypeOK, Procs, HandlerStages, Holds

\* The steps in which something is passed on.
Passes(r) ==
  \/ BeginRun(r)
  \/ Pause(r)
  \/ SaveRunState(r)
  \/ AskApproval(r)
  \/ AskFails(r)

LEMMA RecedesOrPasses ==
  ASSUME GateInv, ~misled, ~misled', ~TextReplies, [Next]_vars
  PROVE  \/ Receding
         \/ \E r \in Runners : Passes(r)
         \/ \E h \in Handlers : Resolve(h)
         \/ \E p \in Procs : LoadRunState(p) \/ DeleteAndSpawn(p)
         \/ Crash
<1> USE HitlAssumption DEF HitlAssumption, GateInv, Orderly, TypeOK, Procs, Awaited, Unasked, GivesUp, tables, starting, cards, locals
<1>1. CASE UNCHANGED vars
  BY <1>1 DEF vars, Receding
<1>2. ASSUME NEW r \in Runners, EndRun(r)
      PROVE  Receding
  BY <1>2 DEF EndRun, Leave, Afresh, Receding
<1>3. ASSUME NEW h \in Handlers, HandlerStep(h), ~Resolve(h)
      PROVE  Receding
  <2>1. CASE \E d \in Decisions, a \in Approvals : Click(h, a, d)
    BY <2>1 DEF Click, Receding, AskInv
  <2>2. CASE CheckRunState(h) \/ TimesOut(h)
    BY <2>2 DEF CheckRunState, TimesOut, Leave, Afresh, Goto, Receding, DecisionFits
  <2>3. CASE Expire(h)
    BY <2>3 DEF Expire, ResolveRequests, Leave, Afresh, Receding, Decisions
  <2>4. CASE DeleteSession(h)
    BY <2>4 DEF DeleteSession, ResolveRequests, Goto, Receding, Decisions
  <2>5. CASE WipeSession(h)
    BY <2>5 DEF WipeSession, Leave, Afresh, Receding
  <2>. QED
    BY <1>3, <2>1, <2>2, <2>3, <2>4, <2>5 DEF HandlerStep, TextDecision
<1>4. ASSUME NEW p \in Procs, DeleteFails(p)
      PROVE  Receding
  BY <1>4 DEF DeleteFails, Leave, Afresh, Receding
<1>5. CASE Startup
  BY <1>5 DEF Startup, ReadPending, RestoreOne, RestoreDone, CleanupExpired,
     ResolveRequests, Receding, Decisions
<1>. QED
  BY <1>1, <1>2, <1>3, <1>4, <1>5 DEF Next, RunnerStep, ResumeStep, Passes

LEMMA PassesKeepsOrder ==
  ASSUME GateInv, ~misled, TypeOK', AskInv', LateInv', NEW r \in Runners, Passes(r)
  PROVE  Orderly'
<1> USE HitlAssumption DEF HitlAssumption, GateInv, Orderly, TypeOK, Procs, Awaited, Unasked, tables, starting, cards, locals
<1>1. CASE BeginRun(r)
  <2> USE <1>1 DEF BeginRun, Afresh
  <2>1. OneThread'
    BY DEF OneThread, Holds, Carries
  <2>2. SavedForCall'
    BY DEF SavedForCall, OneThread, Holds, Carries
  <2>3. /\ call[r] \in Approvals
        /\ Unanswered(call[r])
        /\ \/ approval[call[r]] = decision[r] /\ ~Unasked(call[r])
           \/ Unasked(call[r]) /\ decision[r] = "rejected"
    BY DEF AnsweredLast, DecisionFits
  <2>4. \A a \in Approvals, e \in Decisions :
          given'[a][e] = IF a = call[r] /\ e = decision[r]
                         THEN given[a][e] + 1 ELSE given[a][e]
    BY GivenOnce
  <2>5. AnsweredLast'
    <3>1. ASSUME NEW p \in Procs
          PROVE  ~(pc[p] \in {"queued", "saving", "asking"} \/ Carries(p))'
      BY InTransitHolds DEF OneThread, Carries
    <3>2. ASSUME NEW a \in Approvals, (Awaited(a) \/ a \notin drawn \/ runState = a)'
          PROVE  Unanswered(a)'
      <4>1. a # call[r]
        BY <3>2 DEF OneThread, Holds, AnsweredLast, SavedForCall
      <4>. QED
        BY <2>4, <3>2, <4>1 DEF AnsweredLast, Unanswered, Decisions
    <3>. QED
      BY <3>1, <3>2 DEF AnsweredLast
  <2>6. DecisionFits'
    BY DEF DecisionFits, Carries
  <2>7. OwnCallOnly' /\ ResumedOnce'
    BY <2>3, <2>4 DEF OwnCallOnly, ResumedOnce, Unanswered, Decisions
  <2>. QED
    BY <2>1, <2>2, <2>5, <2>6, <2>7
<1>2. CASE Pause(r)
  <2> USE <1>2 DEF Pause
  <2>1. OneThread' /\ SavedForCall'
    BY DEF OneThread, SavedForCall, Holds, Carries
  <2>2. AnsweredLast' /\ DecisionFits'
    BY DEF AnsweredLast, DecisionFits, Carries, Unanswered, AskInv, Asks
  <2>3. OwnCallOnly' /\ ResumedOnce'
    BY DEF OwnCallOnly, ResumedOnce
  <2>. QED
    BY <2>1, <2>2, <2>3
<1>3. CASE SaveRunState(r)
  <2> USE <1>3 DEF SaveRunState, Goto
  <2>1. OneThread'
    BY DEF OneThread, Holds, Carries
  <2>2. SavedForCall'
    <3>1. \A p \in Procs : p # r =>
            ~Carries(p) /\ pc[p] \notin {"queued", "run", "saving", "asking"}
      BY InTransitHolds DEF OneThread
    <3>2. \A a \in Approvals : ~Awaited(a)
      BY InTransitHolds DEF OneThread
    <3>. QED
      BY <3>1, <3>2 DEF SavedForCall, Carries
  <2>3. AnsweredLast' /\ DecisionFits' /\ OwnCallOnly' /\ ResumedOnce'
    BY DEF AnsweredLast, DecisionFits, Carries, Unanswered, OwnCallOnly, ResumedOnce
  <2>. QED
    BY <2>1, <2>2, <2>3
<1>4. CASE AskApproval(r)
  <2> USE <1>4 DEF AskApproval, Leave, Afresh
  <2>1. OneThread'
    BY DEF OneThread, Holds, Carries
  <2>2. SavedForCall'
    BY DEF OneThread, SavedForCall, Holds, Carries
  <2>3. AnsweredLast'
    BY DEF AnsweredLast, Carries, Unanswered
  <2>4. DecisionFits'
    <3>1. \A p \in Procs : p # r =>
            ~Carries(p) /\ pc[p] \notin {"queued", "run", "saving", "asking"}
      BY InTransitHolds DEF OneThread
    <3>. QED
      BY <3>1 DEF DecisionFits, Carries
  <2>5. OwnCallOnly' /\ ResumedOnce'
    BY DEF OwnCallOnly, ResumedOnce, AnsweredLast, Unanswered
  <2>. QED
    BY <2>1, <2>2, <2>3, <2>4, <2>5
<1>5. CASE AskFails(r)
  <2> USE <1>5 DEF AskFails, Goto
  <2>1. OneThread' /\ SavedForCall'
    BY DEF OneThread, SavedForCall, Holds, Carries
  <2>2. AnsweredLast' /\ OwnCallOnly' /\ ResumedOnce'
    BY DEF AnsweredLast, Carries, Unanswered, OwnCallOnly, ResumedOnce
  <2>3. DecisionFits'
    <3>1. \A p \in Procs : p # r =>
            ~Carries(p) /\ pc[p] \notin {"queued", "run", "saving", "asking"}
      BY InTransitHolds DEF OneThread
    <3>2. decision'[r] = "rejected" /\ (approval'[call[r]] = "none" \/ call[r] \in late')
      BY DEF DecisionFits, AskInv, Asks
    <3>. QED
      BY <3>1, <3>2 DEF DecisionFits, Carries
  <2>. QED
    BY <2>1, <2>2, <2>3
<1>. QED
  BY <1>1, <1>2, <1>3, <1>4, <1>5 DEF Passes

LEMMA ResolveKeepsOrder ==
  ASSUME GateInv, ~misled, TypeOK', AskInv', ~misled', NEW h \in Handlers, Resolve(h)
  PROVE  Orderly'
<1> USE HitlAssumption DEF HitlAssumption, GateInv, Orderly, TypeOK, Procs, Awaited, Unasked, Resolve,
        ResolveRequests, Leave, Afresh, Goto, starting, locals
<1>1. /\ call[h] \in Approvals
      /\ approval[call[h]] = "pending" => Awaited(call[h])
  BY DEF DecisionFits
<1>2. OneThread'
  BY <1>1 DEF OneThread, Holds, Carries, Decisions
<1>3. SavedForCall'
  BY <1>1 DEF OneThread, SavedForCall, Holds, Carries, Decisions
<1>4. AnsweredLast'
  BY <1>1 DEF AnsweredLast, DecisionFits, Carries, Unanswered, Decisions
<1>5. DecisionFits'
  <2>1. CASE approval[call[h]] = "pending"
    <3>1. \A p \in Procs :
            ~Carries(p) /\ pc[p] \notin {"queued", "run", "saving", "asking"}
      BY <1>1, <2>1, InTransitHolds DEF OneThread
    <3>2. approval'[call[h]] = decision[h] /\ decision[h] \in Decisions
      BY <1>1, <2>1
    <3>3. ~Unasked(call[h])'
      BY <1>1, <2>1, <3>2 DEF Decisions
    <3>4. \A p \in Procs : pc'[p] = pc[p] \/ p = h
      BY <2>1
    <3>5. UNCHANGED <<call, decision, drawn>>
      BY <2>1
    <3>. QED
      BY <3>1, <3>2, <3>3, <3>4, <3>5 DEF DecisionFits, Carries
  <2>2. CASE approval[call[h]] # "pending"
    <3>1. approval' = approval
      BY <2>2
    <3>. QED
      BY <2>2, <3>1 DEF DecisionFits, Carries
  <2>. QED
    BY <2>1, <2>2
<1>6. OwnCallOnly' /\ ResumedOnce'
  BY <1>1 DEF OwnCallOnly, ResumedOnce, Decisions
<1>. QED
  BY <1>2, <1>3, <1>4, <1>5, <1>6

LEMMA LoadKeepsOrder ==
  ASSUME GateInv, ~misled, TypeOK', AskInv', NEW p \in Procs, LoadRunState(p)
  PROVE  Orderly'
<1> USE HitlAssumption DEF HitlAssumption, GateInv, Orderly, TypeOK, Procs, Awaited, Unasked, LoadRunState,
        tables, starting, cards
<1>1. CASE pc'[p] = "loaded"
  <2>1. /\ runState # NoApproval
        /\ snap' = [snap EXCEPT ![p] = runState]
        /\ pc' = [pc EXCEPT ![p] = "loaded"]
        /\ UNCHANGED <<call, decision>>
    BY <1>1 DEF Leave, Afresh
  <2>2. OneThread'
    BY <2>1 DEF OneThread, Holds, Carries
  <2>3. SavedForCall'
    BY <2>1 DEF SavedForCall, Carries
  <2>4. AnsweredLast' /\ DecisionFits' /\ OwnCallOnly' /\ ResumedOnce'
    BY <2>1 DEF AnsweredLast, DecisionFits, Carries, Unanswered, OwnCallOnly, ResumedOnce
  <2>. QED
    BY <2>2, <2>3, <2>4
<1>2. CASE pc'[p] # "loaded"
  <2>1. Receding
    BY <1>2 DEF Leave, Afresh, Receding, GivesUp
  <2>. QED
    BY <2>1, RecedingKeepsOrder
<1>. QED
  BY <1>1, <1>2

LEMMA SpawnKeepsOrder ==
  ASSUME GateInv, ~misled, TypeOK', AskInv', NEW p \in Procs, DeleteAndSpawn(p)
  PROVE  Orderly'
<1> USE HitlAssumption DEF HitlAssumption, GateInv, Orderly, TypeOK, Procs, Awaited, Unasked
<1>1. PICK r \in Runners :
        /\ pc[r] = "idle"
        /\ pc' = [pc EXCEPT ![p] = "idle", ![r] = "queued"]
        /\ call' = [call EXCEPT ![p] = NoApproval, ![r] = snap[p]]
        /\ decision' = [decision EXCEPT ![p] = "rejected", ![r] = decision[p]]
        /\ snap' = [snap EXCEPT ![p] = NoApproval]
  BY DEF DeleteAndSpawn
<1>2. /\ pc[p] = "loaded"
      /\ runState' = NoApproval
      /\ UNCHANGED <<approval, drawn, given, late>>
  BY DEF DeleteAndSpawn, cards
<1>3. r # p /\ snap[p] = call[p] /\ Carries(p)
  BY <1>1, <1>2 DEF SavedForCall, Carries
<1>4. /\ pc'[r] = "queued" /\ call'[r] = call[p] /\ decision'[r] = decision[p]
      /\ pc'[p] = "idle"
      /\ \A q \in Procs \ {p, r} :
            pc'[q] = pc[q] /\ call'[q] = call[q] /\ decision'[q] = decision[q]
  BY <1>1, <1>3
<1>5. \A q \in Procs \ {p} :
        ~Carries(q) /\ pc[q] \notin {"queued", "run", "saving", "asking"}
  BY <1>3, InTransitHolds DEF OneThread
<1>6. OneThread'
  BY <1>2, <1>3, <1>4 DEF OneThread, Holds, Carries
<1>7. SavedForCall'
  BY <1>2, <1>4, <1>5 DEF SavedForCall, Carries
<1>8. AnsweredLast'
  <2>1. \A q \in Procs :
          (pc'[q] \in {"queued", "saving", "asking"} \/ Carries(q)') => q = r
    BY <1>4, <1>5 DEF Carries
  <2>. QED
    BY <1>2, <1>3, <1>4, <2>1 DEF AnsweredLast, Unanswered
<1>9. DecisionFits'
  <2>1. IF Unasked(call[p]) THEN decision[p] = "rejected"
        ELSE approval[call[p]] = decision[p]
    BY <1>3 DEF DecisionFits
  <2>. QED
    BY <1>2, <1>3, <1>4, <1>5, <2>1 DEF DecisionFits, Carries
<1>10. OwnCallOnly' /\ ResumedOnce'
  BY <1>2 DEF OwnCallOnly, ResumedOnce
<1>. QED
  BY <1>6, <1>7, <1>8, <1>9, <1>10

LEMMA CrashKeepsOrder ==
  ASSUME GateInv, ~misled, TypeOK', Crash
  PROVE  Orderly'
<1> USE HitlAssumption DEF HitlAssumption, GateInv, Orderly, TypeOK, Procs, Awaited, Unasked, Crash, tables
<1>1. ASSUME NEW a \in Approvals, Awaited(a)'
      PROVE  /\ approval[a] = "pending"
             /\ runState \in {NoApproval, a}
             /\ Unanswered(a)
             /\ a \in late => runState = a
  BY <1>1 DEF SavedForCall, AnsweredLast
<1>2. ASSUME NEW a \in Approvals, NEW b \in Approvals, Awaited(a)', Awaited(b)'
      PROVE  a = b
  BY <1>1, <1>2 DEF OneThread
<1>3. OneThread'
  BY <1>2 DEF OneThread, Holds, Carries
<1>4. SavedForCall'
  BY <1>1 DEF SavedForCall, Carries
<1>5. AnsweredLast'
  BY <1>1 DEF AnsweredLast, Carries, Unanswered
<1>6. DecisionFits'
  BY DEF DecisionFits, Carries
<1>7. OwnCallOnly' /\ ResumedOnce'
  BY DEF OwnCallOnly, ResumedOnce
<1>. QED
  BY <1>3, <1>4, <1>5, <1>6, <1>7

LEMMA GateInvStep ==
  ASSUME GateInv, ~TextReplies, [Next]_vars
  PROVE  GateInv'
<1>1. TypeOK' /\ AskInv' /\ LateInv'
  BY TypeStep, AskInvStep, LateInvStep DEF GateInv
<1>2. ASSUME ~misled'
      PROVE  Orderly'
  <2>1. ~misled
    BY <1>2, MisledForGood
  <2>. QED
    BY <1>1, <1>2, <2>1, RecedesOrPasses, RecedingKeepsOrder, PassesKeepsOrder,
       ResolveKeepsOrder, LoadKeepsOrder, SpawnKeepsOrder, CrashKeepsOrder
<1>. QED
  BY <1>1, <1>2 DEF GateInv

LEMMA GateInvInit == Init => GateInv
<1> SUFFICES ASSUME Init
             PROVE  GateInv
  OBVIOUS
<1>0. LateInv
  BY DEF Init, LateInv
<1> USE HitlAssumption DEF HitlAssumption, Init, Procs
<1>1. \A a \in Approvals : given[a]["approved"] = 0 /\ given[a]["rejected"] = 0
  BY DEF Decisions
<1>2. OneThread
  BY DEF OneThread, Holds, Carries, Awaited
<1>3. SavedForCall /\ DecisionFits
  BY DEF SavedForCall, DecisionFits, Carries, Awaited
<1>4. AnsweredLast
  BY <1>1 DEF AnsweredLast, Carries, Unanswered
<1>5. OwnCallOnly /\ ResumedOnce
  BY <1>1 DEF OwnCallOnly, ResumedOnce
<1>. QED
  BY <1>0, <1>2, <1>3, <1>4, <1>5, TypeInit, AskInvInit DEF GateInv, Orderly

LEMMA GateInvAlways ==
  ASSUME ~TextReplies
  PROVE  Spec => []GateInv
<1>1. GateInv /\ [Next]_vars => GateInv'
  BY GateInvStep
<1>. QED
  BY <1>1, GateInvInit, PTL DEF Spec

\* The agent makes a sensitive call only if the approval for that call was
\* granted: no other card, no lost click, no deletion and no restart of the
\* process makes it run, unless somebody answers a card that a failed INSERT
\* left behind.
THEOREM OnlyApprovedCallsAreMade ==
  ASSUME ~TextReplies
  PROVE  Spec => []OwnCallOnly
<1>1. GateInv => OwnCallOnly
  BY DEF GateInv, Orderly, OwnCallOnly
<1>. QED
  BY <1>1, GateInvAlways, PTL

\* BL7 of sqlite_run_state_repo.py: a paused run is not resumed twice, with
\* the same exception.
THEOREM RunsAreResumedOnce ==
  ASSUME ~TextReplies
  PROVE  Spec => []ResumedOnce
<1>1. GateInv => ResumedOnce
  BY DEF GateInv, Orderly, ResumedOnce
<1>. QED
  BY <1>1, GateInvAlways, PTL

-----------------------------------------------------------------------------
(* The tables and the tasks implement the abstract gate.                   *)

LEMMA OneMoves ==
  ASSUME NEW a \in Approvals, NEW from, NEW to,
         GateStage(a) \in from, GateStage(a)' = to,
         \A b \in Approvals \ {a} : GateStage(b)' = GateStage(b)
  PROVE  Gate!Move(a, from, to)
<1>1. Stages' = [Stages EXCEPT ![a] = to]
  BY DEF Stages
<1>. QED
  BY <1>1 DEF Gate!Move, Stages

LEMMA NoneMoves ==
  ASSUME \A a \in Approvals : approval'[a] = approval[a] \/ (a \in late /\ Unasked(a)'),
         late' = late, given' = given
  PROVE  UNCHANGED Stages
BY DEF Stages, GateStage, Unasked

\* At most one approval the run waits for is decided.
LEMMA DecideMoves ==
  ASSUME GateInv, ~misled, late' = late, given' = given, NEW A, NEW d \in Decisions, ResolveRequests(A, d)
  PROVE  Gate!Next \/ UNCHANGED Stages
<1> USE DEF GateInv, Orderly, TypeOK
<1>1. CASE \E a \in Approvals : a \in A /\ Awaited(a)
  <2>1. PICK a \in Approvals : a \in A /\ Awaited(a)
    BY <1>1
  <2>2. \A b \in Approvals \ {a} : ~Awaited(b)
    BY <2>1 DEF OneThread
  <2>3. /\ approval'[a] = d
        /\ \A b \in Approvals \ {a} : approval'[b] = approval[b] \/ b \in late
    BY <2>1, <2>2 DEF ResolveRequests, Awaited
  <2>4. GateStage(a) = "asked" /\ GateStage(a)' = d
    BY <2>1, <2>3 DEF AnsweredLast, Unanswered, Awaited, GateStage, Decisions
  <2>5. \A b \in Approvals \ {a} : GateStage(b)' = GateStage(b)
    BY <2>3 DEF GateStage
  <2>6. Gate!Move(a, {"asked"}, d)
    BY <2>4, <2>5, OneMoves
  <2>. QED
    BY <2>6 DEF Gate!Next, Gate!Decide, Decisions
<1>2. CASE ~\E a \in Approvals : a \in A /\ Awaited(a)
  <2>1. \A a \in Approvals : approval'[a] = approval[a] \/ (a \in late /\ Unasked(a)')
    BY <1>2 DEF ResolveRequests, Awaited, Unasked
  <2>. QED
    BY <2>1, NoneMoves
<1>. QED
  BY <1>1, <1>2

LEMMA GateStep ==
  ASSUME GateInv, ~misled, [Next]_vars
  PROVE  Gate!Next \/ UNCHANGED Stages
<1> USE DEF GateInv, Orderly, TypeOK, tables, cards
<1>1. CASE UNCHANGED vars
  BY <1>1, NoneMoves DEF vars
<1>2. ASSUME NEW r \in Runners, BeginRun(r)
      PROVE  Gate!Next
  <2>1. PICK a \in Approvals :
        /\ a = call[r]
        /\ Unanswered(a)
        /\ decision[r] \in Decisions
        /\ IF Unasked(a) THEN decision[r] = "rejected" ELSE approval[a] = decision[r]
    BY <1>2 DEF BeginRun, AnsweredLast, DecisionFits, Procs
  <2>2. approval' = approval /\ late' = late
    BY <1>2 DEF BeginRun
  <2>3. \A b \in Approvals, e \in Decisions :
          given'[b][e] = IF b = a /\ e = decision[r] THEN given[b][e] + 1 ELSE given[b][e]
    BY <1>2, <2>1, GivenOnce DEF BeginRun
  <2>4. \A b \in Approvals \ {a} : GateStage(b)' = GateStage(b)
    BY <2>2, <2>3 DEF GateStage, Decisions
  <2>5. CASE decision[r] = "approved"
    <3>1. GateStage(a) = "approved" /\ GateStage(a)' = "made"
      BY <2>1, <2>2, <2>3, <2>5 DEF GateStage, Unanswered, Unasked, Decisions
    <3>2. Gate!Move(a, {"approved"}, "made")
      BY <2>1, <2>4, <3>1, OneMoves
    <3>. QED
      BY <2>1, <3>2 DEF Gate!Next, Gate!Make
  <2>6. CASE decision[r] = "rejected"
    <3>1. GateStage(a) \in {"new", "rejected"} /\ GateStage(a)' = "refused"
      BY <2>1, <2>2, <2>3, <2>6 DEF GateStage, Unanswered, Unasked, Decisions
    <3>2. Gate!Move(a, {"new", "rejected"}, "refused")
      BY <2>1, <2>4, <3>1, OneMoves
    <3>. QED
      BY <2>1, <3>2 DEF Gate!Next, Gate!Refuse
  <2>. QED
    BY <2>1, <2>5, <2>6 DEF Decisions
<1>3. ASSUME NEW r \in Runners, AskApproval(r)
      PROVE  Gate!Next
  <2>1. PICK a \in Approvals : /\ a = call[r] /\ Unanswered(a)
                              /\ approval[a] = "none" /\ a \notin late
    BY <1>3 DEF AskApproval, AnsweredLast, AskInv, LateInv, Asks, Procs
  <2>2. /\ approval'[a] = "pending"
        /\ \A b \in Approvals \ {a} : approval'[b] = approval[b]
        /\ given' = given /\ late' = late
    BY <1>3, <2>1 DEF AskApproval
  <2>3. GateStage(a) = "new" /\ GateStage(a)' = "asked"
    BY <2>1, <2>2 DEF GateStage, Unanswered
  <2>4. \A b \in Approvals \ {a} : GateStage(b)' = GateStage(b)
    BY <2>2 DEF GateStage
  <2>5. Gate!Move(a, {"new"}, "asked")
    BY <2>1, <2>3, <2>4, OneMoves
  <2>. QED
    BY <2>1, <2>5 DEF Gate!Next, Gate!Ask
<1>4. ASSUME NEW r \in Runners,
             Pause(r) \/ SaveRunState(r) \/ AskFails(r) \/ EndRun(r)
      PROVE  UNCHANGED Stages
  <2>1. CASE AskFails(r)
    <3>1. call[r] \in Approvals /\ approval[call[r]] = "none"
      BY <2>1 DEF AskFails, AskInv, Asks, Procs
    <3>2. given' = given
      BY <2>1 DEF AskFails
    <3>3. \A a \in Approvals : GateStage(a)' = GateStage(a)
      BY <2>1, <3>1, <3>2 DEF AskFails, GateStage
    <3>. QED
      BY <3>3 DEF Stages
  <2>. QED
    BY <1>4, <2>1, NoneMoves DEF Pause, SaveRunState, EndRun
<1>5. ASSUME NEW h \in Handlers, HandlerStep(h)
      PROVE  Gate!Next \/ UNCHANGED Stages
  <2>1. CASE Expire(h)
    BY <2>1, DecideMoves DEF Expire, Decisions
  <2>2. CASE Resolve(h)
    BY <1>5, <2>2, DecideMoves DEF Resolve, Procs
  <2>3. CASE DeleteSession(h)
    BY <2>3, DecideMoves DEF DeleteSession, Decisions
  <2>. QED
    BY <1>5, <2>1, <2>2, <2>3, NoneMoves DEF HandlerStep, TextDecision, Click,
       CheckRunState, TimesOut, WipeSession
<1>6. ASSUME NEW p \in Procs, ResumeStep(p)
      PROVE  UNCHANGED Stages
  BY <1>6, NoneMoves DEF ResumeStep, LoadRunState, DeleteAndSpawn, DeleteFails
<1>7. CASE Crash
  <2>1. /\ approval' = approval /\ given' = given
        /\ late' = {a \in late : ~(approval[a] = "pending" /\ runState = a)}
    BY <1>7 DEF Crash
  <2>2. CASE \E a \in Approvals : a \in late /\ approval[a] = "pending" /\ runState = a
    <3>1. PICK a \in Approvals : a \in late /\ approval[a] = "pending" /\ runState = a
      BY <2>2
    <3>2. Unanswered(a)
      BY <3>1 DEF AnsweredLast
    <3>3. GateStage(a) = "new" /\ GateStage(a)' = "asked"
      BY <2>1, <3>1, <3>2 DEF GateStage, Unanswered
    <3>4. \A b \in Approvals \ {a} : GateStage(b)' = GateStage(b)
      BY <2>1, <3>1 DEF GateStage
    <3>5. Gate!Move(a, {"new"}, "asked")
      BY <3>1, <3>3, <3>4, OneMoves
    <3>. QED
      BY <3>1, <3>5 DEF Gate!Next, Gate!Ask
  <2>3. CASE ~\E a \in Approvals : a \in late /\ approval[a] = "pending" /\ runState = a
    <3>1. late' = late
      BY <2>1, <2>3
    <3>. QED
      BY <2>1, <3>1, NoneMoves
  <2>. QED
    BY <2>2, <2>3
<1>8. CASE Startup
  <2>1. ASSUME NEW a \in Approvals, RestoreOne(a)
        PROVE  Gate!Next \/ UNCHANGED Stages
    BY <2>1, DecideMoves, NoneMoves DEF RestoreOne, Decisions
  <2>. QED
    BY <1>8, <2>1, NoneMoves DEF Startup, ReadPending, RestoreDone, CleanupExpired
<1>. QED
  BY <1>1, <1>2, <1>3, <1>4, <1>5, <1>6, <1>7, <1>8 DEF Next, RunnerStep

\* Whatever the two tables, the tasks and the startup do in between, what the
\* agent sees of it is the abstract gate: every call is asked at most once,
\* decided at most once, and made only after its own approval, as long as
\* nobody answers a card that a failed INSERT left behind.
THEOREM HitlImplementsGate ==
  ASSUME ~TextReplies
  PROVE  Spec => ImplementsGate
<1>1. Init => Gate!Init
  <2> SUFFICES ASSUME Init
               PROVE  Gate!Init
    OBVIOUS
  <2>1. \A a \in Approvals : GateStage(a) = "new"
    BY DEF Init, GateStage, Decisions
  <2>. QED
    BY <2>1 DEF Gate!Init, Stages
<1>2. GateInv /\ [Next]_vars => [misled' \/ Gate!Next]_Stages
  BY GateStep, MisledForGood
<1>. QED
  BY <1>1, <1>2, GateInvAlways, PTL DEF Spec, ImplementsGate
=============================================================================
