---------------------------- MODULE HitlApproval ----------------------------
(***************************************************************************)
(* Human approval of the tool calls of one agent run: HITLManager          *)
(* (scheduler/hitl_manager.py) stores the paused run in run_states,        *)
(* HITLBridge (hitl/bridge.py) keeps the approvals in approval_requests,   *)
(* and both tables outlive the process.                                    *)
(*                                                                         *)
(* A run that reaches a sensitive call pauses: its RunState is stored      *)
(* under its run_id and an approval with a new id is asked for.  The run   *)
(* keeps its run_id when it is resumed, so its next pause stores the next  *)
(* RunState in the same row.  Approvals are answered with a button, which  *)
(* names the approval, or with a text, which names nothing.  Inbound       *)
(* messages are handled concurrently, each by a task of its own; an action *)
(* is the code between two accesses to the tables.                         *)
(***************************************************************************)
EXTENDS Naturals, FiniteSets

CONSTANTS
  Approvals,     \* approval ids, one per pause of the run
  NoApproval,
  Handlers,      \* tasks that handle inbound messages
  Runners,       \* background tasks that execute the run
  FirstRunner,   \* the one that started it
  TextReplies,   \* may an approval be answered with a text message?
  TablesFail     \* may a query or a write of the tables fail or time out?

ASSUME HitlAssumption ==
  /\ NoApproval \notin Approvals
  /\ Handlers \cap Runners = {}
  /\ FirstRunner \in Runners
  /\ {TextReplies, TablesFail} \subseteq BOOLEAN

Decisions == {"approved", "rejected"}
Procs == Handlers \cup Runners

VARIABLES
  approval,      \* approval_requests: status and decision of each approval
  runState,      \* run_states: the call the stored RunState waits for
  drawn,         \* approval ids drawn so far
  deleted,       \* sessions.is_deleted
  boot,          \* how far the process has started up
  toRestore,     \* pending approvals read by the restore in progress
  pc, call, decision,   \* each task: where it is, about which call
  snap,          \* each task: the RunState it has loaded
  given,         \* how often the agent was given each decision for a call
  unseen,        \* approvals whose card was not shown to anybody yet
  late,          \* history: approvals stored although their INSERT failed, so
                 \* that the run was told they are rejected
  misled         \* history: has a button answered one of those?

tables == <<approval, runState, drawn, deleted>>
starting == <<boot, toRestore>>
locals == <<call, decision, snap>>
cards == <<unseen, late, misled>>
vars == <<tables, starting, pc, locals, given, cards>>

HandlerStages ==
  {"idle", "looked", "expire", "resolve", "dispatch", "loaded", "wiping"}
RunnerStages ==
  {"idle", "queued", "run", "saving", "asking", "dispatch", "loaded"}

TypeOK ==
  /\ approval \in [Approvals -> {"none", "pending"} \cup Decisions]
  /\ runState \in Approvals \cup {NoApproval}
  /\ drawn \subseteq Approvals
  /\ deleted \in BOOLEAN
  /\ boot \in {"wired", "restoring", "routed", "cleaned", "rerestoring", "up"}
  /\ toRestore \subseteq Approvals
  /\ pc \in [Procs -> HandlerStages \cup RunnerStages]
  /\ \A h \in Handlers : pc[h] \in HandlerStages
  /\ \A r \in Runners : pc[r] \in RunnerStages
  /\ \A r \in Runners : pc[r] \in {"saving", "asking"} => call[r] \in Approvals
  /\ call \in [Procs -> Approvals \cup {NoApproval}]
  /\ decision \in [Procs -> Decisions]
  /\ snap \in [Procs -> Approvals \cup {NoApproval}]
  /\ given \in [Approvals -> [Decisions -> Nat]]
  /\ unseen \subseteq Approvals
  /\ late \subseteq Approvals
  /\ misled \in BOOLEAN

Init ==
  /\ approval = [a \in Approvals |-> "none"]
  /\ runState = NoApproval
  /\ drawn = {}
  /\ deleted = FALSE
  /\ boot = "up"
  /\ toRestore = {}
  /\ pc = [p \in Procs |-> IF p = FirstRunner THEN "run" ELSE "idle"]
  /\ call = [p \in Procs |-> NoApproval]
  /\ decision = [p \in Procs |-> "rejected"]
  /\ snap = [p \in Procs |-> NoApproval]
  /\ given = [a \in Approvals |-> [d \in Decisions |-> 0]]
  /\ unseen = {}
  /\ late = {}
  /\ misled = FALSE

PendingApprovals == {a \in Approvals : approval[a] = "pending"}

\* resolve_approval_request: UPDATE ... WHERE status = 'pending'.
ResolveAlways(A, d) ==
  approval' = [a \in Approvals |-> IF a \in A THEN d ELSE approval[a]]

ResolveRequests(A, d) ==
  approval' = [a \in Approvals |->
                 IF a \in A /\ approval[a] = "pending" THEN d ELSE approval[a]]

\* A task goes on, with the locals it has; or starts afresh, without any.
Goto(p, stage) ==
  /\ pc' = [pc EXCEPT ![p] = stage]
  /\ UNCHANGED locals

Afresh(p, stage) ==
  /\ pc' = [pc EXCEPT ![p] = stage]
  /\ call' = [call EXCEPT ![p] = NoApproval]
  /\ decision' = [decision EXCEPT ![p] = "rejected"]
  /\ snap' = [snap EXCEPT ![p] = NoApproval]

Leave(p) == Afresh(p, "idle")

-----------------------------------------------------------------------------
(* A runner executes the run and pauses it.                                *)

\* The pool serves the tasks of a session one after the other.
Serving == {r \in Runners : pc[r] \notin {"idle", "queued"}}

\* The agent continues from the snapshot with the decision it was given.
BeginRun(r) ==
  /\ pc[r] = "queued"
  /\ Serving = {}
  /\ given' = [given EXCEPT ![call[r]][decision[r]] = @ + 1]
  /\ Afresh(r, "run")
  /\ UNCHANGED <<tables, starting, cards>>

\* hitl_requested: the run waits for a new approval.
Pause(r) ==
  /\ pc[r] = "run"
  /\ \E a \in Approvals \ drawn :
        /\ drawn' = drawn \cup {a}
        /\ call' = [call EXCEPT ![r] = a]
  /\ pc' = [pc EXCEPT ![r] = "saving"]
  /\ UNCHANGED <<approval, runState, deleted, starting, decision, snap, given, cards>>

\* save_run_state; an error is only logged, and leaves the row as it was or
\* written all the same.
SaveRunState(r) ==
  /\ pc[r] = "saving"
  /\ runState' = call[r] \/ (TablesFail /\ UNCHANGED runState)
  /\ Goto(r, "asking")
  /\ UNCHANGED <<approval, drawn, deleted, starting, given, cards>>

\* handle_approval_needed: the approval is stored and its card broadcast, and
\* the runner is done ...
AskApproval(r) ==
  /\ pc[r] = "asking"
  /\ approval' = [approval EXCEPT ![call[r]] = "pending"]
  /\ Leave(r)
  /\ UNCHANGED <<runState, drawn, deleted, starting, given, cards>>

\* ... or storing it fails, and the run is resumed with a rejection.  Of an
\* INSERT that times out the row may be stored all the same: the connection
\* runs its statements in turn, so it is there before the next one is run.
AskFails(r) ==
  /\ TablesFail
  /\ pc[r] = "asking"
  /\ \/ UNCHANGED <<approval, cards>>
     \/ /\ approval' = [approval EXCEPT ![call[r]] = "pending"]
        /\ unseen' = unseen \cup {call[r]}
        /\ late' = late \cup {call[r]}
        /\ UNCHANGED misled
  /\ Goto(r, "dispatch")
  /\ UNCHANGED <<runState, drawn, deleted, starting, given>>

\* The run completes, fails or is cancelled, at any point.
EndRun(r) ==
  /\ pc[r] # "idle"
  /\ Leave(r)
  /\ UNCHANGED <<tables, starting, given, cards>>

-----------------------------------------------------------------------------
(* A button: handle_approval_response.                                     *)

\* The approval of a card is looked up; one that is not pending is ignored.
Click(h, a, d) ==
  /\ pc[h] = "idle"
  /\ a \notin unseen
  /\ approval[a] = "pending"
  /\ call' = [call EXCEPT ![h] = a]
  /\ decision' = [decision EXCEPT ![h] = d]
  /\ pc' = [pc EXCEPT ![h] = "looked"]
  /\ UNCHANGED <<tables, starting, snap, given, cards>>

\* Is there a RunState left?  A failing query counts as no.
CheckRunState(h) ==
  /\ pc[h] = "looked"
  /\ \/ (runState = NoApproval \/ TablesFail) /\ Goto(h, "expire")
     \/ runState # NoApproval /\ Goto(h, "resolve")
  /\ UNCHANGED <<tables, starting, given, cards>>

\* No: the approval is rejected and nobody is resumed.
Expire(h) ==
  /\ pc[h] = "expire"
  /\ ResolveRequests({call[h]}, "rejected")
  /\ Leave(h)
  /\ UNCHANGED <<runState, drawn, deleted, starting, given, cards>>

\* Yes: the first decision wins and is passed on.
ResolveLoserToo(h) ==
  /\ pc[h] = "resolve"
  /\ ResolveRequests({call[h]}, decision[h])
  /\ Goto(h, "dispatch")
  /\ misled' = (misled \/ (approval[call[h]] = "pending" /\ call[h] \in late))
  /\ UNCHANGED <<runState, drawn, deleted, starting, given, unseen, late>>

Resolve(h) ==
  /\ pc[h] = "resolve"
  /\ ResolveRequests({call[h]}, decision[h])
  /\ IF approval[call[h]] = "pending" THEN Goto(h, "dispatch") ELSE Leave(h)
  /\ misled' = (misled \/ (approval[call[h]] = "pending" /\ call[h] \in late))
  /\ UNCHANGED <<runState, drawn, deleted, starting, given, unseen, late>>

-----------------------------------------------------------------------------
(* The decision reaches HITLManager.resume.                                *)

\* Until AgentScheduler has registered its handlers, the router discards
\* decisions and text messages.
Routed == boot \notin {"wired", "restoring"}

\* A text such as "yes": it decides whatever the run is waiting for, without
\* touching the approval.
TextDecision(h, d) ==
  /\ TextReplies
  /\ Routed
  /\ pc[h] = "idle"
  /\ runState # NoApproval
  /\ call' = [call EXCEPT ![h] = runState]
  /\ decision' = [decision EXCEPT ![h] = d]
  /\ pc' = [pc EXCEPT ![h] = "dispatch"]
  /\ UNCHANGED <<tables, starting, snap, given, cards>>

LoadRunState(p) ==
  /\ pc[p] = "dispatch"
  /\ \/ /\ Routed
        /\ runState # NoApproval
        /\ snap' = [snap EXCEPT ![p] = runState]
        /\ pc' = [pc EXCEPT ![p] = "loaded"]
        /\ UNCHANGED <<call, decision>>
     \/ /\ ~Routed \/ runState = NoApproval
        /\ Leave(p)
  /\ UNCHANGED <<tables, starting, given, cards>>

\* delete_run_state, then the run is continued in the background.
DeleteAndRunInline(p) ==
  /\ pc[p] = "loaded"
  /\ runState' = NoApproval
  /\ Goto(p, "run")
  /\ UNCHANGED <<approval, drawn, deleted, starting, given, cards>>

DeleteAndSpawn(p) ==
  /\ pc[p] = "loaded"
  /\ runState' = NoApproval
  /\ \E r \in Runners :
        /\ pc[r] = "idle"
        /\ pc' = [pc EXCEPT ![p] = "idle", ![r] = "queued"]
        /\ call' = [call EXCEPT ![p] = NoApproval, ![r] = snap[p]]
        /\ decision' = [decision EXCEPT ![p] = "rejected", ![r] = decision[p]]
        /\ snap' = [snap EXCEPT ![p] = NoApproval]
  /\ UNCHANGED <<approval, drawn, deleted, starting, given, cards>>

\* get_run_state or delete_run_state raises: the RunState is deleted once more,
\* as far as that succeeds, and nobody is resumed.
DeleteFails(p) ==
  /\ TablesFail
  /\ pc[p] = "loaded"
  /\ runState' \in {NoApproval, runState}
  /\ Leave(p)
  /\ UNCHANGED <<approval, drawn, deleted, starting, given, cards>>

\* The router gives up on a handler.
TimesOut(h) ==
  /\ pc[h] # "idle"
  /\ Leave(h)
  /\ UNCHANGED <<tables, starting, given, cards>>

-----------------------------------------------------------------------------
(* The session is deleted: soft_delete_session.                            *)

\* Its pending approvals are rejected, each as far as that succeeds ...
DeleteSession(h) ==
  /\ pc[h] = "idle"
  /\ boot = "up"
  /\ ~deleted
  /\ \/ ResolveRequests(PendingApprovals, "rejected")
     \/ TablesFail /\ \E A \in SUBSET PendingApprovals : ResolveRequests(A, "rejected")
  /\ Goto(h, "wiping")
  /\ UNCHANGED <<runState, drawn, deleted, starting, given, cards>>

\* ... then its RunStates are deleted, as far as that succeeds.
WipeSession(h) ==
  /\ pc[h] = "wiping"
  /\ runState' = NoApproval \/ (TablesFail /\ UNCHANGED runState)
  /\ deleted' = TRUE
  /\ Leave(h)
  /\ UNCHANGED <<approval, drawn, starting, given, cards>>

-----------------------------------------------------------------------------
(* Crash and startup.                                                      *)

\* The tasks are gone.  A call about which nobody carries a rejection any more
\* and whose RunState is stored waits for its approval like any other.
Crash ==
  /\ pc' = [p \in Procs |-> "idle"]
  /\ call' = [p \in Procs |-> NoApproval]
  /\ decision' = [p \in Procs |-> "rejected"]
  /\ snap' = [p \in Procs |-> NoApproval]
  /\ boot' = "wired"
  /\ toRestore' = {}
  /\ late' = {a \in late : ~(approval[a] = "pending" /\ runState = a)}
  /\ UNCHANGED <<tables, given, unseen, misled>>

\* restore_pending_approvals reads the pending approvals; it runs before and
\* after the TTL cleanup.
ReadPending ==
  /\ boot \in {"wired", "cleaned"}
  /\ toRestore' = PendingApprovals \/ (TablesFail /\ toRestore' = {})
  /\ boot' = IF boot = "wired" THEN "restoring" ELSE "rerestoring"
  /\ UNCHANGED <<tables, pc, locals, given, cards>>

OrphanNever == FALSE

Orphan == runState = NoApproval

\* Each is broadcast again, or rejected when its RunState is gone.  A failing
\* query counts as gone; a failing update leaves the approval pending.
RestoreOne(a) ==
  /\ a \in toRestore
  /\ toRestore' = toRestore \ {a}
  /\ \/ /\ Orphan \/ TablesFail
        /\ ResolveRequests({a}, "rejected") \/ (TablesFail /\ UNCHANGED approval)
        /\ UNCHANGED unseen
     \/ /\ ~Orphan
        /\ unseen' = unseen \ {a}
        /\ UNCHANGED approval
  /\ UNCHANGED <<runState, drawn, deleted, boot, pc, locals, given, late, misled>>

RestoreDone ==
  /\ boot \in {"restoring", "rerestoring"}
  /\ toRestore = {}
  /\ boot' = IF boot = "restoring" THEN "routed" ELSE "up"
  /\ UNCHANGED <<tables, toRestore, pc, locals, given, cards>>

\* cleanup_expired: the RunState may be older than the TTL.
CleanupExpired ==
  /\ boot = "routed"
  /\ runState' \in {NoApproval, runState}
  /\ boot' = "cleaned"
  /\ UNCHANGED <<approval, drawn, deleted, toRestore, pc, locals, given, cards>>

Startup ==
  \/ ReadPending
  \/ \E a \in Approvals : RestoreOne(a)
  \/ RestoreDone
  \/ CleanupExpired

RunnerStep(r) ==
  \/ BeginRun(r)
  \/ Pause(r)
  \/ SaveRunState(r)
  \/ AskApproval(r)
  \/ AskFails(r)
  \/ EndRun(r)

HandlerStep(h) ==
  \/ \E d \in Decisions : TextDecision(h, d) \/ \E a \in Approvals : Click(h, a, d)
  \/ CheckRunState(h)
  \/ Expire(h)
  \/ Resolve(h)
  \/ TimesOut(h)
  \/ DeleteSession(h)
  \/ WipeSession(h)

ResumeStep(p) == LoadRunState(p) \/ DeleteAndSpawn(p) \/ DeleteFails(p)

Next ==
  \/ \E r \in Runners : RunnerStep(r)
  \/ \E h \in Handlers : HandlerStep(h)
  \/ \E p \in Procs : ResumeStep(p)
  \/ Crash
  \/ Startup

Spec == Init /\ [][Next]_vars

FairSpec == Spec /\ WF_vars(Startup)

-----------------------------------------------------------------------------
(* Properties                                                              *)

(* An approval whose INSERT failed and took effect all the same is pending   *)
(* although its call was refused.  Restarting shows its card, and a decision *)
(* about it is carried to whatever the run waits for by then: that can break *)
(* what follows, which is therefore promised until such a card is answered.  *)

\* A decision governs its own call: the agent makes a call only if the
\* approval asked for that very call was granted.
OwnCallOnly ==
  ~misled =>
    \A a \in Approvals : given[a]["approved"] > 0 => approval[a] = "approved"

\* BL7: a paused run is resumed at most once, whoever clicks what where and
\* whatever crashes or fails.
ResumedOnce ==
  ~misled =>
    \A a \in Approvals : given[a]["approved"] + given[a]["rejected"] <= 1

\* The approvals as the abstract specification sees them; one that the run was
\* told is rejected was never asked about.
GateStage(a) ==
  IF given[a]["approved"] > 0 THEN "made"
  ELSE IF given[a]["rejected"] > 0 THEN "refused"
  ELSE IF approval[a] = "none" \/ a \in late THEN "new"
  ELSE IF approval[a] = "pending" THEN "asked"
  ELSE approval[a]

Stages == [a \in Approvals |-> GateStage(a)]

Gate == INSTANCE ApprovalGate WITH gate <- Stages

\* Every step of the two tables and the tasks decides one call, answers the
\* agent about one decided call, or is invisible.
ImplementsGate == Gate!Init /\ [][misled' \/ Gate!Next]_Stages

\* A pending approval whose RunState did not survive the startup cleanup is
\* rejected during that startup, whatever else happens meanwhile.
StartupRejectsOrphans ==
  \A a \in Approvals :
    boot = "cleaned" /\ approval[a] = "pending" /\ runState = NoApproval
    ~> approval[a] # "pending" \/ runState # NoApproval \/ boot = "wired"

\* BL1: a decision is final.
DecidedOnce ==
  [][\A a \in Approvals :
       approval[a] \in Decisions => approval'[a] = approval[a]]_vars
=============================================================================
