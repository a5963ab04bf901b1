------------------------------ MODULE TaskRuns ------------------------------
(***************************************************************************)
(* What the task scheduler promises about the executions of stored tasks:  *)
(* those of one task follow one another, and the record of an execution is *)
(* closed once, with its outcome, before the execution is over.  Only a    *)
(* removal of the task interferes, and only a crash leaves a record open.  *)
(* An execution that a crash has cut off before it began is made up for by *)
(* a new one, which is not put in line: until the next crash the           *)
(* executions of its task may overlap.                                     *)
(***************************************************************************)
CONSTANTS Tasks, Executions

VARIABLES
  stage,     \* of each execution: new, active, over
  owner,     \* its task
  record,    \* its record: none, open or an outcome
  removing,  \* tasks being removed, with their records
  loose      \* tasks whose executions are not put in line

Outcomes == {"completed", "failed", "cancelled"}

Init ==
  /\ stage = [e \in Executions |-> "new"]
  /\ owner \in [Executions -> Tasks]
  /\ record = [e \in Executions |-> "none"]
  /\ removing = {}
  /\ loose = {}

Goes(e, s) == stage' = [stage EXCEPT ![e] = s]

\* The record of e is set to one of S.
Sets(e, S) == \E r \in S : record' = [record EXCEPT ![e] = r]

Begin(e, t) ==
  /\ stage[e] = "new"
  /\ t \in loose \/ \A f \in Executions : stage[f] = "active" => owner[f] # t
  /\ Goes(e, "active")
  /\ owner' = [owner EXCEPT ![e] = t]
  /\ UNCHANGED <<record, removing, loose>>

\* e makes up for f, the record of which a crash has left open.
Again(e, f) ==
  /\ stage[e] = "new"
  /\ stage[f] = "over"
  /\ record[f] = "open"
  /\ Goes(e, "active")
  /\ owner' = [owner EXCEPT ![e] = owner[f]]
  /\ loose' = loose \cup {owner[f]}
  /\ UNCHANGED <<record, removing>>

Open(e) ==
  /\ stage[e] = "active"
  /\ record[e] = "none"
  /\ Sets(e, {"open"})
  /\ UNCHANGED <<stage, owner, removing, loose>>

\* The outcome is recorded, even if the record has been deleted meanwhile.
Close(e) ==
  /\ stage[e] = "active"
  /\ record[e] \notin Outcomes
  /\ Sets(e, Outcomes)
  /\ UNCHANGED <<stage, owner, removing, loose>>

End(e) ==
  /\ stage[e] = "active"
  /\ record[e] # "open"
  /\ Goes(e, "over")
  /\ UNCHANGED <<owner, record, removing, loose>>

\* A removal of the task cuts the execution off, whatever its record says.
CutOff(e) ==
  /\ stage[e] = "active"
  /\ Goes(e, "over")
  /\ owner[e] \in removing
  /\ Sets(e, Outcomes \cup {record[e]})
  /\ UNCHANGED <<owner, removing, loose>>

Remove(t) ==
  /\ removing' = removing \cup {t}
  /\ UNCHANGED <<stage, owner, record, loose>>

\* A removal deletes the records; another one of the task may be under way.
Erase(t) ==
  /\ t \in removing
  /\ removing' \in {removing, removing \ {t}}
  /\ record' = [e \in Executions |-> IF owner[e] = t THEN "none" ELSE record[e]]
  /\ UNCHANGED <<stage, owner, loose>>

Crash ==
  /\ stage' = [e \in Executions |-> IF stage[e] = "active" THEN "over" ELSE stage[e]]
  /\ removing' = {}
  /\ loose' = {}
  /\ UNCHANGED <<owner, record>>

\* What a crash left open is failed after the restart.
Recover(e) ==
  /\ stage[e] = "over"
  /\ record[e] = "open"
  /\ Sets(e, {"failed"})
  /\ UNCHANGED <<stage, owner, removing, loose>>

Next ==
  \/ \E e \in Executions :
       \/ \E t \in Tasks : Begin(e, t)
       \/ \E f \in Executions : Again(e, f)
       \/ Open(e) \/ Close(e) \/ End(e) \/ CutOff(e) \/ Recover(e)
  \/ \E t \in Tasks : Remove(t) \/ Erase(t)
  \/ Crash

Spec == Init /\ [][Next]_<<stage, owner, record, removing, loose>>
=============================================================================
