---------------------------- MODULE ApprovalGate ----------------------------
(***************************************************************************)
(* What human approval of tool calls promises: every call is decided once, *)
(* and the agent is given at most one answer for it, which lets it make    *)
(* the call only if that very call was approved.                           *)
(***************************************************************************)

CONSTANTS Approvals

VARIABLE gate   \* how far each call that needs an approval has come

Stages == {"new", "asked", "approved", "rejected", "made", "refused"}

Init == gate = [a \in Approvals |-> "new"]

Move(a, from, to) ==
  /\ gate[a] \in from
  /\ gate' = [gate EXCEPT ![a] = to]

Ask(a) == Move(a, {"new"}, "asked")

Decide(a) == \E d \in {"approved", "rejected"} : Move(a, {"asked"}, d)

Make(a) == Move(a, {"approved"}, "made")

\* A call that could not even be asked about is refused.
Refuse(a) == Move(a, {"new", "rejected"}, "refused")

Next == \E a \in Approvals : Ask(a) \/ Decide(a) \/ Make(a) \/ Refuse(a)

Spec == Init /\ [][Next]_gate
=============================================================================
