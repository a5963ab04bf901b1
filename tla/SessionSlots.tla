---------------------------- MODULE SessionSlots ----------------------------
(***************************************************************************)
(* What the session agent pool promises: at most MaxConcurrent tasks are   *)
(* served at once, and at most one of each session.                        *)
(***************************************************************************)
EXTENDS Naturals, FiniteSets

CONSTANTS Tasks, SessionOf, MaxConcurrent

VARIABLE active   \* the tasks being served

Init == active = {}

Begin(t) ==
  /\ t \notin active
  /\ Cardinality(active) < MaxConcurrent
  /\ \A u \in active : SessionOf[u] # SessionOf[t]
  /\ active' = active \cup {t}

End(t) ==
  /\ t \in active
  /\ active' = active \ {t}

Next == \E t \in Tasks : Begin(t) \/ End(t)

Spec == Init /\ [][Next]_active
=============================================================================
