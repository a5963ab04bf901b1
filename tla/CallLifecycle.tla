--------------------------- MODULE CallLifecycle ---------------------------
(***************************************************************************)
(* What the engine promises about each tool call the LLM makes, without    *)
(* the loop: a call is executed at most once, one that needs the user only *)
(* after the user has allowed it, and the conversation gets at most one    *)
(* result for it.  Executions that are interrupted are dropped for good.   *)
(***************************************************************************)
CONSTANT Calls

VARIABLES
  status,     \* how far each call has come
  sensitive   \* calls that need the user

Stages == {"unknown", "proposed", "allowed", "running", "answered", "dropped"}

At(stage) == {c \in Calls : status[c] = stage}

Moved(S, stage) == [c \in Calls |-> IF c \in S THEN stage ELSE status[c]]

Init ==
  /\ status = [c \in Calls |-> "unknown"]
  /\ sensitive = {}

Propose ==
  \E S \in SUBSET At("unknown") :
    /\ status' = Moved(S, "proposed")
    /\ \E T \in SUBSET S : sensitive' = sensitive \cup T

Allow ==
  \E c \in At("proposed") \cap sensitive :
    /\ status' = Moved({c}, "allowed")
    /\ UNCHANGED sensitive

Start ==
  \E S \in SUBSET (At("allowed") \cup (At("proposed") \ sensitive)) :
    /\ status' = Moved(S, "running")
    /\ UNCHANGED sensitive

\* The results of some calls go to the conversation; executions that are
\* over without one are dropped.
Close ==
  \E A \in SUBSET (At("running") \cup (At("proposed") \ sensitive)) :
    \E D \in SUBSET (At("running") \ A) :
      /\ status' = [c \in Calls |-> IF c \in A THEN "answered"
                                    ELSE IF c \in D THEN "dropped" ELSE status[c]]
      /\ UNCHANGED sensitive

Next == Propose \/ Allow \/ Start \/ Close

Spec == Init /\ [][Next]_<<status, sensitive>>
=============================================================================
