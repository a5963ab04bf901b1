--------------------------- MODULE MCHitlApproval ---------------------------
(* Small instances of HitlApproval for TLC. *)
EXTENDS HitlApproval, TLC

CONSTANTS a1, a2, a3, h1, h2, r1, r2

\* Three pauses of a run, two messages handled at once, and a runner that is
\* still ending when the next one starts.
MCApprovals == {a1, a2, a3}
MCTwoApprovals == {a1, a2}
MCHandlers == {h1, h2}
MCOneHandler == {h1}
MCRunners == {r1, r2}
\* The properties promise nothing once a button has answered a refused call.
MCPromised == ~misled
MCSymmetry == Permutations(MCApprovals) \cup Permutations(MCHandlers)
=============================================================================
