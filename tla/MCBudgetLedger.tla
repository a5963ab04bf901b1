--------------------------- MODULE MCBudgetLedger ---------------------------
(***************************************************************************)
(* BudgetLedger with small sets of callers and providers.                  *)
(***************************************************************************)
EXTENDS BudgetLedger, TLC

CONSTANTS r1, r2, s1, deepseek, dashscope

MCRuns == {r1, r2}
MCSetters == {s1}
MCProviders == {deepseek, dashscope}
MCLimits == {1, 2}
MCSymmetry == Permutations(MCRuns)
=============================================================================
