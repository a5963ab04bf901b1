--------------------------- MODULE MCToolHarness ---------------------------
(***************************************************************************)
(* ToolHarness with the arguments as model values.                         *)
(***************************************************************************)
EXTENDS ToolHarness

CONSTANTS k1, k2

MCKeys == {k1, k2}
=============================================================================
