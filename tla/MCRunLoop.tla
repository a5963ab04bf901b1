----------------------------- MODULE MCRunLoop -----------------------------
(***************************************************************************)
(* RunLoop with the bounds of its cfg; no definition is replaced.          *)
(***************************************************************************)
EXTENDS RunLoop
=============================================================================
