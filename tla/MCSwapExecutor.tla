--------------------------- MODULE MCSwapExecutor ---------------------------
(* Instances of SwapExecutor for TLC: see SwapCalls.cfg.                   *)
EXTENDS SwapExecutor
=============================================================================
