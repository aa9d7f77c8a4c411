---------------------------- MODULE SwapContract ----------------------------
(***************************************************************************)
(* What a caller of KeeperHubSwapExecutor.execute_swap can get back: the   *)
(* fields of SwapResult (core/uniswap/models.py) that callers branch on,   *)
(* namely its status and whether it carries a hash and an error text.      *)
(* KeeperHubExecutor and SwapExecutor guarantee it (SwapPromise);          *)
(* SwarmAgents and TradeCycle rely on it instead of running the executor's *)
(* own steps.                                                              *)
(***************************************************************************)

SwapStatus == {"CONFIRMED", "SUBMITTED", "FAILED"}

\* CONFIRMED comes without an error; SUBMITTED either without one (the
\* execution still runs) or, from a quote error, with one and no hash.
SwapOutcomes ==
  {o \in [status : SwapStatus, tx : BOOLEAN, err : BOOLEAN] :
     /\ o.status = "CONFIRMED" => ~o.err
     /\ o.status = "SUBMITTED" => ~(o.tx /\ o.err)}
=============================================================================
