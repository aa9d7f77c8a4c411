---------------------------- MODULE MCTradeCycle ----------------------------
(* Instances of TradeCycle for TLC: see the Cycle*.cfg files.              *)
EXTENDS TradeCycle
=============================================================================
