---------------------------- MODULE MCPriceCache ----------------------------
(* Instance of PriceCache for TLC: see Prices.cfg.                         *)
EXTENDS PriceCache
=============================================================================
