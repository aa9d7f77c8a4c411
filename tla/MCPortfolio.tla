---------------------------- MODULE MCPortfolio -----------------------------
(* Instance of Portfolio for TLC: see Portfolio.cfg.                       *)
EXTENDS Portfolio

\* Bitcoin leads by just enough, then not by enough and below the clamp.
MCMarket ==
  << [ethereum |-> [usd |-> 3, change |-> 0],    bitcoin |-> [usd |-> 60, change |-> 67]],
     [ethereum |-> [usd |-> 4, change |-> -600], bitcoin |-> [usd |-> 45, change |-> -434]] >>
=============================================================================
