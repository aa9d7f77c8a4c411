------------------------ MODULE MCCycleAnnouncements ------------------------
(* Instance of CycleAnnouncements for TLC: see Announce.cfg.               *)
EXTENDS CycleAnnouncements

\* One of the two records of the profile that is read is set on the chain.
MCOnChain == {<<Researcher, 1>>}
=============================================================================
