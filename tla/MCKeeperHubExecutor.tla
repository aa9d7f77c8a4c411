------------------------ MODULE MCKeeperHubExecutor ------------------------
(* Instances of KeeperHubExecutor for TLC: see the KH*.cfg files.          *)
EXTENDS KeeperHubExecutor
=============================================================================
