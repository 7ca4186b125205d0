---------------------------- MODULE MCGraphRefresh ----------------------------
(***************************************************************************)
(* GraphRefresh for TLC.  Refresh inputs carry extracted proposals and no  *)
(* assessments, so every verdict is one of supporting evidence.            *)
(***************************************************************************)
EXTENDS GraphRefresh, TLC

Extracted == {[status |-> "eligible", margin |-> 1, retire |-> FALSE, supported |-> TRUE]}
=============================================================================
