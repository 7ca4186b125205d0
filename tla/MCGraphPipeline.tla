---------------------------- MODULE MCGraphPipeline ----------------------------
(***************************************************************************)
(* GraphPipeline for TLC.                                                  *)
(***************************************************************************)
EXTENDS GraphPipeline, TLC

\* An eligible edge that stays so for m clock units, a contradicted one, a retired one.
Conclusions(m) == {
    [status |-> "eligible", margin |-> m, retire |-> FALSE, supported |-> TRUE],
    [status |-> "review_required", margin |-> -1, retire |-> FALSE, supported |-> FALSE],
    [status |-> "ineligible", margin |-> m, retire |-> TRUE, supported |-> TRUE]}

Long == Conclusions(2)
=============================================================================
