------------------------------ MODULE Decisions ------------------------------
(***************************************************************************)
(* Three procedures that decide on data and keep no state between calls:   *)
(* the verdict of the graph pipeline on an edge, the propagation of a      *)
(* shock and the research pipeline.  They do not interact: a behaviour     *)
(* runs one of them.                                                       *)
(***************************************************************************)
EXTENDS EdgePolicy, Scenario, Research

vars == <<obs, scenario, research>>

Idle == [kind |-> "none"]

DecisionsInit ==
    \/ Init /\ Inert /\ Init0(Idle)
    \/ obs = {} /\ ScenarioInit /\ Init0(Idle)
    \/ obs = {} /\ Inert /\ ResearchInit

DecisionsNext ==
    \/ Next /\ best[Shock] = NoPath /\ input = Idle /\ UNCHANGED <<scenario, research>>
    \/ ScenarioNext /\ UNCHANGED <<obs, research>>
    \/ ResearchNext /\ UNCHANGED <<obs, scenario>>

DecisionsSpec == DecisionsInit /\ [][DecisionsNext]_vars
=============================================================================
