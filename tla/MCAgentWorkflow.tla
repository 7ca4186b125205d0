---------------------------- MODULE MCAgentWorkflow ----------------------------
(* A small instance of AgentWorkflow.                                      *)
EXTENDS AgentWorkflow, TLC

\* Invocations are alike but for their paths, which Init chooses.
Symmetry == Permutations(Attempt) \cup Permutations(Path)

=============================================================================
