---------------------------- MODULE MCDomainPlan ----------------------------
(* Small instances of DomainPlan.                                          *)
EXTENDS DomainPlan, TLC

Symmetry == Permutations(Thread) \cup Permutations(Instrument)

=============================================================================
