----------------------------- MODULE MCDecisions -----------------------------
(***************************************************************************)
(* Decisions for TLC: hosts are interchangeable; the links hold every way  *)
(* to reach an entity early by a weak path and late by a strong one.       *)
(***************************************************************************)
EXTENDS Decisions, TLC

CONSTANTS n0, n1, n2, n3, n4

MCLinks ==
    << <<n0, n2>>, <<n0, n1>>, <<n1, n2>>, <<n2, n1>>, <<n2, n3>>, <<n1, n3>>, <<n3, n4>>, <<n2, n4>> >>
Symmetry == Permutations(Host)
=============================================================================
