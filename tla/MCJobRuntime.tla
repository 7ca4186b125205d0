----------------------------- MODULE MCJobRuntime -----------------------------
(***************************************************************************)
(* JobRuntime for TLC.  Jobs, keys and clients are interchangeable; bodies *)
(* are not, for only some of them have a handler.                          *)
(***************************************************************************)
EXTENDS JobRuntime, TLC

Symmetry == Permutations(Job) \cup Permutations(Key) \cup Permutations(Client)
=============================================================================
