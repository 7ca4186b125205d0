---------------------------- MODULE MCProductStore ----------------------------
(* Small instances of ProductStore.                                        *)
EXTENDS ProductStore, TLC

\* Requests, identifiers and contents are interchangeable.
Symmetry == Permutations(Thread) \cup Permutations(Id) \cup Permutations(Fresh)
                \cup Permutations(Content \ Unstorable)

=============================================================================
