------------------------------ MODULE MCTasque ------------------------------
(* Small instances of Tasque for TLC. *)
EXTENDS TasqueRefinement

\* Connections differ in nothing but their name.
ConnSymmetry == Permutations(Conns)

=============================================================================
