----------------------------- MODULE MCTimeouts -----------------------------
(* Small instances of Timeouts for TLC. *)
EXTENDS Timeouts, TLC

\* reserve, and reserve-with-timeout.
SomeWaits == {NoTimeout, 1}

\* Connections differ in nothing but their name, and so do jobs.
Symmetry == Permutations(Conns) \union Permutations(Jobs)

=============================================================================
