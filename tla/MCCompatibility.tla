-------------------------- MODULE MCCompatibility --------------------------
(* Small instances of Compatibility for TLC. *)
EXTENDS Compatibility, TLC

\* Requests of one kind differ in nothing but their name.
Symmetry == Permutations(Requests)
=============================================================================
