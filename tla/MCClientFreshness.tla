------------------------- MODULE MCClientFreshness -------------------------
(* Small instances of ClientFreshness for TLC. *)
EXTENDS ClientFreshness, TLC

\* The writes of one kind are interchangeable.
Symmetry == Permutations(FedWrites) \cup Permutations(UnfedWrites)
=============================================================================
