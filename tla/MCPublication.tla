---------------------------- MODULE MCPublication ----------------------------
(* Instances of Publication for TLC.                                        *)
EXTENDS Publication, TLC

Symmetry == Permutations(Operators) \cup Permutations(Assets)
=============================================================================
