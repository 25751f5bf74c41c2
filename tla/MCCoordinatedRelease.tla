------------------------- MODULE MCCoordinatedRelease -------------------------
(* An instance of CoordinatedRelease for TLC.                               *)
EXTENDS CoordinatedRelease, TLC

Symmetry == Permutations(Helpers) \cup Permutations(Releases \ {First})
=============================================================================
