--------------------------- MODULE MCAtlasWrites ---------------------------
(* Small instances of AtlasWrites for TLC. *)
EXTENDS AtlasWrites, TLC

\* Assets, locations and requests are interchangeable within their sets.
Symmetry == Permutations(Eoats) \cup Permutations(Machines)
              \cup Permutations(Locations) \cup Permutations(Requests)
=============================================================================
