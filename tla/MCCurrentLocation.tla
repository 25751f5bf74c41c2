------------------------- MODULE MCCurrentLocation -------------------------
(* Small instances of CurrentLocation for TLC. *)
EXTENDS CurrentLocation, TLC

CONSTANTS m1, m2, m3   \* the machines

\* The third machine is another plant's, and has the number of the first.
MCNumber == [m \in Machines |-> IF m = m2 THEN 2 ELSE 1]

\* EOATs, and the machines of one number, differ in nothing but their name.
Symmetry == Permutations(Eoats) \cup Permutations({m1, m3})
=============================================================================
