-------------------------- MODULE MCDesktopRelease --------------------------
(* An instance of DesktopRelease for TLC.                                   *)
EXTENDS DesktopRelease, TLC

Symmetry == Permutations(Publishers) \cup Permutations(Launchers)
=============================================================================
