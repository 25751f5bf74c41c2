--------------------------- MODULE MCDeployHelper ---------------------------
(* DeployHelper for TLC.                                                   *)
EXTENDS DeployHelper, TLC

Symmetry == Permutations(Deployments) \cup Permutations(Helpers) \cup Permutations(Releases \ {Base})
=============================================================================
