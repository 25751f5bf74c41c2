-------------------------- MODULE EoatsAndMachines --------------------------
(* What the write service moves and the location resolver finds.            *)
CONSTANTS Eoats, Machines
=============================================================================
