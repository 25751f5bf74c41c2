-------------------------- MODULE MCLauncherUpdate --------------------------
EXTENDS LauncherUpdate, TLC

(* Versions 1, 2 and 3, and a mandatory rebuild of version 2 that revokes 1. *)
Manifest(v, build, minimum, revoked) ==
    [version |-> v, build |-> build, minimum |-> minimum, mandatory |-> minimum > 1,
     revoked |-> revoked]

MCManifests ==
    {Manifest(1, "one", 1, {}), Manifest(2, "two", 1, {}), Manifest(2, "rebuilt", 2, {1}),
     Manifest(3, "three", 1, {})}

Symmetry == Permutations(Processes)
=============================================================================
