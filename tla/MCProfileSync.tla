---------------------------- MODULE MCProfileSync ---------------------------
(* Model checking of ProfileSync on a few devices. *)
EXTENDS ProfileSync, TLC

CONSTANTS d1, d2    \* the devices

MCDevices == {d1, d2}

(* The devices are alike. *)
Symmetry == Permutations(MCDevices)
=============================================================================
