-------------------------------- MODULE MCOta --------------------------------
(* Instances of Ota; the .cfg files choose the configuration and bounds.   *)
EXTENDS Ota, TLC

CONSTANTS t1, t2

Symmetry == Permutations(Tasks)
==============================================================================
