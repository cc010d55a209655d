---------------------------- MODULE MCAtClient ----------------------------
(* Instances of AtClient for TLC.                                          *)
EXTENDS AtClient, TLC

CallerSymmetry == Permutations(Callers)
=============================================================================
