-------------------------- MODULE MCCrossHostSaga --------------------------
(* Instances of the saga coordinator for TLC.                              *)
EXTENDS CrossHostSaga, TLC

ProcSymmetry == Permutations(Procs)
=============================================================================
