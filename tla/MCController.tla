---------------------------- MODULE MCController ----------------------------
(* Instances of the gateway controller for TLC.                            *)
EXTENDS Controller

ControllerSymmetry == Permutations(Requests) \cup Permutations(LocalChanges)
=============================================================================
