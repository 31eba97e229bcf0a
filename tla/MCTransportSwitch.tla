------------------------- MODULE MCTransportSwitch -------------------------
(* Small instances of TransportSwitch for TLC. *)
EXTENDS TransportSwitch, TLC

Symmetry == Permutations(Procs)
=============================================================================
