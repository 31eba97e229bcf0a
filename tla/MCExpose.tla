------------------------------ MODULE MCExpose ------------------------------
(* Instances of the expose workflows for TLC.                              *)
EXTENDS Expose

CONSTANTS n1, n2, e1, e2, e3, p1, p2, p3

(* Two exposes of one node, and one of another that asks for the path of   *)
(* the first.                                                              *)
MCOwner == [e \in Ids |-> IF e = e3 THEN n2 ELSE n1]
MCPathOf == [e \in Ids |-> IF e = e2 THEN "y" ELSE "x"]
MCHostOf == [p \in Procs |-> IF p = p2 THEN n2 ELSE n1]
=============================================================================
