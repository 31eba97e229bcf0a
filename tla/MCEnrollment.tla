---------------------------- MODULE MCEnrollment ----------------------------
(* Small instances of Enrollment.                                          *)
EXTENDS Enrollment, TLC

CONSTANTS h1, h2, n1, n2, n3, a, b, i1, i2, r1, s1, s2

Symmetry == UNION {Permutations(S) : S \in {Hosts, Ids, Names, Invites, Sessions}}
=============================================================================
