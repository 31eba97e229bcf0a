---------------------------- MODULE MCCARotation ----------------------------
(* CARotation with one member, a node that may join, and the faults of its *)
(* runs.                                                                   *)
EXTENDS CARotation

CONSTANTS n1, n2

MCWrites ==
  {<<"join", n2>>, <<"replace", n1>>, <<"revoke", n1>>, <<"delete", n1>>}

\* Faults of every kind, but none of the LateErrors.
MCFaults ==
  {<<"stage", "io">>, <<"update", "io">>, <<"update", "sync">>,
   <<"update", "delete">>, <<"update", "lost">>, <<"ack", "sync">>,
   <<"finish", "io">>, <<"finish", "delete">>, <<"controller", "crash">>}
=============================================================================
