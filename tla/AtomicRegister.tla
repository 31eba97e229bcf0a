--------------------------- MODULE AtomicRegister ---------------------------
(***************************************************************************)
(* What the state store promises its callers: one value that changes by a  *)
(* whole committed change at a time, and changes that were acknowledged    *)
(* are never taken back.  Only the last change, and only while it is not   *)
(* acknowledged, may vanish (a power loss before it reached the disk).     *)
(***************************************************************************)
EXTENDS Naturals, Sequences, SequencesExt

CONSTANT Changes

VARIABLES
  value,  \* the committed changes, in order
  acked   \* the changes whose Save has returned success

vars == <<value, acked>>

Init == value = <<>> /\ acked = {}

Commit(c) == value' = Append(value, c) /\ UNCHANGED acked

Acknowledge ==
  /\ acked' # acked /\ acked \subseteq acked'
  /\ acked' \subseteq ToSet(value)
  /\ UNCHANGED value

(* A sync may be the step that both commits for good and acknowledges.     *)
Vanish ==
  /\ value # <<>> /\ Last(value) \notin acked
  /\ value' = Front(value)
  /\ UNCHANGED acked

Next == Acknowledge \/ Vanish \/ \E c \in Changes : Commit(c)

Spec == Init /\ [][Next]_vars
=============================================================================
