---------------------------- MODULE SagaAbstract ----------------------------
(***************************************************************************)
(* What a cross-host operation promises, seen from the two hosts: its      *)
(* effects happen one at a time and in the order of the phases, none of    *)
(* them before the operation has durably reached it, and only the drain of *)
(* old connections may be cut short, once its deadline is past.  Who runs  *)
(* the operation, how often, and what is lost on the way is not visible.   *)
(***************************************************************************)
EXTENDS Integers

VARIABLES
  outcome,  \* "absent", "running", "failed" or "completed"
  phase,    \* the phase the operation has durably reached, 1 .. 8
  applied,  \* the effects the hosts have applied
  expired   \* the drain deadline is past

vars == <<outcome, phase, applied, expired>>

Drain == 6

Init == outcome = "absent" /\ phase = 1 /\ applied = {} /\ expired = FALSE

Begin ==
  /\ outcome = "absent"
  /\ outcome' = "running"
  /\ UNCHANGED <<phase, applied, expired>>

(* Only an operation that has touched nothing may fail.                    *)
Fail ==
  /\ outcome = "running" /\ phase = 1 /\ applied = {}
  /\ outcome' = "failed"
  /\ UNCHANGED <<phase, applied, expired>>

(* The effect of the current phase; a drain command may arrive late.       *)
Apply(k) ==
  /\ outcome # "absent" /\ outcome # "failed"
  /\ k = phase \/ (k = Drain /\ phase > Drain)
  /\ applied' = applied \cup {k}
  /\ UNCHANGED <<outcome, phase, expired>>

Expire ==
  /\ phase >= Drain
  /\ expired' = TRUE
  /\ UNCHANGED <<outcome, phase, applied>>

(* The next phase, once this one is done.  A publication found out late    *)
(* may come with a deadline that is already past.                          *)
Advance ==
  /\ outcome = "running" /\ phase < 8
  /\ \/ phase = 1
     \/ phase \in applied
     \/ phase = Drain /\ expired
  /\ phase' = phase + 1
  /\ outcome' = IF phase' = 8 THEN "completed" ELSE "running"
  /\ IF phase' = Drain THEN expired' \in BOOLEAN ELSE UNCHANGED expired
  /\ UNCHANGED applied

Next ==
  \/ Begin \/ Fail \/ Expire \/ Advance
  \/ \E k \in 2 .. 7 : Apply(k)

Spec == Init /\ [][Next]_vars
=============================================================================
