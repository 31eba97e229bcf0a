---------------------------- MODULE StoreCallers ----------------------------
(***************************************************************************)
(* The state store with arbitrary callers: any process loads the state and *)
(* saves it with one more change, any of them may die, and the host may    *)
(* lose power.  Exclusive says that load-to-save sections do not overlap,  *)
(* which is what Save itself does not provide.                             *)
(***************************************************************************)
EXTENDS StateStore

CONSTANT Exclusive

ASSUME CallersAssumption == Exclusive \in BOOLEAN

(* A caller loads the state and builds its candidate.                      *)
LoadAndSave(w, c) ==
  /\ At(w, "none")
  /\ c \notin ToSet(cur)
  /\ \A v \in Writers : InProgress(v) => ~Exclusive /\ Last(call[v].cand) # c
  /\ CallSave(w, cur, c)
  /\ UNCHANGED <<files, acked, faults>>

Return(w) ==
  /\ call[w].pc \in {"ok", "conflict", "error"}
  /\ call' = [call EXCEPT ![w] = NoCall]
  /\ UNCHANGED <<files, acked, faults>>

LosePower ==
  /\ Fault
  /\ AfterPowerLoss
  /\ call' = [w \in Writers |-> NoCall]
  /\ UNCHANGED acked

Crash(w) ==
  /\ InProgress(w)
  /\ Fault
  /\ call' = [call EXCEPT ![w] = NoCall]
  /\ UNCHANGED <<files, acked>>

CallersInit == InitStore(<<>>)

CallersNext ==
  \/ \E w \in Writers :
       \/ \E c \in Changes : LoadAndSave(w, c)
       \/ SaveStep(w) \/ Return(w) \/ Crash(w)
  \/ LosePower

CallersSpec == CallersInit /\ [][CallersNext]_storeVars
=============================================================================
