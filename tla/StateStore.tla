----------------------------- MODULE StateStore -----------------------------
(***************************************************************************)
(* The authoritative state file of a host and its one writer primitive.    *)
(*                                                                         *)
(*   internal/store/state.go   Load, Save, activateInitial, activateNext   *)
(*                                                                         *)
(* Save is a compare-and-swap on the generation that is built from a read, *)
(* two renames and two directory syncs.  It takes no lock: who calls it,   *)
(* and under which locks, is said by the modules that extend this one,     *)
(* StoreCallers (any callers, optionally exclusive) and Controller (the    *)
(* callers a gateway has).                                                 *)
(*                                                                         *)
(* A state is represented by the changes it contains, in the order they    *)
(* were committed; its generation is their number, and <<>> is "no file".  *)
(* A writer loads a state, appends its change and calls Save.              *)
(***************************************************************************)
EXTENDS Naturals, Sequences, FiniteSets, SequencesExt

CONSTANTS
  Writers,    \* processes and goroutines that call Save
  Changes,    \* the changes they make
  MaxFaults   \* bound: failures injected in one behaviour

ASSUME StoreAssumptions == MaxFaults \in Nat

VARIABLES
  cur, prev,  \* state.json and state.previous.json, as processes see them
  onDisk,     \* the contents of the directory a power loss may leave
  call,       \* the Save call of each writer
  acked,      \* changes whose Save has returned nil
  faults      \* failures injected so far

files == <<cur, prev, onDisk>>
storeVars == <<cur, prev, onDisk, call, acked, faults>>

(* The file system keeps renames in order (a metadata journal), so what a  *)
(* power loss leaves is the directory at the last sync or after one of the *)
(* renames since.  Renamed files were written and synced before.           *)
Renamed(c, p) == onDisk' = onDisk \cup {[cur |-> c, prev |-> p]}
Synced == onDisk' = {[cur |-> cur, prev |-> prev]}

Generation(state) == Len(state)

PCs == {"none", "check", "previous", "syncPrevious", "rename", "syncState",
        "ok", "conflict", "error"}

NoCall == [pc |-> "none", base |-> <<>>, cand |-> <<>>, read |-> <<>>]

Fault == faults < MaxFaults /\ faults' = faults + 1

InitStore(state) ==
  /\ cur = state /\ prev = <<>>
  /\ onDisk = {[cur |-> cur, prev |-> prev]}
  /\ call = [w \in Writers |-> NoCall]
  /\ acked = {} /\ faults = 0

(* A caller that has loaded base asks for base with its change c.          *)
CallSave(w, base, c) ==
  call' = [call EXCEPT ![w] =
    [pc |-> "check", base |-> base, cand |-> Append(base, c), read |-> <<>>]]

InProgress(w) == call[w].pc # "none"
At(w, pc) == call[w].pc = pc
Goto(w, pc) == call' = [call EXCEPT ![w].pc = pc]

-----------------------------------------------------------------------------
(* Save                                                                    *)

(* Save compares generations; the initial state goes straight to its       *)
(* rename and must not find a previous file.  ValidateTransition accepts   *)
(* a candidate built from the current state (CallSave gives it the next    *)
(* generation); of a candidate built from another state of the same        *)
(* generation it may refuse the difference or accept it.                   *)
Verdicts(c) ==
  IF Generation(c.base) # Generation(cur) \/ (cur = <<>> /\ prev # <<>>)
  THEN {"conflict"}
  ELSE IF cur = <<>> THEN {"rename"}
       ELSE {"previous"} \cup (IF c.base = cur THEN {} ELSE {"error"})

SaveCheck(w) ==
  /\ At(w, "check")
  /\ \E pc \in Verdicts(call[w]) :
       call' = [call EXCEPT ![w].read = cur, ![w].pc = pc]
  /\ UNCHANGED <<files, acked, faults>>

(* Variant: the candidate is kept as the previous state.                   *)
RenamePreviousCandidate(w) ==
  /\ At(w, "previous")
  /\ prev' = call[w].cand
  /\ Renamed(cur, prev')
  /\ Goto(w, "syncPrevious")
  /\ UNCHANGED <<cur, acked, faults>>

(* activateNext keeps the state it has read as the previous one ...        *)
RenamePrevious(w) ==
  /\ At(w, "previous")
  /\ prev' = call[w].read
  /\ Renamed(cur, prev')
  /\ Goto(w, "syncPrevious")
  /\ UNCHANGED <<cur, acked, faults>>

SyncPrevious(w) ==
  /\ At(w, "syncPrevious")
  /\ Synced
  /\ Goto(w, "rename")
  /\ UNCHANGED <<cur, prev, acked, faults>>

(* ... and only then renames the candidate over state.json.                *)
RenameState(w) ==
  /\ At(w, "rename")
  /\ cur' = call[w].cand
  /\ Renamed(cur', prev)
  /\ Goto(w, "syncState")
  /\ UNCHANGED <<prev, acked, faults>>

(* Variant: success is reported without waiting for the directory sync.    *)
SyncStateSkipped(w) ==
  /\ At(w, "syncState")
  /\ acked' = acked \cup {Last(call[w].cand)}
  /\ Goto(w, "ok")
  /\ UNCHANGED <<files, faults>>

SyncState(w) ==
  /\ At(w, "syncState")
  /\ Synced
  /\ acked' = acked \cup {Last(call[w].cand)}
  /\ Goto(w, "ok")
  /\ UNCHANGED <<cur, prev, faults>>

(* Any write, rename or sync may fail; what was renamed stays renamed.     *)
SaveFails(w) ==
  /\ call[w].pc \in {"previous", "syncPrevious", "rename", "syncState"}
  /\ Fault
  /\ Goto(w, "error")
  /\ UNCHANGED <<files, acked>>

SaveStep(w) ==
  \/ SaveCheck(w) \/ RenamePrevious(w) \/ SyncPrevious(w)
  \/ RenameState(w) \/ SyncState(w) \/ SaveFails(w)

(* The directory after the host lost power.                                *)
AfterPowerLoss ==
  \E d \in onDisk : cur' = d.cur /\ prev' = d.prev /\ onDisk' = {d}

-----------------------------------------------------------------------------
(* Properties                                                              *)

StoreTypeOK ==
  /\ cur \in Seq(Changes) /\ prev \in Seq(Changes)
  /\ \A d \in onDisk : d.cur \in Seq(Changes) /\ d.prev \in Seq(Changes)
  /\ \A w \in Writers :
       /\ call[w].pc \in PCs
       /\ {call[w].base, call[w].cand, call[w].read} \subseteq Seq(Changes)
  /\ acked \subseteq Changes
  /\ faults \in 0 .. MaxFaults

(* An acknowledged change is in the current state, now and after a power   *)
(* loss, and nothing ever overwrites it.                                   *)
NoLostUpdate ==
  acked \subseteq ToSet(cur) /\ \A d \in onDisk : acked \subseteq ToSet(d.cur)

(* state.previous.json is the predecessor of state.json, or (between the   *)
(* two renames, or when the second did not happen) a copy of it: it never  *)
(* belongs to another line of history, whatever survives a power loss, and *)
(* never stands alone, which Save would refuse for ever.                   *)
PreviousOf(c, p) ==
  /\ p # <<>> => c # <<>>
  /\ Generation(c) > 1 => p \in {c, Front(c)}
PreviousIsPredecessor ==
  PreviousOf(cur, prev) /\ \A d \in onDisk : PreviousOf(d.cur, d.prev)
=============================================================================
