--------------------------- MODULE ControllerProofs ---------------------------
(***************************************************************************)
(* The state file, for any callers that are exclusive: it loses no         *)
(* acknowledged change, keeps a usable previous state and implements an    *)
(* atomic register.                                                        *)
(*                                                                         *)
(* The gateway controller for any number of goroutines, commands, requests *)
(* and failures: a request takes effect at most once whoever else writes;  *)
(* without commands that bypass the locks no acknowledged change is lost   *)
(* and the runtime follows the state; without power losses what a node was *)
(* told stays true; and one client command at a time keeps the credentials *)
(* of every client that is on record.                                      *)
(***************************************************************************)
EXTENDS Controller, StoreCallers, FiniteSetTheorems, TLAPS

(***************************************************************************)
(* The state file: what Save and its failures preserve when one caller at  *)
(* a time is at work, an inductive invariant and one lemma for each step.  *)
(***************************************************************************)
States == Seq(Changes)
Directory == [cur : States, prev : States]
Calls == [pc : PCs, base : States, cand : States, read : States]

Types ==
  /\ cur \in States /\ prev \in States
  /\ onDisk \subseteq Directory
  /\ call \in [Writers -> Calls]
  /\ acked \subseteq Changes
  /\ faults \in Nat

(* What load-to-save sections that do not overlap add.                     *)
OneCall ==
  \A v, w \in Writers : InProgress(v) /\ InProgress(w) => v = w

(* A candidate extends the state that is there now, by a change that is    *)
(* neither there nor acknowledged, until it has become that state.         *)
Pending(w) == call[w].pc \in {"check", "previous", "syncPrevious", "rename"}
CandidateExtends ==
  \A w \in Writers : Pending(w) =>
    \E c \in Changes \ acked : call[w].cand = Append(cur, c)
CandidateInForce ==
  \A w \in Writers : At(w, "syncState") => call[w].cand = cur /\ cur # <<>>
ReadIsCurrent ==
  \A w \in Writers :
    /\ At(w, "previous") => call[w].read = cur /\ cur # <<>>
    /\ At(w, "syncPrevious") => prev = cur /\ cur # <<>>
    /\ At(w, "rename") =>
         /\ prev = cur
         /\ \A d \in onDisk : d.cur = cur /\ d.prev = cur

(* A power loss takes back the last change at most, and never an           *)
(* acknowledged one.                                                       *)
DiskBehind ==
  \A d \in onDisk :
    \/ d.cur = cur
    \/ cur # <<>> /\ d.cur = Front(cur) /\ Last(cur) \notin acked

IInv ==
  /\ Types
  /\ OneCall /\ CandidateExtends /\ CandidateInForce /\ ReadIsCurrent
  /\ DiskBehind /\ NoLostUpdate /\ PreviousIsPredecessor

-----------------------------------------------------------------------------
(* Appending one change: what the sequence operators return.               *)
LEMMA AppendFacts ==
  ASSUME NEW s \in States, NEW c \in Changes
  PROVE  /\ Append(s, c) \in States
         /\ Append(s, c) # <<>>
         /\ Len(Append(s, c)) = Len(s) + 1
         /\ Last(Append(s, c)) = c
         /\ Front(Append(s, c)) = s
         /\ ToSet(Append(s, c)) = ToSet(s) \cup {c}
<1> DEFINE t == Append(s, c)
<1>1. /\ t \in States /\ Len(t) = Len(s) + 1 /\ t # <<>>
      /\ Len(s) \in Nat
  BY DEF States
<1>2. /\ \A i \in 1 .. Len(s) : t[i] = s[i]
      /\ t[Len(s) + 1] = c
  BY DEF States
<1>3. Last(t) = c
  BY <1>1, <1>2 DEF Last
<1>4. Front(t) = s
  <2>1. Len(t) - 1 = Len(s)
    BY <1>1
  <2>2. SubSeq(t, 1, Len(s)) = s
    BY <1>1, <1>2 DEF States
  <2> QED
    BY <2>1, <2>2 DEF Front
<1>5. ToSet(t) = ToSet(s) \cup {c}
  <2>1. DOMAIN t = 1 .. (Len(s) + 1) /\ DOMAIN s = 1 .. Len(s)
    BY <1>1 DEF States
  <2> QED
    BY <1>1, <1>2, <2>1 DEF ToSet
<1> HIDE DEF t
<1> QED
  BY <1>1, <1>3, <1>4, <1>5 DEF t

(* A step that only moves the call of w to another place keeps the types.  *)
LEMMA GotoTypes ==
  ASSUME Types, NEW w \in Writers, NEW pc \in PCs, Goto(w, pc)
  PROVE  /\ call' \in [Writers -> Calls]
         /\ call'[w].pc = pc
         /\ call'[w].cand = call[w].cand /\ call'[w].read = call[w].read
         /\ \A v \in Writers : v # w => call'[v] = call[v]
BY DEF Types, Goto, Calls

(* Whoever is saving is saving alone.                                      *)
LEMMA Alone ==
  ASSUME OneCall, NEW w \in Writers, InProgress(w)
  PROVE  \A v \in Writers : v # w => call[v].pc = "none"
BY DEF OneCall, InProgress

-----------------------------------------------------------------------------
(* The file that gateway init has written, or none at all.                 *)
LEMMA InitStoreIInv ==
  ASSUME NEW s \in States, Len(s) <= 1, InitStore(s)
  PROVE  IInv
<1> USE DEF InitStore
<1>1. Types
  BY DEF Types, States, Directory, Calls, NoCall, PCs
<1>2. OneCall /\ CandidateExtends /\ CandidateInForce /\ ReadIsCurrent
  BY DEF OneCall, CandidateExtends, CandidateInForce, ReadIsCurrent, Pending,
         InProgress, At, NoCall
<1>3. DiskBehind /\ NoLostUpdate
  BY DEF DiskBehind, NoLostUpdate
<1>4. PreviousIsPredecessor
  <2>1. Len(s) \in Nat
    BY DEF States
  <2> QED
    BY <2>1 DEF PreviousIsPredecessor, PreviousOf, Generation
<1> QED
  BY <1>1, <1>2, <1>3, <1>4 DEF IInv

(* A caller that has loaded the state that is there begins a save.         *)
LEMMA BeginStep ==
  ASSUME IInv, NEW w \in Writers, NEW c \in Changes, c \notin ToSet(cur),
         \A v \in Writers : call[v].pc = "none",
         CallSave(w, cur, c), UNCHANGED <<files, acked, faults>>
  PROVE  IInv'
<1> DEFINE new == [pc |-> "check", base |-> cur, cand |-> Append(cur, c),
                   read |-> <<>>]
<1>1. /\ call' = [call EXCEPT ![w] = new]
      /\ UNCHANGED <<cur, prev, onDisk, acked, faults>>
  BY DEF CallSave, files
<1>2. c \notin acked
  BY DEF IInv, NoLostUpdate
<1>3. Types'
  BY <1>1, AppendFacts DEF IInv, Types, Calls, PCs, States
<1>4. /\ call'[w] = new
      /\ \A v \in Writers : v # w => call'[v].pc = "none"
  BY <1>1 DEF IInv, Types
<1>5. OneCall' /\ CandidateInForce' /\ ReadIsCurrent'
  BY <1>4 DEF OneCall, CandidateInForce, ReadIsCurrent, InProgress, At
<1>6. CandidateExtends'
  BY <1>1, <1>2, <1>4 DEF CandidateExtends, Pending
<1>7. (DiskBehind /\ NoLostUpdate /\ PreviousIsPredecessor)'
  BY <1>1 DEF IInv, DiskBehind, NoLostUpdate, PreviousIsPredecessor
<1> QED
  BY <1>3, <1>5, <1>6, <1>7 DEF IInv

(* Calls end or are given up: nothing but the calls changes.               *)
LEMMA EndStep ==
  ASSUME IInv, call' \in [Writers -> Calls],
         \A v \in Writers : call'[v] = call[v] \/ call'[v] = NoCall,
         UNCHANGED <<files, acked>>, faults' \in Nat
  PROVE  IInv'
<1>1. UNCHANGED <<cur, prev, onDisk, acked>>
  BY DEF files
<1>2. Types'
  BY <1>1 DEF IInv, Types
<1>3. \A v \in Writers : call'[v] = call[v] \/ call'[v].pc = "none"
  BY DEF NoCall
<1>4. OneCall' /\ CandidateExtends' /\ CandidateInForce' /\ ReadIsCurrent'
  BY <1>1, <1>3 DEF IInv, OneCall, CandidateExtends, CandidateInForce,
     ReadIsCurrent, Pending, InProgress, At
<1>5. (DiskBehind /\ NoLostUpdate /\ PreviousIsPredecessor)'
  BY <1>1 DEF IInv, DiskBehind, NoLostUpdate, PreviousIsPredecessor
<1> QED
  BY <1>2, <1>4, <1>5 DEF IInv

(* After a power loss any directory of onDisk is the only one.             *)
LEMMA PowerLossStep ==
  ASSUME IInv, AfterPowerLoss, call' = [w \in Writers |-> NoCall],
         acked' = acked, faults' \in Nat
  PROVE  IInv'
<1>1. PICK d \in onDisk : cur' = d.cur /\ prev' = d.prev /\ onDisk' = {d}
  BY DEF AfterPowerLoss
<1>3. Types'
  BY <1>1 DEF IInv, Types, Directory, Calls, NoCall, PCs, States
<1>4. OneCall' /\ CandidateExtends' /\ CandidateInForce' /\ ReadIsCurrent'
  BY DEF OneCall, CandidateExtends, CandidateInForce, ReadIsCurrent,
     Pending, InProgress, At, NoCall
<1>5. (DiskBehind /\ NoLostUpdate /\ PreviousIsPredecessor)'
  BY <1>1 DEF IInv, DiskBehind, NoLostUpdate, PreviousIsPredecessor
<1> QED
  BY <1>3, <1>4, <1>5 DEF IInv

(* Save compares the generations. *)
LEMMA CheckStep ==
  ASSUME IInv, NEW w \in Writers, SaveCheck(w)
  PROVE  IInv'
<1> DEFINE pcs == {"conflict", "rename", "previous", "error"}
<1>1. PICK pc \in pcs :
        /\ call' = [call EXCEPT ![w].read = cur, ![w].pc = pc]
        /\ pc = "rename" => cur = <<>> /\ prev = <<>>
        /\ pc = "previous" => cur # <<>>
  BY DEF SaveCheck, Verdicts
<1>2. UNCHANGED <<cur, prev, onDisk, acked, faults>> /\ At(w, "check")
  BY DEF SaveCheck, files
<1>3. /\ call' \in [Writers -> Calls]
      /\ call'[w].pc = pc /\ call'[w].read = cur
      /\ call'[w].cand = call[w].cand
      /\ \A v \in Writers : v # w => call'[v] = call[v]
  BY <1>1 DEF IInv, Types, Calls, PCs
<1>4. \A v \in Writers : v # w => call'[v].pc = "none"
  BY <1>2, <1>3, Alone DEF IInv, At, InProgress
<1>5. Types'
  BY <1>2, <1>3 DEF IInv, Types
<1>6. OneCall' /\ CandidateInForce'
  BY <1>3, <1>4 DEF OneCall, CandidateInForce, InProgress, At
<1>7. CandidateExtends'
  BY <1>2, <1>3, <1>4 DEF IInv, CandidateExtends, Pending, At
<1>8. ReadIsCurrent'
  <2>1. ASSUME pc = "rename", NEW d \in onDisk
        PROVE  d.cur = <<>> /\ d.prev = <<>>
    BY <1>1, <2>1 DEF IInv, DiskBehind, PreviousIsPredecessor, PreviousOf
  <2> QED
    BY <1>1, <1>2, <1>3, <1>4, <2>1 DEF ReadIsCurrent, At
<1>9. (DiskBehind /\ NoLostUpdate /\ PreviousIsPredecessor)'
  BY <1>2 DEF IInv, DiskBehind, NoLostUpdate, PreviousIsPredecessor
<1> QED
  BY <1>5, <1>6, <1>7, <1>8, <1>9 DEF IInv

(* The predecessor is kept under its own name. *)
LEMMA RenamePreviousStep ==
  ASSUME IInv, NEW w \in Writers, RenamePrevious(w)
  PROVE  IInv'
<1> DEFINE new == [cur |-> cur, prev |-> cur]
<1>1. /\ At(w, "previous") /\ call[w].read = cur /\ cur # <<>>
      /\ prev' = cur /\ onDisk' = onDisk \cup {new}
      /\ UNCHANGED <<cur, acked, faults>>
      /\ Goto(w, "syncPrevious")
  BY DEF RenamePrevious, Renamed, IInv, ReadIsCurrent, At
<1>2. /\ call' \in [Writers -> Calls]
      /\ call'[w].pc = "syncPrevious" /\ call'[w].cand = call[w].cand
      /\ \A v \in Writers : v # w => call'[v] = call[v]
  BY <1>1, GotoTypes DEF IInv, PCs
<1>3. \A v \in Writers : v # w => call'[v].pc = "none"
  BY <1>1, <1>2, Alone DEF IInv, At, InProgress
<1>4. Types'
  BY <1>1, <1>2 DEF IInv, Types, Directory
<1>5. OneCall' /\ CandidateInForce' /\ ReadIsCurrent'
  BY <1>1, <1>2, <1>3 DEF OneCall, CandidateInForce, ReadIsCurrent,
     InProgress, At
<1>6. CandidateExtends'
  BY <1>1, <1>2, <1>3 DEF IInv, CandidateExtends, Pending, At
<1>7. DiskBehind' /\ NoLostUpdate'
  BY <1>1 DEF IInv, DiskBehind, NoLostUpdate
<1>8. PreviousIsPredecessor'
  BY <1>1 DEF IInv, PreviousIsPredecessor, PreviousOf
<1> QED
  BY <1>4, <1>5, <1>6, <1>7, <1>8 DEF IInv

(* The directory is synced before the state is replaced. *)
LEMMA SyncPreviousStep ==
  ASSUME IInv, NEW w \in Writers, SyncPrevious(w)
  PROVE  IInv'
<1>1. /\ At(w, "syncPrevious") /\ prev = cur /\ cur # <<>>
      /\ onDisk' = {[cur |-> cur, prev |-> prev]}
      /\ UNCHANGED <<cur, prev, acked, faults>>
      /\ Goto(w, "rename")
  BY DEF SyncPrevious, Synced, IInv, ReadIsCurrent, At
<1>2. /\ call' \in [Writers -> Calls]
      /\ call'[w].pc = "rename" /\ call'[w].cand = call[w].cand
      /\ \A v \in Writers : v # w => call'[v] = call[v]
  BY <1>1, GotoTypes DEF IInv, PCs
<1>3. \A v \in Writers : v # w => call'[v].pc = "none"
  BY <1>1, <1>2, Alone DEF IInv, At, InProgress
<1>4. Types'
  BY <1>1, <1>2 DEF IInv, Types, Directory
<1>5. OneCall' /\ CandidateInForce' /\ ReadIsCurrent'
  BY <1>1, <1>2, <1>3 DEF OneCall, CandidateInForce, ReadIsCurrent,
     InProgress, At
<1>6. CandidateExtends'
  BY <1>1, <1>2, <1>3 DEF IInv, CandidateExtends, Pending, At
<1>7. DiskBehind' /\ NoLostUpdate' /\ PreviousIsPredecessor'
  BY <1>1 DEF IInv, DiskBehind, NoLostUpdate, PreviousIsPredecessor
<1> QED
  BY <1>4, <1>5, <1>6, <1>7 DEF IInv

(* The candidate becomes the state. *)
LEMMA RenameStateStep ==
  ASSUME IInv, NEW w \in Writers, RenameState(w)
  PROVE  /\ IInv'
         /\ \E c \in Changes : cur' = Append(cur, c) /\ acked' = acked
<1>1. /\ At(w, "rename") /\ prev = cur
      /\ \A d \in onDisk : d.cur = cur /\ d.prev = cur
      /\ cur' = call[w].cand
      /\ onDisk' = onDisk \cup {[cur |-> cur', prev |-> prev]}
      /\ UNCHANGED <<prev, acked, faults>>
      /\ Goto(w, "syncState")
  BY DEF RenameState, Renamed, IInv, ReadIsCurrent, At
<1>2. PICK c \in Changes \ acked : cur' = Append(cur, c)
  BY <1>1 DEF IInv, CandidateExtends, Pending, At
<1>3. /\ cur \in States /\ cur' \in States /\ cur' # <<>>
      /\ Len(cur') = Len(cur) + 1 /\ Last(cur') = c /\ Front(cur') = cur
      /\ ToSet(cur') = ToSet(cur) \cup {c}
  BY <1>2, AppendFacts DEF IInv, Types
<1>4. /\ call' \in [Writers -> Calls]
      /\ call'[w].pc = "syncState" /\ call'[w].cand = cur'
      /\ \A v \in Writers : v # w => call'[v] = call[v]
  BY <1>1, GotoTypes DEF IInv, PCs
<1>5. \A v \in Writers : v # w => call'[v].pc = "none"
  BY <1>1, <1>4, Alone DEF IInv, At, InProgress
<1>6. Types'
  BY <1>1, <1>3, <1>4 DEF IInv, Types, Directory
<1>7. OneCall' /\ CandidateExtends' /\ CandidateInForce' /\ ReadIsCurrent'
  BY <1>3, <1>4, <1>5 DEF OneCall, CandidateExtends, CandidateInForce,
     ReadIsCurrent, Pending, InProgress, At
<1>8. DiskBehind'
  BY <1>1, <1>3 DEF DiskBehind
<1>9. NoLostUpdate'
  BY <1>1, <1>3 DEF IInv, NoLostUpdate
<1>10. PreviousIsPredecessor'
  <2>1. PreviousOf(cur', prev)
    BY <1>1, <1>3 DEF PreviousOf
  <2> QED
    BY <1>1, <2>1 DEF IInv, PreviousIsPredecessor
<1> QED
  BY <1>1, <1>2, <1>6, <1>7, <1>8, <1>9, <1>10 DEF IInv

(* The directory is synced again, and the caller is told of success. *)
LEMMA SyncStateStep ==
  ASSUME IInv, NEW w \in Writers, SyncState(w)
  PROVE  IInv' /\ cur' = cur /\ acked' = acked \cup {Last(cur)}
<1>1. /\ At(w, "syncState") /\ call[w].cand = cur /\ cur # <<>>
      /\ onDisk' = {[cur |-> cur, prev |-> prev]}
      /\ acked' = acked \cup {Last(cur)}
      /\ UNCHANGED <<cur, prev, faults>>
      /\ Goto(w, "ok")
  BY DEF SyncState, Synced, IInv, CandidateInForce, At
<1>2. Last(cur) \in ToSet(cur) /\ Last(cur) \in Changes
  BY <1>1 DEF IInv, Types, States, ToSet, Last
<1>3. /\ call' \in [Writers -> Calls]
      /\ call'[w].pc = "ok"
      /\ \A v \in Writers : v # w => call'[v] = call[v]
  BY <1>1, GotoTypes DEF IInv, PCs
<1>4. \A v \in Writers : v # w => call'[v].pc = "none"
  BY <1>1, <1>3, Alone DEF IInv, At, InProgress
<1>5. Types'
  BY <1>1, <1>2, <1>3 DEF IInv, Types, Directory
<1>6. OneCall' /\ CandidateExtends' /\ CandidateInForce' /\ ReadIsCurrent'
  BY <1>3, <1>4 DEF OneCall, CandidateExtends, CandidateInForce,
     ReadIsCurrent, Pending, InProgress, At
<1>7. DiskBehind' /\ PreviousIsPredecessor'
  BY <1>1 DEF IInv, DiskBehind, PreviousIsPredecessor
<1>8. NoLostUpdate'
  BY <1>1, <1>2 DEF IInv, NoLostUpdate
<1> QED
  BY <1>1, <1>5, <1>6, <1>7, <1>8 DEF IInv

(* A step of the save fails, before or after its effect. *)
LEMMA SaveFailsStep ==
  ASSUME IInv, NEW w \in Writers, SaveFails(w)
  PROVE  IInv'
<1>1. /\ UNCHANGED <<cur, prev, onDisk, acked>> /\ faults' \in Nat
      /\ Goto(w, "error")
  BY DEF SaveFails, Fault, files, IInv, Types
<1>2. /\ call' \in [Writers -> Calls]
      /\ call'[w].pc = "error"
      /\ \A v \in Writers : v # w => call'[v] = call[v]
  BY <1>1, GotoTypes DEF IInv, PCs
<1>3. InProgress(w)
  BY DEF SaveFails, InProgress
<1>4. \A v \in Writers : v # w => call'[v].pc = "none"
  BY <1>2, <1>3, Alone DEF IInv
<1>5. Types'
  BY <1>1, <1>2 DEF IInv, Types
<1>6. OneCall' /\ CandidateExtends' /\ CandidateInForce' /\ ReadIsCurrent'
  BY <1>2, <1>4 DEF OneCall, CandidateExtends, CandidateInForce,
     ReadIsCurrent, Pending, InProgress, At
<1>7. (DiskBehind /\ NoLostUpdate /\ PreviousIsPredecessor)'
  BY <1>1 DEF IInv, DiskBehind, NoLostUpdate, PreviousIsPredecessor
<1> QED
  BY <1>5, <1>6, <1>7 DEF IInv

(***************************************************************************)
(* The state file with exclusive callers                                   *)
(***************************************************************************)
Register == INSTANCE AtomicRegister WITH value <- cur

(* The invariant holds at the start. *)
LEMMA InitIInv == CallersInit => IInv
<1>1. <<>> \in States /\ Len(<<>>) <= 1
  BY DEF States
<1> QED
  BY <1>1, InitStoreIInv DEF CallersInit

(* Every step preserves the inductive invariant and is a step of the       *)
(* abstract register or leaves it alone.                                   *)
LEMMA EveryStep ==
  ASSUME Exclusive, IInv, [CallersNext]_storeVars
  PROVE  IInv' /\ [Register!Next]_<<cur, acked>>
<1> USE DEF Register!vars
<1>1. ASSUME UNCHANGED storeVars
      PROVE  IInv' /\ UNCHANGED <<cur, acked>>
  BY <1>1 DEF storeVars, IInv, Types, OneCall, CandidateExtends,
     CandidateInForce, ReadIsCurrent, DiskBehind, NoLostUpdate,
     PreviousIsPredecessor, Pending, InProgress, At
<1>2. ASSUME NEW w \in Writers, NEW c \in Changes, LoadAndSave(w, c)
      PROVE  IInv' /\ UNCHANGED <<cur, acked>>
  BY <1>2, BeginStep DEF LoadAndSave, files, InProgress
<1>3. ASSUME NEW w \in Writers, Return(w) \/ Crash(w)
      PROVE  IInv' /\ UNCHANGED <<cur, acked>>
  <2>1. /\ call' = [call EXCEPT ![w] = NoCall]
        /\ UNCHANGED <<files, acked>> /\ faults' \in Nat
    BY <1>3 DEF Return, Crash, Fault, IInv, Types
  <2>2. call' \in [Writers -> Calls]
    BY <2>1 DEF IInv, Types, Calls, NoCall, PCs, States
  <2> QED
    BY <2>1, <2>2, EndStep DEF IInv, Types, files
<1>4. ASSUME NEW w \in Writers,
             SaveCheck(w) \/ RenamePrevious(w) \/ SyncPrevious(w) \/ SaveFails(w)
      PROVE  IInv' /\ UNCHANGED <<cur, acked>>
  BY <1>4, CheckStep, RenamePreviousStep, SyncPreviousStep, SaveFailsStep
     DEF SaveCheck, RenamePrevious, SyncPrevious, SaveFails, files
<1>5. ASSUME NEW w \in Writers, RenameState(w)
      PROVE  IInv' /\ Register!Next
  BY <1>5, RenameStateStep DEF Register!Next, Register!Commit
<1>6. ASSUME NEW w \in Writers, SyncState(w)
      PROVE  IInv' /\ [Register!Next]_<<cur, acked>>
  <2>1. IInv' /\ cur' = cur /\ acked' = acked \cup {Last(cur)}
    BY <1>6, SyncStateStep
  <2>2. acked' \subseteq ToSet(cur)
    BY <2>1 DEF IInv, NoLostUpdate
  <2> QED
    BY <2>1, <2>2
       DEF Register!Next, Register!Acknowledge, Register!ToSet, ToSet
<1>7. ASSUME LosePower
      PROVE  IInv' /\ [Register!Next]_<<cur, acked>>
  <2>1. acked' = acked
    BY <1>7 DEF LosePower
  <2>2. PICK d \in onDisk : cur' = d.cur
    BY <1>7 DEF LosePower, AfterPowerLoss
  <2>3. \/ cur' = cur
        \/ cur # <<>> /\ cur' = Front(cur) /\ Last(cur) \notin acked
    BY <2>2 DEF IInv, DiskBehind
  <2>4. IInv'
    BY <1>7, PowerLossStep DEF LosePower, Fault, IInv, Types
  <2> QED
    BY <2>1, <2>3, <2>4
       DEF Register!Next, Register!Vanish, Register!Front, Register!Last,
           Front, Last
<1> QED
  BY <1>1, <1>2, <1>3, <1>4, <1>5, <1>6, <1>7 DEF CallersNext, SaveStep

(* Callers whose load-to-save sections do not overlap never lose a change  *)
(* that Save has acknowledged, whatever fails and whenever the power does. *)
THEOREM AcknowledgedIsKept == Exclusive => (CallersSpec => []NoLostUpdate)
<1> SUFFICES ASSUME Exclusive PROVE CallersSpec => []NoLostUpdate
  OBVIOUS
<1>1. CallersInit => IInv
  BY InitIInv
<1>2. IInv /\ [CallersNext]_storeVars => IInv'
  BY EveryStep
<1>3. IInv => NoLostUpdate
  BY DEF IInv
<1> QED
  BY <1>1, <1>2, <1>3, PTL DEF CallersSpec

(* The previous state of exclusive callers is always the predecessor of    *)
(* the current one or a copy of it, also after a power loss.               *)
THEOREM PreviousIsUsable == Exclusive => (CallersSpec => []PreviousIsPredecessor)
<1> SUFFICES ASSUME Exclusive PROVE CallersSpec => []PreviousIsPredecessor
  OBVIOUS
<1>1. CallersInit => IInv
  BY InitIInv
<1>2. IInv /\ [CallersNext]_storeVars => IInv'
  BY EveryStep
<1>3. IInv => PreviousIsPredecessor
  BY DEF IInv
<1> QED
  BY <1>1, <1>2, <1>3, PTL DEF CallersSpec

(* Two files, two renames and two syncs implement an atomic register.      *)
THEOREM StoreImplementsRegister == Exclusive => (CallersSpec => Register!Spec)
<1> SUFFICES ASSUME Exclusive PROVE CallersSpec => Register!Spec
  OBVIOUS
<1>1. CallersInit => IInv
  BY InitIInv
<1>2. IInv /\ [CallersNext]_storeVars => IInv' /\ [Register!Next]_<<cur, acked>>
  BY EveryStep
<1>3. CallersInit => Register!Init
  BY DEF CallersInit, InitStore, Register!Init
<1> QED
  BY <1>1, <1>2, <1>3, PTL DEF CallersSpec, Register!Spec, Register!vars

----------------------------------------------------------------------------

(***************************************************************************)
(* The controller                                                          *)
(***************************************************************************)

Daemon == Locals \cup Rpcs
HndStates == [pc : HandlerPCs, change : Changes, base : States, expected : Nat]

StoreType ==
  /\ cur \in States /\ prev \in States /\ onDisk \subseteq Directory
  /\ call \in [Writers -> Calls]
  /\ \A w \in Writers : call[w].pc # "none" => call[w].cand # <<>>
  /\ acked \subseteq Changes /\ faults \in 0 .. MaxFaults
LockType ==
  /\ mutex \in Locals \cup Rpcs \cup {Nobody}
  /\ flock \in Locals \cup Repairs \cup {Nobody}
HndType == hnd \in [Handlers -> HndStates]
RestType ==
  /\ rt \subseteq LocalChanges /\ drift \in BOOLEAN
  /\ expect \in [Requests -> Nat]
  /\ confirmed \subseteq Requests /\ refused \subseteq Requests
  /\ secrets \subseteq CliChanges

(* What a handler at work is working on.                                   *)
Role(w) ==
  /\ hnd[w].pc \in {"flock", "apply", "rollback"} => w \in Locals
  /\ hnd[w].pc = "saving" => w \in Writers
  /\ hnd[w].pc = "repair" => w \in Repairs
  /\ hnd[w].pc # "idle" /\ w \in Locals => hnd[w].change \in LocalChanges
  /\ hnd[w].pc # "idle" /\ w \in Rpcs => hnd[w].change \in Requests
  /\ hnd[w].pc # "idle" /\ w \in Clis => hnd[w].change \in CliChanges
TypeInv ==
  StoreType /\ LockType /\ HndType /\ RestType /\ \A w \in Handlers : Role(w)

(* A request is found only at the place that its expected generation names *)
(* in every state anybody holds, whichever of them becomes current.        *)
Stamped(e, s) ==
  \A i \in DOMAIN s : s[i] \in Requests => e[s[i]] = i - 1 /\ e[s[i]] > 0
StampInv ==
  /\ Stamped(expect, cur)
  /\ \A d \in onDisk : Stamped(expect, d.cur)
  /\ \A w \in Writers : Stamped(expect, call[w].cand)
  /\ \A w \in Handlers : Stamped(expect, hnd[w].base)

(* A goroutine of the daemon that does not hold the mutex does nothing.    *)
MutexInv ==
  \A w \in Daemon :
    /\ mutex # w => hnd[w] = Idle /\ call[w] = NoCall
    /\ hnd[w].pc # "saving" => call[w] = NoCall

(* What the holder of the mutex knows of the state, if nobody else writes. *)
SaveKnows(w) ==
  /\ call[w].base = hnd[w].base
  /\ call[w].cand = Append(hnd[w].base, hnd[w].change)
  /\ hnd[w].change \notin ToSet(hnd[w].base)
  /\ call[w].pc \in PCs \ {"none", "conflict"}
  /\ cur \in {hnd[w].base, call[w].cand}
  /\ Pending(w) => cur = hnd[w].base
  /\ call[w].pc \in {"syncState", "ok"} => cur = call[w].cand
Knows(w) ==
  /\ hnd[w].pc = "flock" => hnd[w].change \notin ToSet(cur)
  /\ hnd[w].pc \in {"apply", "rollback"} =>
       hnd[w].base = cur /\ hnd[w].change \notin ToSet(cur)
  /\ hnd[w].pc = "saving" => SaveKnows(w)
SerialInv ==
  /\ IInv
  /\ cur # <<>> /\ \A d \in onDisk : d.cur # <<>>
  /\ \A w \in Daemon : Knows(w)

(* The runtime, unless drift was reported: the state's, with the change of *)
(* a local mutation that is between its activation and its end.            *)
LocalOf(s) == ToSet(s) \cap LocalChanges
Activated(w) == hnd[w].pc \in {"saving", "rollback"}
RuntimeInv ==
  \/ drift
  \/ /\ \A w \in Locals : Activated(w) => rt = LocalOf(hnd[w].base) \cup {hnd[w].change}
     /\ (\A w \in Locals : ~Activated(w)) => rt = LocalOf(cur)

(* Requests are never ahead of the state, and refused ones stay behind it. *)
AnswerInv ==
  /\ confirmed \subseteq ToSet(cur)
  /\ \A r \in Requests : expect[r] <= Len(cur)
  /\ \A r \in refused : expect[r] > 0 /\ expect[r] < Len(cur)

(* Whatever state a writer holds and may make current, its clients have    *)
(* their credentials; and the client that is being added is in a state     *)
(* held by the daemon only if it is in the current one.                    *)
ClientsOf(s) == ToSet(s) \cap CliChanges
Held(w) == ClientsOf(call[w].cand) \cup ClientsOf(hnd[w].base)
Writing(w) ==
  /\ hnd[w].pc = "saving" => call[w].cand = Append(hnd[w].base, hnd[w].change)
  /\ hnd[w].pc # "saving" => call[w] = NoCall
ClientInv ==
  /\ ClientsOf(cur) \subseteq secrets
  /\ \A w \in Writers : Writing(w) /\ Held(w) \subseteq secrets
  /\ \A v \in Clis : hnd[v].pc = "saving" =>
       \A w \in Daemon : hnd[v].change \in Held(w) => hnd[v].change \in ToSet(cur)

-----------------------------------------------------------------------------
(* Shapes that the actions have in common.                                 *)

(* The handlers ws end: whatever they held is given back.                  *)
Ends(ws) ==
  /\ hnd' \in [Handlers -> HndStates] /\ call' \in [Writers -> Calls]
  /\ \A v \in ws : hnd'[v] = Idle
  /\ \A v \in ws \cap Writers : call'[v] = NoCall
  /\ \A v \in Handlers \ ws : hnd'[v] = hnd[v]
  /\ \A v \in Writers \ ws : call'[v] = call[v]
  /\ mutex' = (IF mutex \in ws THEN Nobody ELSE mutex)
  /\ flock' = (IF flock \in ws THEN Nobody ELSE flock)
  /\ UNCHANGED <<cur, prev, onDisk, acked, expect>>

(* The handler w becomes x, and nobody's call changes.                     *)
Turns(w, x) ==
  /\ hnd' \in [Handlers -> HndStates] /\ hnd'[w] = x
  /\ \A v \in Handlers : v # w => hnd'[v] = hnd[v]

(* The call of w becomes y.                                                *)
Rings(w, y) ==
  /\ call' \in [Writers -> Calls] /\ call'[w] = y
  /\ \A v \in Writers : v # w => call'[v] = call[v]

(* The handler w, now x, calls Save with the change appended to its base.  *)
Asked(x) == [pc |-> "check", base |-> x.base, cand |-> Append(x.base, x.change),
             read |-> <<>>]
Starts(w, x) ==
  /\ Turns(w, x) /\ Rings(w, Asked(x)) /\ x.pc = "saving"
  /\ UNCHANGED <<cur, prev, onDisk, acked, faults, expect, flock>>

(* One step of Save, on behalf of w.                                       *)
Saves(w) ==
  /\ call' \in [Writers -> Calls]
  /\ call'[w].base = call[w].base /\ call'[w].cand = call[w].cand
  /\ call[w].pc \notin {"none", "ok", "conflict", "error"} /\ call'[w].pc # "none"
  /\ \A v \in Writers : v # w => call'[v] = call[v]
  /\ \/ cur' = cur
     \/ cur' = call[w].cand /\ call[w].pc = "rename" /\ call'[w].pc = "syncState"
  /\ \A d \in onDisk' : d \in onDisk \/ d.cur = cur \/ d.cur = cur'
  /\ StoreType'
  /\ UNCHANGED <<mutex, flock, hnd, rt, drift, expect, confirmed, refused, secrets>>

(* Idle handlers and no calls have their types.                            *)
LEMMA IdleTyped ==
  /\ Idle \in HndStates /\ NoCall \in Calls
  /\ Idle.pc = "idle" /\ Idle.base = <<>> /\ NoCall.cand = <<>> /\ NoCall.pc = "none"
BY ControllerAssumptions DEF Idle, HndStates, HandlerPCs, NoCall, Calls, PCs, States

(* A step of Save, in the words above.                                     *)
LEMMA SaveShape ==
  ASSUME TypeInv, NEW w \in Writers, SavingStep(w)
  PROVE  Saves(w)
<1>0. StoreType /\ call[w] \in Calls /\ faults \in Nat /\ MaxFaults \in Nat
  BY StoreAssumptions DEF TypeInv, StoreType
<1>1. UNCHANGED <<mutex, flock, hnd, rt, drift, expect, confirmed, refused, secrets>>
  BY DEF SavingStep, locks, node
<1>2. ASSUME NEW pc \in PCs \ {"none"}, Goto(w, pc)
      PROVE  /\ call' \in [Writers -> Calls]
             /\ call'[w].base = call[w].base /\ call'[w].cand = call[w].cand
             /\ call'[w].pc = pc
             /\ \A v \in Writers : v # w => call'[v] = call[v]
  BY <1>0, <1>2 DEF Goto, StoreType, Calls
<1>3. CASE SaveCheck(w)
  <2>1. PICK pc \in PCs \ {"none"} : call' = [call EXCEPT ![w].read = cur, ![w].pc = pc]
    BY <1>3 DEF SaveCheck, Verdicts, PCs
  <2>2. /\ call' \in [Writers -> Calls]
        /\ call'[w].base = call[w].base /\ call'[w].cand = call[w].cand
        /\ call'[w].pc = pc
        /\ \A v \in Writers : v # w => call'[v] = call[v]
    BY <1>0, <2>1 DEF StoreType, Calls
  <2> QED
    BY <1>0, <1>1, <1>3, <2>2 DEF SaveCheck, Saves, StoreType, files, At
<1>4. CASE RenamePrevious(w)
  <2>1. Goto(w, "syncPrevious") /\ "syncPrevious" \in PCs \ {"none"}
    BY <1>4 DEF RenamePrevious, PCs
  <2>2. /\ prev' \in States /\ onDisk' = onDisk \cup {[cur |-> cur, prev |-> prev']}
        /\ UNCHANGED <<cur, acked, faults>> /\ call[w].pc = "previous"
    BY <1>0, <1>4 DEF RenamePrevious, Renamed, StoreType, Calls, At
  <2> QED
    BY <1>0, <1>1, <1>2, <2>1, <2>2 DEF Saves, StoreType, Directory
<1>5. CASE SyncPrevious(w)
  <2>1. Goto(w, "rename") /\ "rename" \in PCs \ {"none"}
    BY <1>5 DEF SyncPrevious, PCs
  <2>2. /\ onDisk' = {[cur |-> cur, prev |-> prev]}
        /\ UNCHANGED <<cur, prev, acked, faults>> /\ call[w].pc = "syncPrevious"
    BY <1>5 DEF SyncPrevious, Synced, At
  <2> QED
    BY <1>0, <1>1, <1>2, <2>1, <2>2 DEF Saves, StoreType, Directory
<1>6. CASE RenameState(w)
  <2>1. Goto(w, "syncState") /\ "syncState" \in PCs \ {"none"}
    BY <1>6 DEF RenameState, PCs
  <2>2. /\ cur' = call[w].cand /\ onDisk' = onDisk \cup {[cur |-> cur', prev |-> prev]}
        /\ UNCHANGED <<prev, acked, faults>> /\ call[w].pc = "rename"
    BY <1>6 DEF RenameState, Renamed, At
  <2>3. cur' \in States
    BY <1>0, <2>2 DEF Calls
  <2> QED
    BY <1>0, <1>1, <1>2, <2>1, <2>2, <2>3 DEF Saves, StoreType, Directory
<1>7. CASE SyncState(w)
  <2>1. Goto(w, "ok") /\ "ok" \in PCs \ {"none"}
    BY <1>7 DEF SyncState, PCs
  <2>2. /\ onDisk' = {[cur |-> cur, prev |-> prev]}
        /\ acked' = acked \cup {Last(call[w].cand)}
        /\ UNCHANGED <<cur, prev, faults>> /\ call[w].pc = "syncState"
    BY <1>7 DEF SyncState, Synced, At
  <2>3. call[w].cand \in Seq(Changes) /\ call[w].cand # <<>>
    BY <1>0, <2>2 DEF StoreType, Calls, States
  <2>4. Last(call[w].cand) \in Changes
    BY <2>3 DEF Last
  <2> QED
    BY <1>0, <1>1, <1>2, <2>1, <2>2, <2>4 DEF Saves, StoreType, Directory
<1>8. CASE SaveFails(w)
  <2>1. Goto(w, "error") /\ "error" \in PCs \ {"none"}
    BY <1>8 DEF SaveFails, PCs
  <2>2. /\ UNCHANGED <<cur, prev, onDisk, acked>> /\ faults' \in 0 .. MaxFaults
        /\ call[w].pc \in {"previous", "syncPrevious", "rename", "syncState"}
    BY <1>0, <1>8 DEF SaveFails, Fault, files
  <2> QED
    BY <1>0, <1>1, <1>2, <2>1, <2>2 DEF Saves, StoreType
<1> QED
  BY <1>3, <1>4, <1>5, <1>6, <1>7, <1>8 DEF SavingStep, SaveStep

(* A handler that finishes gives back its locks and its call.              *)
LEMMA FinishEnds ==
  ASSUME TypeInv, NEW w \in Handlers, Finish(w), Release(w) \/ UNCHANGED locks,
         UNCHANGED locks => mutex # w /\ flock # w,
         Hang(w) \/ (UNCHANGED call /\ (w \in Writers => call[w] = NoCall)),
         UNCHANGED <<cur, prev, onDisk, acked, expect>>
  PROVE  Ends({w})
<1>1. hnd \in [Handlers -> HndStates] /\ call \in [Writers -> Calls]
  BY DEF TypeInv, HndType, StoreType
<1>2. hnd' = [hnd EXCEPT ![w] = Idle]
  BY DEF Finish
<1>3. /\ hnd' \in [Handlers -> HndStates] /\ hnd'[w] = Idle
      /\ \A v \in Handlers \ {w} : hnd'[v] = hnd[v]
  BY <1>1, <1>2, IdleTyped
<1>4. /\ call' \in [Writers -> Calls]
      /\ \A v \in {w} \cap Writers : call'[v] = NoCall
      /\ \A v \in Writers \ {w} : call'[v] = call[v]
  BY <1>1, IdleTyped DEF Hang
<1>5. /\ mutex' = (IF mutex \in {w} THEN Nobody ELSE mutex)
      /\ flock' = (IF flock \in {w} THEN Nobody ELSE flock)
  BY DEF Release, locks
<1> QED
  BY <1>3, <1>4, <1>5 DEF Ends

(* Who is who.                                                             *)
LEMMA Roles ==
  /\ Locals \subseteq Daemon /\ Rpcs \subseteq Daemon
  /\ Daemon \subseteq Writers /\ Clis \subseteq Writers /\ Writers \subseteq Handlers
  /\ Repairs \subseteq Handlers /\ Writers = Daemon \cup Clis
  /\ Daemon \cap Clis = {} /\ Daemon \cap Repairs = {} /\ Clis \cap Repairs = {}
  /\ Locals \cap Rpcs = {} /\ Nobody \notin Handlers
BY ControllerAssumptions DEF Daemon, Handlers

(* The ends of a local mutation.                                           *)
LEMMA LocalEnds ==
  ASSUME TypeInv, MutexInv, NEW w \in Locals,
         \/ LocalBusy(w) \/ LocalConflict(w) \/ LocalApplyFails(w) \/ LocalSaved(w)
         \/ LocalRollback(w) \/ (LocalSaveFailed(w) /\ cur # hnd[w].base)
  PROVE  Ends({w})
<1>1. w \in Handlers /\ w \in Writers /\ w \in Daemon
  BY Roles
<1>2. Finish(w) /\ Release(w) /\ UNCHANGED <<cur, prev, onDisk, acked, expect>>
  BY DEF LocalBusy, LocalConflict, LocalApplyFails, LocalSaved, LocalRollback,
     LocalSaveFailed, storeVars, files, node
<1>3. CASE LocalSaved(w) \/ (LocalSaveFailed(w) /\ cur # hnd[w].base)
  <2>1. Hang(w)
    BY <1>3 DEF LocalSaved, LocalSaveFailed
  <2>2. ~UNCHANGED locks \/ (mutex # w /\ flock # w)
    BY <1>1, <1>2, Roles DEF Release, locks
  <2> QED
    BY <1>1, <1>2, <2>1, <2>2, FinishEnds
<1>4. CASE LocalBusy(w) \/ LocalConflict(w) \/ LocalApplyFails(w) \/ LocalRollback(w)
  <2>1. UNCHANGED call /\ hnd[w].pc # "saving"
    BY <1>4 DEF LocalBusy, LocalConflict, LocalApplyFails, LocalRollback, storeVars, HndAt
  <2>2. call[w] = NoCall
    BY <1>1, <2>1 DEF MutexInv
  <2>3. ~UNCHANGED locks \/ (mutex # w /\ flock # w)
    BY <1>1, <1>2, Roles DEF Release, locks
  <2> QED
    BY <1>1, <1>2, <2>1, <2>2, <2>3, FinishEnds
<1> QED
  BY <1>3, <1>4

(* The ends of a request of a node.                                        *)
LEMMA RpcEnds ==
  ASSUME TypeInv, MutexInv, NEW w \in Rpcs,
         \/ \E r \in Requests : RpcReplay(w, r) \/ RpcReconcile(w, r) \/ RpcAhead(w, r)
         \/ RpcSaved(w) \/ RpcAnswerLost(w)
  PROVE  Ends({w})
<1>1. w \in Handlers /\ w \in Writers /\ w \in Daemon
  BY Roles
<1>2. Finish(w) /\ Release(w) /\ UNCHANGED <<cur, prev, onDisk, acked, expect>>
  BY DEF RpcReplay, RpcReconcile, RpcAhead, RpcSaved, RpcAnswerLost, Answer,
     storeVars, files, node
<1>3. ~UNCHANGED locks \/ (mutex # w /\ flock # w)
  BY <1>1, <1>2, Roles DEF Release, locks
<1>4. CASE RpcSaved(w) \/ RpcAnswerLost(w)
  <2>1. Hang(w)
    BY <1>4 DEF RpcSaved, RpcAnswerLost
  <2> QED
    BY <1>1, <1>2, <1>3, <2>1, FinishEnds
<1>5. CASE \E r \in Requests : RpcReplay(w, r) \/ RpcReconcile(w, r) \/ RpcAhead(w, r)
  <2>1. UNCHANGED call /\ mutex = Nobody
    BY <1>5 DEF RpcReplay, RpcReconcile, RpcAhead, Answer, Serve, storeVars
  <2>2. call[w] = NoCall
    BY <1>1, <2>1, Roles DEF MutexInv
  <2> QED
    BY <1>1, <1>2, <1>3, <2>1, <2>2, FinishEnds
<1> QED
  BY <1>4, <1>5

(* A handler that died held its locks no longer.                           *)
LEMMA GoneEnds ==
  ASSUME TypeInv, NEW ws \in SUBSET Handlers, Gone(ws),
         UNCHANGED <<cur, prev, onDisk, acked, expect>>
  PROVE  Ends(ws)
<1>1. hnd \in [Handlers -> HndStates] /\ call \in [Writers -> Calls]
  BY DEF TypeInv, HndType, StoreType
<1> QED
  BY <1>1, IdleTyped, Roles DEF Gone, Ends

(* The ends of the commands beside the daemon, and its crash.              *)
LEMMA OtherEnds ==
  ASSUME TypeInv, MutexInv
  PROVE  /\ \A w \in Clis : CliSaved(w) => Ends({w})
         /\ \A w \in Repairs : RepairDone(w) => Ends({w})
         /\ \A w \in Clis \cup Repairs : CliCrash(w) => Ends({w})
         /\ DaemonCrash => Ends(Daemon)
<1>0. mutex \in Daemon \cup {Nobody} /\ flock \in Locals \cup Repairs \cup {Nobody}
  BY DEF TypeInv, LockType, Daemon
<1>1. ASSUME NEW w \in Clis, CliSaved(w) PROVE Ends({w})
  <2>1. /\ Finish(w) /\ Hang(w) /\ UNCHANGED locks
        /\ UNCHANGED <<cur, prev, onDisk, acked, expect>>
    BY <1>1 DEF CliSaved, files, node
  <2>2. w \in Handlers /\ mutex # w /\ flock # w
    BY <1>0, <1>1, Roles
  <2> QED
    BY <2>1, <2>2, FinishEnds
<1>2. ASSUME NEW w \in Repairs, RepairDone(w) PROVE Ends({w})
  <2>1. /\ Finish(w) /\ Release(w) /\ UNCHANGED call
        /\ UNCHANGED <<cur, prev, onDisk, acked, expect>>
    BY <1>2 DEF RepairDone, storeVars, node
  <2>2. w \in Handlers /\ w \notin Writers /\ w # Nobody
    BY <1>2, Roles
  <2>3. ~UNCHANGED locks \/ (mutex # w /\ flock # w)
    BY <2>1, <2>2 DEF Release, locks
  <2> QED
    BY <2>1, <2>2, <2>3, FinishEnds
<1>3. ASSUME NEW w \in Clis \cup Repairs, CliCrash(w) PROVE Ends({w})
  <2>1. {w} \in SUBSET Handlers
    BY <1>3, Roles
  <2> QED
    BY <1>3, <2>1, GoneEnds DEF CliCrash, files, node
<1>4. ASSUME DaemonCrash PROVE Ends(Daemon)
  <2>1. Daemon \in SUBSET Handlers
    BY Roles
  <2> QED
    BY <1>4, <2>1, GoneEnds DEF DaemonCrash, files, node, Daemon
<1> QED
  BY <1>1, <1>2, <1>3, <1>4

(* The handler that acts, and only it, changes.                            *)
LEMMA Turned ==
  ASSUME TypeInv, NEW w \in Handlers, NEW x \in HndStates, hnd' = [hnd EXCEPT ![w] = x]
  PROVE  Turns(w, x)
BY DEF TypeInv, HndType, Turns

(* The call that is made is well-formed.                                   *)
LEMMA Rung ==
  ASSUME TypeInv, NEW w \in Writers, NEW x \in HndStates, CallSave(w, x.base, x.change)
  PROVE  Rings(w, Asked(x)) /\ Asked(x).cand # <<>> /\ Asked(x).pc = "check"
<1>1. x.base \in States /\ x.change \in Changes
  BY DEF HndStates
<1>2. Append(x.base, x.change) \in States /\ Append(x.base, x.change) # <<>>
  BY <1>1, AppendFacts
<1>3. <<>> \in States
  BY DEF States
<1>4. Asked(x) \in Calls /\ Asked(x).cand # <<>> /\ Asked(x).pc = "check"
  BY <1>1, <1>2, <1>3 DEF Asked, Calls, PCs
<1>5. call' = [call EXCEPT ![w] = Asked(x)]
  BY DEF CallSave, Asked
<1> QED
  BY <1>4, <1>5 DEF TypeInv, StoreType, Rings

Applying(w) == [hnd[w] EXCEPT !.pc = "saving"]
Serving(r, base) == [pc |-> "saving", change |-> r, base |-> base, expected |-> expect[r]]
Adding(c) == [pc |-> "saving", change |-> c, base |-> cur, expected |-> 0]

(* The three ways in which a save begins.                                  *)
LEMMA LocalStarts ==
  ASSUME TypeInv, NEW w \in Locals, LocalApply(w)
  PROVE  /\ Starts(w, Applying(w)) /\ Asked(Applying(w)).cand # <<>>
         /\ Applying(w).base = hnd[w].base /\ Applying(w).change = hnd[w].change
<1>1. w \in Handlers /\ w \in Writers /\ hnd[w] \in HndStates
  BY Roles DEF TypeInv, HndType
<1>2. /\ Applying(w) \in HndStates /\ Applying(w).pc = "saving"
      /\ Applying(w).base = hnd[w].base /\ Applying(w).change = hnd[w].change
  BY <1>1 DEF Applying, HndStates, HandlerPCs
<1>3. hnd' = [hnd EXCEPT ![w] = Applying(w)]
  BY <1>1 DEF LocalApply, Become, Applying, TypeInv, HndType
<1>4. Turns(w, Applying(w))
  BY <1>1, <1>2, <1>3, Turned
<1>5. Rings(w, Asked(Applying(w))) /\ Asked(Applying(w)).cand # <<>>
  BY <1>1, <1>2, Rung DEF LocalApply
<1> QED
  BY <1>2, <1>4, <1>5 DEF LocalApply, Starts, files, locks, node

(* A node RPC dispatches: it saves what it has just loaded.                *)
LEMMA RpcStarts ==
  ASSUME TypeInv, NEW w \in Rpcs, NEW r \in Requests, RpcDispatch(w, r)
  PROVE  /\ Starts(w, Serving(r, cur)) /\ Asked(Serving(r, cur)).cand # <<>>
         /\ Serving(r, cur).base = cur /\ Serving(r, cur).change = r
<1>1. w \in Handlers /\ w \in Writers
  BY Roles
<1>2. /\ Serving(r, cur) \in HndStates /\ Serving(r, cur).pc = "saving"
      /\ Serving(r, cur).base = cur /\ Serving(r, cur).change = r
  BY ControllerAssumptions DEF Serving, HndStates, HandlerPCs, TypeInv, StoreType, RestType
<1>3. hnd' = [hnd EXCEPT ![w] = Serving(r, cur)]
  BY DEF RpcDispatch, Serving
<1>4. Turns(w, Serving(r, cur))
  BY <1>1, <1>2, <1>3, Turned
<1>5. Rings(w, Asked(Serving(r, cur))) /\ Asked(Serving(r, cur)).cand # <<>>
  BY <1>1, <1>2, Rung DEF RpcDispatch
<1> QED
  BY <1>2, <1>4, <1>5 DEF RpcDispatch, Starts, files, node

(* `client add` saves the client in the state it has loaded.               *)
LEMMA CliStarts ==
  ASSUME TypeInv, NEW w \in Clis, NEW c \in CliChanges, CliLoad(w, c)
  PROVE  /\ Starts(w, Adding(c)) /\ Asked(Adding(c)).cand # <<>>
         /\ Adding(c).base = cur /\ Adding(c).change = c
<1>1. w \in Handlers /\ w \in Writers
  BY Roles
<1>2. /\ Adding(c) \in HndStates /\ Adding(c).pc = "saving"
      /\ Adding(c).base = cur /\ Adding(c).change = c
  BY ControllerAssumptions DEF Adding, HndStates, HandlerPCs, TypeInv, StoreType
<1>3. hnd' = [hnd EXCEPT ![w] = Adding(c)]
  BY DEF CliLoad, Adding
<1>4. Turns(w, Adding(c))
  BY <1>1, <1>2, <1>3, Turned
<1>5. Rings(w, Asked(Adding(c))) /\ Asked(Adding(c)).cand # <<>>
  BY <1>1, <1>2, Rung DEF CliLoad
<1> QED
  BY <1>2, <1>4, <1>5 DEF CliLoad, Starts, files, locks, node

(* A handler that moves on without a call of its own, and the state it has *)
(* loaded since.                                                           *)
Moves(w, x, pc) ==
  /\ Turns(w, x) /\ x.pc = pc /\ w \in Handlers
  /\ UNCHANGED <<cur, prev, onDisk, acked, faults, rt, drift, expect,
                 confirmed, refused, secrets>>

(* A local mutation gets the mutex; it has no state yet.                   *)
LEMMA LockMoves ==
  ASSUME TypeInv, NEW w \in Locals, NEW c \in LocalChanges, NEW g \in Nat, LocalLock(w, c, g)
  PROVE  \E x \in HndStates : Moves(w, x, "flock") /\ x.change = c /\ x.base = <<>>
<1> DEFINE x == [pc |-> "flock", change |-> c, base |-> <<>>, expected |-> g]
<1>1. x \in HndStates /\ x.pc = "flock" /\ x.change = c /\ x.base = <<>>
  BY ControllerAssumptions DEF HndStates, HandlerPCs, States
<1>2. hnd' = [hnd EXCEPT ![w] = x] /\ w \in Handlers
  BY Roles DEF LocalLock
<1> HIDE DEF x
<1>3. Turns(w, x)
  BY <1>1, <1>2, Turned
<1> QED
  BY <1>1, <1>2, <1>3 DEF Moves, LocalLock, storeVars, node

(* A local mutation gets the flock and loads the state.                    *)
LEMMA LoadMoves ==
  ASSUME TypeInv, NEW w \in Locals, LocalLoad(w)
  PROVE  \E x \in HndStates :
           Moves(w, x, "apply") /\ x.change = hnd[w].change /\ x.base = cur
<1>0. w \in Handlers /\ hnd[w] \in HndStates /\ cur \in States
  BY Roles DEF TypeInv, HndType, StoreType
<1> DEFINE x == [hnd[w] EXCEPT !.pc = "apply", !.base = cur]
<1>1. x \in HndStates /\ x.pc = "apply" /\ x.change = hnd[w].change /\ x.base = cur
  BY <1>0 DEF HndStates, HandlerPCs
<1>2. hnd' = [hnd EXCEPT ![w] = x]
  BY <1>0 DEF LocalLoad, TypeInv, HndType
<1> HIDE DEF x
<1>3. Turns(w, x)
  BY <1>0, <1>1, <1>2, Turned
<1> QED
  BY <1>0, <1>1, <1>3 DEF Moves, LocalLoad, storeVars, node

(* A repair gets the flock and loads the state.                            *)
LEMMA RepairMoves ==
  ASSUME TypeInv, NEW w \in Repairs, RepairLock(w)
  PROVE  \E x \in HndStates : Moves(w, x, "repair") /\ x.base = cur
<1>0. w \in Handlers /\ hnd[w] \in HndStates /\ cur \in States
  BY Roles DEF TypeInv, HndType, StoreType
<1> DEFINE x == [hnd[w] EXCEPT !.pc = "repair", !.base = cur]
<1>1. x \in HndStates /\ x.pc = "repair" /\ x.base = cur
  BY <1>0 DEF HndStates, HandlerPCs
<1>2. hnd' = [hnd EXCEPT ![w] = x]
  BY <1>0 DEF RepairLock, TypeInv, HndType
<1> HIDE DEF x
<1>3. Turns(w, x)
  BY <1>0, <1>1, <1>2, Turned
<1> QED
  BY <1>0, <1>1, <1>3 DEF Moves, RepairLock, storeVars, node

(* A failed save that has left the old state in place.                     *)
LEMMA RollbackMoves ==
  ASSUME TypeInv, NEW w \in Locals, LocalSaveFailed(w), cur = hnd[w].base
  PROVE  /\ Rings(w, NoCall) /\ UNCHANGED locks
         /\ \E x \in HndStates :
              Moves(w, x, "rollback") /\ x.change = hnd[w].change /\ x.base = hnd[w].base
<1>0. w \in Handlers /\ w \in Writers /\ hnd[w] \in HndStates
  BY Roles DEF TypeInv, HndType
<1> DEFINE x == [hnd[w] EXCEPT !.pc = "rollback"]
<1>1. /\ x \in HndStates /\ x.pc = "rollback" /\ x.change = hnd[w].change
      /\ x.base = hnd[w].base
  BY <1>0 DEF HndStates, HandlerPCs
<1>2. hnd' = [hnd EXCEPT ![w] = x]
  BY <1>0 DEF LocalSaveFailed, Become, TypeInv, HndType
<1> HIDE DEF x
<1>3. Turns(w, x)
  BY <1>0, <1>1, <1>2, Turned
<1>4. Rings(w, NoCall)
  BY <1>0, IdleTyped DEF LocalSaveFailed, Hang, Rings, TypeInv, StoreType
<1>5. UNCHANGED locks /\ UNCHANGED drift
  BY DEF LocalSaveFailed
<1> QED
  BY <1>0, <1>1, <1>3, <1>4, <1>5 DEF Moves, LocalSaveFailed, files, node

-----------------------------------------------------------------------------
(* Types, stamps and the mutex, whoever else writes.                       *)
Base == TypeInv /\ StampInv /\ MutexInv

(* No request is in an empty state; a request that is appended at the      *)
(* generation it expects has its place; and a later request moves none.    *)
LEMMA EmptyStamped == \A e : Stamped(e, <<>>)
BY DEF Stamped

(* A request that is appended at the generation it expects is in place.    *)
LEMMA AppendStamped ==
  ASSUME NEW e, NEW s \in States, NEW c \in Changes, Stamped(e, s),
         c \in Requests => e[c] = Len(s) /\ e[c] > 0
  PROVE  Stamped(e, Append(s, c))
<1> DEFINE t == Append(s, c)
<1>1. /\ t \in States /\ Len(t) = Len(s) + 1 /\ Len(s) \in Nat
      /\ DOMAIN t = 1 .. (Len(s) + 1) /\ DOMAIN s = 1 .. Len(s)
      /\ \A i \in 1 .. Len(s) : t[i] = s[i]
      /\ t[Len(s) + 1] = c
  BY DEF States
<1> HIDE DEF t
<1>2. ASSUME NEW i \in DOMAIN t, t[i] \in Requests
      PROVE  e[t[i]] = i - 1 /\ e[t[i]] > 0
  <2>1. CASE i \in 1 .. Len(s)
    BY <1>1, <1>2, <2>1 DEF Stamped
  <2>2. CASE i = Len(s) + 1
    BY <1>1, <1>2, <2>2
  <2> QED
    BY <1>1, <2>1, <2>2
<1> QED
  BY <1>2 DEF Stamped, t

(* The ends.                                                               *)
LEMMA EndsBase ==
  ASSUME Base, NEW ws \in SUBSET Handlers, Ends(ws), RestType', faults' \in 0 .. MaxFaults
  PROVE  Base'
<1>0. Idle.pc = "idle" /\ Idle.base = <<>> /\ NoCall.cand = <<>> /\ NoCall.pc = "none"
  BY IdleTyped
<1>1. /\ \A v \in Handlers : hnd'[v] = hnd[v] \/ hnd'[v] = Idle
      /\ \A v \in Writers : call'[v] = call[v] \/ call'[v] = NoCall
  BY DEF Ends
<1>2. StoreType'
  BY <1>0, <1>1 DEF Ends, Base, TypeInv, StoreType
<1>3. LockType' /\ HndType'
  BY DEF Ends, Base, TypeInv, LockType, HndType
<1>4. \A v \in Handlers : Role(v)'
  BY <1>0, <1>1 DEF Base, TypeInv, Role
<1>5. StampInv'
  BY <1>0, <1>1, EmptyStamped DEF Ends, Base, StampInv
<1>6. MutexInv'
  <2> SUFFICES ASSUME NEW v \in Daemon
               PROVE  /\ mutex' # v => hnd'[v] = Idle /\ call'[v] = NoCall
                      /\ hnd'[v].pc # "saving" => call'[v] = NoCall
    BY DEF MutexInv
  <2>1. v \in Handlers /\ v \in Writers
    BY Roles
  <2>2. CASE v \in ws
    BY <2>1, <2>2 DEF Ends
  <2>3. CASE v \notin ws
    BY <2>1, <2>3 DEF Ends, Base, MutexInv
  <2> QED
    BY <2>2, <2>3
<1> QED
  BY <1>2, <1>3, <1>4, <1>5, <1>6 DEF Base, TypeInv

(* A save begins.                                                          *)
LEMMA StartsBase ==
  ASSUME Base, NEW w \in Writers, NEW x \in HndStates, Starts(w, x),
         Asked(x).cand # <<>>, Stamped(expect, x.base),
         w \in Locals => x.change \in LocalChanges,
         w \in Clis => x.change \in CliChanges,
         w \in Rpcs => x.change \in Requests,
         x.change \in Requests => expect[x.change] = Len(x.base) /\ expect[x.change] > 0,
         IF w \in Daemon THEN mutex \in {w, Nobody} /\ mutex' = w ELSE UNCHANGED mutex,
         RestType'
  PROVE  Base'
<1>0. w \in Handlers /\ x.base \in States /\ x.change \in Changes
  BY Roles DEF HndStates
<1>1. /\ hnd' \in [Handlers -> HndStates] /\ hnd'[w] = x /\ x.pc = "saving"
      /\ \A v \in Handlers : v # w => hnd'[v] = hnd[v]
      /\ call' \in [Writers -> Calls] /\ call'[w].cand = Append(x.base, x.change)
      /\ \A v \in Writers : v # w => call'[v] = call[v]
      /\ UNCHANGED <<cur, prev, onDisk, acked, faults, expect, flock>>
  BY DEF Starts, Turns, Rings, Asked
<1>2. StoreType'
  BY <1>1 DEF Asked, Base, TypeInv, StoreType
<1>3. mutex' \in Locals \cup Rpcs \cup {Nobody}
  BY DEF Base, TypeInv, LockType, Daemon
<1>4. LockType' /\ HndType'
  BY <1>1, <1>3 DEF Base, TypeInv, LockType, HndType
<1>5. \A v \in Handlers : Role(v)'
  BY <1>1, Roles DEF Base, TypeInv, Role
<1>6. Stamped(expect, Append(x.base, x.change))
  BY <1>0, AppendStamped
<1>7. StampInv'
  BY <1>0, <1>1, <1>6 DEF Base, StampInv
<1>8. MutexInv'
  <2> SUFFICES ASSUME NEW v \in Daemon
               PROVE  /\ mutex' # v => hnd'[v] = Idle /\ call'[v] = NoCall
                      /\ hnd'[v].pc # "saving" => call'[v] = NoCall
    BY DEF MutexInv
  <2>1. v \in Handlers /\ v \in Writers /\ v # Nobody
    BY Roles
  <2> QED
    BY <1>1, <2>1, Roles DEF Base, MutexInv
<1> QED
  BY <1>2, <1>4, <1>5, <1>7, <1>8 DEF Base, TypeInv

(* A step of Save.                                                         *)
LEMMA SavesBase ==
  ASSUME Base, NEW w \in Writers, Saves(w)
  PROVE  Base'
<1>1. StoreType' /\ LockType' /\ HndType' /\ RestType' /\ \A v \in Handlers : Role(v)'
  BY DEF Saves, Base, TypeInv, LockType, HndType, RestType, Role
<1>2. StampInv'
  BY DEF Saves, Base, StampInv
<1>3. MutexInv'
  <2> SUFFICES ASSUME NEW v \in Daemon
               PROVE  /\ mutex # v => hnd[v] = Idle /\ call'[v] = NoCall
                      /\ hnd[v].pc # "saving" => call'[v] = NoCall
    BY DEF MutexInv, Saves
  <2>1. v \in Writers /\ call[w] # NoCall
    BY Roles, IdleTyped DEF Saves
  <2> QED
    BY <2>1 DEF Saves, Base, MutexInv
<1> QED
  BY <1>1, <1>2, <1>3 DEF Base, TypeInv

(* A handler moves on.                                                     *)
LEMMA MovesBase ==
  ASSUME Base, NEW w \in Handlers, NEW x \in HndStates, NEW pc, Moves(w, x, pc),
         pc \in {"flock", "apply", "rollback", "repair"},
         IF pc = "repair" THEN w \in Repairs ELSE w \in Locals /\ x.change \in LocalChanges,
         x.base \in {<<>>, cur, hnd[w].base},
         mutex' \in {mutex, w}, w \in Locals => mutex \in {w, Nobody} /\ mutex' = w,
         w \in Repairs => mutex' = mutex,
         flock' \in Locals \cup Repairs \cup {Nobody},
         IF pc = "rollback" THEN Rings(w, NoCall) ELSE UNCHANGED call,
         pc # "rollback" /\ w \in Locals => hnd[w].pc # "saving"
  PROVE  Base'
<1>1. /\ hnd' \in [Handlers -> HndStates] /\ hnd'[w] = x /\ x.pc = pc
      /\ \A v \in Handlers : v # w => hnd'[v] = hnd[v]
      /\ UNCHANGED <<cur, prev, onDisk, acked, faults, rt, drift, expect,
                     confirmed, refused, secrets>>
  BY DEF Moves, Turns
<1>2. /\ call' \in [Writers -> Calls]
      /\ \A v \in Writers : call'[v] = call[v] \/ (v = w /\ call'[v] = NoCall)
      /\ pc # "rollback" => UNCHANGED call
      /\ pc = "rollback" => call'[w] = NoCall
  BY DEF Rings, Base, TypeInv, StoreType
<1>3. StoreType' /\ RestType' /\ HndType'
  BY <1>1, <1>2, IdleTyped DEF Base, TypeInv, StoreType, RestType, HndType
<1>4. LockType'
  BY Roles DEF Base, TypeInv, LockType
<1>5. \A v \in Handlers : Role(v)'
  BY <1>1, Roles DEF Base, TypeInv, Role
<1>6. StampInv'
  <2>1. Stamped(expect, x.base)
    BY EmptyStamped DEF Base, StampInv
  <2> QED
    BY <1>1, <1>2, <2>1, EmptyStamped, IdleTyped DEF Base, StampInv
<1>7. MutexInv'
  <2> SUFFICES ASSUME NEW v \in Daemon
               PROVE  /\ mutex' # v => hnd'[v] = Idle /\ call'[v] = NoCall
                      /\ hnd'[v].pc # "saving" => call'[v] = NoCall
    BY DEF MutexInv
  <2>1. v \in Handlers /\ v \in Writers /\ v # Nobody
    BY Roles
  <2>2. CASE v = w
    <3>1. w \in Locals /\ mutex' = w
      BY <2>2, Roles
    <3>2. pc # "rollback" => call[w] = NoCall
      BY <2>2, <3>1 DEF Base, MutexInv
    <3> QED
      BY <1>1, <1>2, <2>2, <3>1, <3>2
  <2>3. CASE v # w
    BY <1>1, <1>2, <2>1, <2>3, Roles DEF Base, MutexInv
  <2> QED
    BY <2>2, <2>3
<1> QED
  BY <1>3, <1>4, <1>5, <1>6, <1>7 DEF Base, TypeInv

(* One failure more stays within the bound.                                *)
LEMMA FaultBound ==
  ASSUME Base, Fault \/ UNCHANGED faults
  PROVE  faults' \in 0 .. MaxFaults
BY StoreAssumptions DEF Base, TypeInv, StoreType, Fault

(* The local mutations.                                                    *)
LEMMA LocalBase ==
  ASSUME Base, NEW w \in Locals,
         LocalStep(w) \/ \E c \in LocalChanges, g \in 0 .. Generation(cur) : LocalLock(w, c, g)
  PROVE  Base'
<1>0. /\ w \in Handlers /\ w \in Writers /\ w \in Daemon /\ w \notin Clis /\ w \notin Rpcs
      /\ w \notin Repairs /\ w # Nobody /\ hnd[w] \in HndStates /\ Role(w)
      /\ mutex # w => hnd[w] = Idle /\ call[w] = NoCall
  BY Roles DEF Base, TypeInv, HndType, MutexInv
<1>1. CASE \/ LocalBusy(w) \/ LocalConflict(w) \/ LocalApplyFails(w) \/ LocalSaved(w)
           \/ LocalRollback(w) \/ (LocalSaveFailed(w) /\ cur # hnd[w].base)
  <2>1. Ends({w})
    BY <1>1, LocalEnds DEF Base
  <2>2. Fault \/ UNCHANGED faults
    BY <1>1 DEF LocalBusy, LocalConflict, LocalApplyFails, LocalSaved, LocalRollback,
       LocalSaveFailed, Fails, storeVars
  <2>3. RestType'
    BY <1>1 DEF LocalBusy, LocalConflict, LocalApplyFails, LocalSaved, LocalRollback,
       LocalSaveFailed, node, Base, TypeInv, RestType
  <2>4. {w} \in SUBSET Handlers
    BY <1>0
  <2> QED
    BY <2>1, <2>2, <2>3, <2>4, FaultBound, EndsBase
<1>2. CASE LocalSaveFailed(w) /\ cur = hnd[w].base
  <2>1. PICK x \in HndStates :
          Moves(w, x, "rollback") /\ x.change = hnd[w].change /\ x.base = hnd[w].base
    BY <1>2, RollbackMoves DEF Base
  <2>2. Rings(w, NoCall) /\ UNCHANGED <<mutex, flock>> /\ hnd[w].pc = "saving"
    BY <1>2, RollbackMoves DEF Base, locks, LocalSaveFailed, HndAt
  <2>3. mutex = w /\ x.change \in LocalChanges /\ flock' \in Locals \cup Repairs \cup {Nobody}
    BY <1>0, <2>1, <2>2, IdleTyped DEF Role, Base, TypeInv, LockType
  <2> QED
    BY <1>0, <2>1, <2>2, <2>3, MovesBase
<1>3. CASE LocalLoad(w)
  <2>1. PICK x \in HndStates :
          Moves(w, x, "apply") /\ x.change = hnd[w].change /\ x.base = cur
    BY <1>3, LoadMoves DEF Base
  <2>2. UNCHANGED <<mutex, call>> /\ flock' = w /\ hnd[w].pc = "flock"
    BY <1>3 DEF LocalLoad, storeVars, HndAt
  <2>3. mutex = w /\ x.change \in LocalChanges
    BY <1>0, <2>1, <2>2, IdleTyped DEF Role
  <2> QED
    BY <1>0, <2>1, <2>2, <2>3, MovesBase
<1>4. ASSUME NEW c \in LocalChanges, NEW g \in 0 .. Generation(cur), LocalLock(w, c, g)
      PROVE  Base'
  <2>0. g \in Nat
    OBVIOUS
  <2>1. PICK x \in HndStates : Moves(w, x, "flock") /\ x.change = c /\ x.base = <<>>
    BY <1>4, <2>0, LockMoves DEF Base
  <2>2. UNCHANGED <<flock, call>> /\ mutex = Nobody /\ mutex' = w /\ hnd[w].pc = "idle"
    BY <1>4 DEF LocalLock, storeVars, HndAt
  <2>3. flock' \in Locals \cup Repairs \cup {Nobody}
    BY <2>2 DEF Base, TypeInv, LockType
  <2> QED
    BY <1>0, <2>1, <2>2, <2>3, MovesBase
<1>5. CASE LocalApply(w)
  <2> DEFINE x == Applying(w)
  <2>1. /\ Starts(w, x) /\ Asked(x).cand # <<>>
        /\ x.base = hnd[w].base /\ x.change = hnd[w].change
    BY <1>5, LocalStarts DEF Base
  <2>2. x \in HndStates
    BY <1>0, <2>1 DEF Starts, Turns
  <2>3. hnd[w].pc = "apply" /\ UNCHANGED mutex /\ rt' = rt \cup {hnd[w].change}
    BY <1>5 DEF LocalApply, HndAt, locks
  <2>4. mutex = w /\ hnd[w].change \in LocalChanges
    BY <1>0, <2>3, IdleTyped DEF Role
  <2>5. x.change \notin Requests /\ Stamped(expect, x.base)
    BY <1>0, <2>1, <2>4, ControllerAssumptions DEF Base, StampInv
  <2>6. RestType'
    BY <1>5, <2>3, <2>4 DEF LocalApply, node, Base, TypeInv, RestType
  <2> HIDE DEF x
  <2> QED
    BY <1>0, <2>1, <2>2, <2>3, <2>4, <2>5, <2>6, StartsBase
<1> QED
  BY <1>1, <1>2, <1>3, <1>4, <1>5 DEF LocalStep

(* The requests of nodes.                                                  *)
LEMMA RpcBase ==
  ASSUME Base, NEW w \in Rpcs,
         \/ \E r \in Requests : RpcServes(w, r)
         \/ RpcSaved(w) \/ RpcAnswerLost(w)
  PROVE  Base'
<1>0. /\ w \in Handlers /\ w \in Writers /\ w \in Daemon /\ w \notin Clis /\ w \notin Locals
      /\ w # Nobody /\ hnd[w] \in HndStates /\ Role(w)
  BY Roles DEF Base, TypeInv, HndType
<1>1. CASE \/ \E r \in Requests : RpcReplay(w, r) \/ RpcReconcile(w, r) \/ RpcAhead(w, r)
           \/ RpcSaved(w) \/ RpcAnswerLost(w)
  <2>1. Ends({w}) /\ {w} \in SUBSET Handlers
    BY <1>0, <1>1, RpcEnds DEF Base
  <2>2. Fault \/ UNCHANGED faults
    BY <1>1 DEF RpcReplay, RpcReconcile, RpcAhead, RpcSaved, RpcAnswerLost, Answer, Fails, storeVars
  <2>3. UNCHANGED <<rt, drift, expect, secrets>>
    BY <1>1 DEF RpcReplay, RpcReconcile, RpcAhead, RpcSaved, RpcAnswerLost, Answer, node
  <2>4. HndAt(w, "saving") => hnd[w].change \in Requests
    BY <1>0 DEF Role, HndAt
  <2>5. confirmed' \subseteq Requests /\ refused' \subseteq Requests
    BY <1>1, <2>4 DEF RpcReplay, RpcReconcile, RpcAhead, RpcSaved, RpcAnswerLost, Answer, node,
       Base, TypeInv, RestType
  <2>6. RestType'
    BY <2>3, <2>5 DEF Base, TypeInv, RestType
  <2> QED
    BY <2>1, <2>2, <2>6, FaultBound, EndsBase
<1>2. ASSUME NEW r \in Requests, RpcDispatch(w, r) PROVE Base'
  <2> DEFINE x == Serving(r, cur)
  <2>1. /\ Starts(w, x) /\ Asked(x).cand # <<>> /\ x.base = cur /\ x.change = r
    BY <1>2, RpcStarts DEF Base
  <2>2. x \in HndStates
    BY <1>0, <2>1 DEF Starts, Turns
  <2>3. /\ mutex = Nobody /\ mutex' = w /\ expect[r] = Len(cur) /\ expect[r] > 0
        /\ UNCHANGED <<rt, drift, expect, confirmed, refused, secrets>>
    BY <1>2 DEF RpcDispatch, Serve, Generation, node
  <2>4. RestType' /\ Stamped(expect, x.base)
    BY <2>1, <2>3 DEF Base, TypeInv, RestType, StampInv
  <2> HIDE DEF x
  <2> QED
    BY <1>0, <2>1, <2>2, <2>3, <2>4, StartsBase
<1> QED
  BY <1>1, <1>2 DEF RpcServes

(* The node issues a request, which no state holds yet.                    *)
LEMMA IssueBase ==
  ASSUME Base, NEW r \in Requests, NEW g \in 1 .. Generation(cur), Issue(r, g)
  PROVE  Base'
<1>1. /\ expect[r] = 0 /\ expect' = [expect EXCEPT ![r] = g] /\ g \in Nat
      /\ UNCHANGED <<cur, prev, onDisk, call, acked, faults, mutex, flock, hnd, rt,
                     drift, confirmed, refused, secrets>>
  BY DEF Issue, storeVars, locks
<1>2. expect \in [Requests -> Nat]
  BY DEF Base, TypeInv, RestType
<1>3. ASSUME NEW s, Stamped(expect, s) PROVE Stamped(expect', s)
  BY <1>1, <1>2, <1>3 DEF Stamped
<1>4. TypeInv'
  BY <1>1, <1>2 DEF Base, TypeInv, StoreType, LockType, HndType, RestType, Role
<1>5. StampInv'
  BY <1>1, <1>3 DEF Base, StampInv
<1>6. MutexInv'
  BY <1>1 DEF Base, MutexInv
<1> QED
  BY <1>4, <1>5, <1>6 DEF Base

(* The commands beside the daemon and the crashes.                         *)
LEMMA CliBase ==
  ASSUME Base, NEW w \in Clis, (\E c \in CliChanges : CliLoad(w, c)) \/ CliSaved(w)
  PROVE  Base'
<1>0. /\ w \in Handlers /\ w \in Writers /\ w \notin Daemon /\ w \notin Rpcs /\ w \notin Locals
      /\ hnd[w] \in HndStates
  BY Roles DEF Base, TypeInv, HndType
<1>1. CASE CliSaved(w)
  <2>1. Ends({w}) /\ {w} \in SUBSET Handlers
    BY <1>0, <1>1, OtherEnds DEF Base
  <2>2. RestType'
    BY <1>1 DEF CliSaved, node, Base, TypeInv, RestType
  <2> QED
    BY <1>1, <2>1, <2>2, FaultBound, EndsBase DEF CliSaved
<1>2. ASSUME NEW c \in CliChanges, CliLoad(w, c) PROVE Base'
  <2> DEFINE x == Adding(c)
  <2>1. /\ Starts(w, x) /\ Asked(x).cand # <<>> /\ x.base = cur /\ x.change = c
    BY <1>2, CliStarts DEF Base
  <2>2. x \in HndStates
    BY <1>0, <2>1 DEF Starts, Turns
  <2>3. UNCHANGED <<mutex, rt, drift, expect, confirmed, refused>> /\ secrets' = secrets \cup {c}
    BY <1>2 DEF CliLoad, locks, node
  <2>4. RestType' /\ Stamped(expect, x.base) /\ x.change \notin Requests
    BY <1>2, <2>1, <2>3, ControllerAssumptions DEF Base, TypeInv, RestType, StampInv
  <2> HIDE DEF x
  <2> QED
    BY <1>0, <2>1, <2>2, <2>3, <2>4, StartsBase
<1> QED
  BY <1>1, <1>2

(* The steps of a repair.                                                  *)
LEMMA RepairBase ==
  ASSUME Base, NEW w \in Repairs, RepairLock(w) \/ RepairDone(w)
  PROVE  Base'
<1>0. w \in Handlers /\ w \notin Locals
  BY Roles
<1>1. CASE RepairDone(w)
  <2>1. Ends({w}) /\ {w} \in SUBSET Handlers
    BY <1>0, <1>1, OtherEnds DEF Base
  <2>2. RestType' /\ UNCHANGED faults
    BY <1>1 DEF RepairDone, storeVars, node, Base, TypeInv, RestType
  <2> QED
    BY <2>1, <2>2, FaultBound, EndsBase
<1>2. CASE RepairLock(w)
  <2>1. PICK x \in HndStates : Moves(w, x, "repair") /\ x.base = cur
    BY <1>2, RepairMoves DEF Base
  <2>2. UNCHANGED <<mutex, call>> /\ flock' = w
    BY <1>2 DEF RepairLock, storeVars
  <2> QED
    BY <1>0, <2>1, <2>2, MovesBase
<1> QED
  BY <1>1, <1>2

(* The daemon or a command dies.                                           *)
LEMMA CrashBase ==
  ASSUME Base, DaemonCrash \/ \E w \in Clis \cup Repairs : CliCrash(w)
  PROVE  Base'
<1>1. PICK ws \in SUBSET Handlers : Ends(ws)
  <2>1. Daemon \in SUBSET Handlers /\ \A w \in Clis \cup Repairs : {w} \in SUBSET Handlers
    BY Roles
  <2> QED
    BY <2>1, OtherEnds DEF Base
<1>2. Fault
  BY DEF DaemonCrash, CliCrash, Fails
<1>3. rt' \subseteq LocalChanges
  <2>1. \A w \in Locals : HndAt(w, "apply") => hnd[w].change \in LocalChanges
    BY Roles DEF Base, TypeInv, Role, HndAt
  <2> DEFINE news == {hnd[w].change : w \in {v \in Locals : HndAt(v, "apply")}}
  <2>2. rt' = rt \/ rt' = rt \cup news
    BY DEF DaemonCrash, CliCrash
  <2>3. news \subseteq LocalChanges /\ rt \subseteq LocalChanges
    BY <2>1 DEF Base, TypeInv, RestType
  <2> HIDE DEF news
  <2> QED
    BY <2>2, <2>3
<1>4. drift' \in BOOLEAN
  BY DEF DaemonCrash, CliCrash, Base, TypeInv, RestType, LocalInFlight
<1>5. RestType'
  BY <1>3, <1>4 DEF DaemonCrash, CliCrash, node, Base, TypeInv, RestType
<1> QED
  BY <1>1, <1>2, <1>5, FaultBound, EndsBase

(* A power loss: any state the disk may hold becomes current.              *)
LEMMA PowerBase ==
  ASSUME Base, PowerLoss
  PROVE  Base'
<1>1. PICK d \in onDisk : cur' = d.cur /\ prev' = d.prev /\ onDisk' = {d}
  BY DEF PowerLoss, AfterPowerLoss
<1>2. /\ call' = [w \in Writers |-> NoCall] /\ hnd' = [w \in Handlers |-> Idle]
      /\ mutex' = Nobody /\ flock' = Nobody
  BY Roles DEF PowerLoss, Gone, Base, TypeInv, LockType, Handlers, Daemon
<1>3. UNCHANGED <<acked, rt, expect, confirmed, refused, secrets>> /\ drift' = TRUE /\ Fault
  BY DEF PowerLoss, Fails, node
<1>4. faults' \in 0 .. MaxFaults
  BY <1>3, FaultBound
<1>5. StoreType' /\ LockType' /\ HndType' /\ RestType'
  BY <1>1, <1>2, <1>3, <1>4, IdleTyped
     DEF Base, TypeInv, StoreType, LockType, HndType, RestType, Directory
<1>6. \A w \in Handlers : Role(w)'
  BY <1>2, IdleTyped DEF Role
<1>7. StampInv'
  BY <1>1, <1>2, <1>3, IdleTyped, EmptyStamped DEF Base, StampInv
<1>8. MutexInv'
  BY <1>2, Roles DEF MutexInv
<1> QED
  BY <1>5, <1>6, <1>7, <1>8 DEF Base, TypeInv

(* Every step keeps types, stamps and the mutex right.                     *)
LEMMA NextBase == Base /\ [Next]_vars => Base'
<1> SUFFICES ASSUME Base, [Next]_vars PROVE Base'
  OBVIOUS
<1>1. CASE UNCHANGED vars
  BY <1>1 DEF vars, Base, TypeInv, StoreType, LockType, HndType, RestType, Role, StampInv, MutexInv
<1>2. ASSUME NEW w \in Writers, SavingStep(w) PROVE Base'
  BY <1>2, SaveShape, SavesBase DEF Base
<1> QED
  BY <1>1, <1>2, LocalBase, RpcBase, IssueBase, CliBase, RepairBase, CrashBase, PowerBase DEF Next

(* Types, stamps and the mutex are right at the start.                     *)
LEMMA InitBase == Init => Base
<1> SUFFICES ASSUME Init PROVE Base
  OBVIOUS
<1>1. /\ cur = <<Genesis>> /\ prev = <<>> /\ onDisk = {[cur |-> cur, prev |-> prev]}
      /\ call = [w \in Writers |-> NoCall] /\ acked = {} /\ faults = 0
      /\ hnd = [w \in Handlers |-> Idle]
  BY DEF Init, InitStore
<1>2. cur \in States /\ prev \in States
  BY <1>1, ControllerAssumptions DEF States
<1>3. StoreType
  BY <1>1, <1>2, IdleTyped, StoreAssumptions DEF StoreType, Directory
<1>4. LockType /\ HndType /\ RestType /\ \A w \in Handlers : Role(w)
  BY <1>1, IdleTyped DEF Init, LockType, HndType, RestType, Role
<1>5. Stamped(expect, cur)
  <2>1. DOMAIN cur = {1} /\ cur[1] = Genesis
    BY <1>1
  <2> QED
    BY <2>1, ControllerAssumptions DEF Stamped
<1>6. StampInv /\ MutexInv
  BY <1>1, <1>5, IdleTyped, EmptyStamped, Roles DEF StampInv, MutexInv
<1> QED
  BY <1>3, <1>4, <1>6 DEF Base, TypeInv

(* A request occurs in a stamped state at one place only.                  *)
LEMMA StampedOnce == Base => TypeOK /\ AtMostOnce
<1> SUFFICES ASSUME Base PROVE TypeOK /\ AtMostOnce
  OBVIOUS
<1>1. StoreTypeOK
  BY DEF Base, TypeInv, StoreType, StoreTypeOK, Directory, Calls, States
<1>2. TypeOK
  BY <1>1 DEF TypeOK, Base, TypeInv, LockType, HndType, RestType, HndStates, States
<1>3. ASSUME NEW r \in Requests
      PROVE  Cardinality({i \in DOMAIN cur : cur[i] = r}) <= 1
  <2> DEFINE places == {i \in DOMAIN cur : cur[i] = r}
  <2>1. DOMAIN cur \subseteq Nat /\ expect[r] \in Nat
    BY DEF Base, TypeInv, StoreType, States, RestType
  <2>2. places \subseteq {expect[r] + 1}
    BY <2>1 DEF Base, StampInv, Stamped
  <2>3. places = {} \/ places = {expect[r] + 1}
    BY <2>2
  <2>4. Cardinality({}) = 0 /\ Cardinality({expect[r] + 1}) = 1
    BY FS_EmptySet, FS_Singleton
  <2>5. Cardinality(places) = 0 \/ Cardinality(places) = 1
    BY <2>3, <2>4
  <2> QED
    BY <2>5
<1> QED
  BY <1>2, <1>3 DEF AtMostOnce

(* However often a request arrives, and whoever writes beside the daemon,  *)
(* its effect is in the state once: dispatch appends it only at the        *)
(* generation that it expects, so it has one possible place in any state   *)
(* that can become current, after a crash or a power loss as well.         *)
THEOREM RequestsTakeEffectOnce == Spec => [](TypeOK /\ AtMostOnce)
<1>1. Base => TypeOK /\ AtMostOnce
  BY StampedOnce
<1> QED
  BY <1>1, InitBase, NextBase, PTL DEF Spec

-----------------------------------------------------------------------------
(* Without commands that bypass the locks, one save is at work at a time.  *)
Locked == Base /\ SerialInv

(* Whoever is not idle holds the mutex, and is alone.                      *)
LEMMA Holder ==
  ASSUME Base, NEW w \in Daemon, hnd[w].pc # "idle" \/ call[w].pc # "none" \/ mutex \in {w, Nobody}
  PROVE  /\ hnd[w].pc # "idle" \/ call[w].pc # "none" => mutex = w
         /\ \A v \in Daemon : v # w => hnd[v] = Idle /\ call[v] = NoCall
BY IdleTyped, Roles DEF Base, MutexInv

(* An idle handler knows nothing.                                          *)
LEMMA IdleKnows ==
  /\ \A w : hnd[w] = Idle => Knows(w)
  /\ \A w : hnd'[w] = Idle => Knows(w)'
BY IdleTyped DEF Knows

(* Save on behalf of the holder of the mutex.                              *)
LEMMA SavesLocked ==
  ASSUME Clis = {}, Locked, NEW w \in Writers, SavingStep(w)
  PROVE  SerialInv'
<1>0. Base /\ IInv /\ Saves(w) /\ w \in Daemon /\ w \in Handlers
  BY SaveShape, Roles DEF Locked, Base, SerialInv
<1>1. hnd[w].pc = "saving" /\ SaveKnows(w) /\ UNCHANGED hnd
  BY <1>0, IdleTyped DEF Base, MutexInv, Saves, Locked, SerialInv, Knows
<1>2. \A v \in Daemon : v # w => hnd[v] = Idle
  BY <1>0, <1>1, Holder
<1>3. IInv'
  BY <1>0, CheckStep, RenamePreviousStep, SyncPreviousStep, RenameStateStep, SyncStateStep,
     SaveFailsStep DEF SavingStep, SaveStep
<1>4. cur # <<>> /\ \A d \in onDisk : d.cur # <<>>
  BY DEF Locked, SerialInv
<1>5. call[w].cand # <<>> /\ call[w] \in Calls
  BY <1>0 DEF Saves, Base, TypeInv, StoreType
<1>6. cur' # <<>> /\ \A d \in onDisk' : d.cur # <<>>
  BY <1>0, <1>4, <1>5 DEF Saves
<1>7. /\ call'[w].base = call[w].base /\ call'[w].cand = call[w].cand
      /\ call[w].pc \notin {"none", "ok", "conflict", "error"} /\ call'[w].pc # "none"
      /\ call'[w].pc \in PCs
  <2>1. call' \in [Writers -> Calls]
    BY <1>0 DEF Saves
  <2>2. call'[w].pc \in PCs
    BY <2>1 DEF Calls
  <2> QED
    BY <1>0, <2>2 DEF Saves
<1>8. SaveKnows(w)'
  <2>1. CASE SaveCheck(w)
    <3>1. call[w].base = cur
      BY <1>1, <2>1 DEF SaveCheck, SaveKnows, Pending, At
    <3>2. call'[w].pc = "previous" /\ cur' = cur
      BY <1>0, <1>4, <2>1, <3>1 DEF SaveCheck, Verdicts, Base, TypeInv, StoreType, Calls, files
    <3> QED
      BY <1>1, <1>7, <2>1, <3>1, <3>2 DEF SaveKnows, Pending
  <2>2. CASE RenamePrevious(w) \/ SyncPrevious(w)
    <3>1. /\ call'[w].pc \in {"syncPrevious", "rename"} /\ cur' = cur
          /\ call[w].pc \in {"previous", "syncPrevious"}
      BY <1>0, <2>2 DEF RenamePrevious, SyncPrevious, Goto, Base, TypeInv, StoreType, Calls, At
    <3> QED
      BY <1>1, <1>7, <3>1 DEF SaveKnows, Pending
  <2>3. CASE RenameState(w)
    <3>1. call'[w].pc = "syncState" /\ cur' = call[w].cand
      BY <1>0, <2>3 DEF RenameState, Goto, Base, TypeInv, StoreType, Calls
    <3> QED
      BY <1>1, <1>7, <3>1 DEF SaveKnows, Pending
  <2>4. CASE SyncState(w)
    <3>1. call'[w].pc = "ok" /\ cur' = cur /\ call[w].pc = "syncState"
      BY <1>0, <2>4 DEF SyncState, Goto, Base, TypeInv, StoreType, Calls, At
    <3> QED
      BY <1>1, <1>7, <3>1 DEF SaveKnows, Pending
  <2>5. CASE SaveFails(w)
    <3>1. call'[w].pc = "error" /\ cur' = cur
      BY <1>0, <2>5 DEF SaveFails, Goto, Base, TypeInv, StoreType, Calls, files
    <3> QED
      BY <1>1, <1>7, <3>1 DEF SaveKnows, Pending
  <2> QED
    BY <2>1, <2>2, <2>3, <2>4, <2>5 DEF SavingStep, SaveStep
<1>9. \A v \in Daemon : Knows(v)'
  BY <1>1, <1>2, <1>8, IdleKnows DEF Knows
<1> QED
  BY <1>3, <1>6, <1>9 DEF SerialInv

(* The ends leave what the others know.                                    *)
LEMMA EndsLocked ==
  ASSUME Locked, NEW ws, Ends(ws), faults' \in Nat
  PROVE  SerialInv'
<1>1. /\ \A v \in Handlers : hnd'[v] = hnd[v] \/ hnd'[v] = Idle
      /\ \A v \in Writers : call'[v] = call[v] \/ call'[v] = NoCall
      /\ \A v \in Writers : hnd'[v] = Idle \/ (hnd'[v] = hnd[v] /\ call'[v] = call[v])
  BY Roles DEF Ends
<1>2. UNCHANGED <<cur, prev, onDisk, acked>> /\ call' \in [Writers -> Calls]
  BY DEF Ends
<1>3. IInv'
  BY <1>1, <1>2, EndStep DEF Locked, SerialInv, files
<1>4. \A v \in Daemon : Knows(v)'
  <2> SUFFICES ASSUME NEW v \in Daemon, hnd'[v] = hnd[v], call'[v] = call[v] PROVE Knows(v)'
    BY <1>1, IdleKnows, Roles
  <2>1. Knows(v)
    BY DEF Locked, SerialInv
  <2> QED
    BY <1>2, <2>1 DEF Knows, SaveKnows, Pending
<1> QED
  BY <1>2, <1>3, <1>4 DEF Locked, SerialInv

(* A save begins with the state that is there.                             *)
LEMMA StartsLocked ==
  ASSUME Clis = {}, Locked, NEW w \in Daemon, NEW x \in HndStates, Starts(w, x),
         mutex \in {w, Nobody}, hnd[w].pc # "saving",
         CallSave(w, cur, x.change), x.base = cur, x.change \notin ToSet(cur)
  PROVE  SerialInv'
<1>1. /\ w \in Writers /\ w \in Handlers /\ x.change \in Changes
      /\ \A v \in Writers : call[v].pc = "none"
      /\ \A v \in Daemon : v # w => hnd[v] = Idle
  BY Holder, Roles, IdleTyped DEF Locked, Base, MutexInv, HndStates
<1>2. /\ hnd'[w] = x /\ x.pc = "saving" /\ call'[w] = Asked(x)
      /\ \A v \in Handlers : v # w => hnd'[v] = hnd[v]
      /\ UNCHANGED <<cur, prev, onDisk, acked, faults>>
  BY DEF Starts, Turns, Rings
<1>3. IInv'
  BY <1>1, <1>2, BeginStep DEF Locked, SerialInv, files
<1>4. SaveKnows(w)'
  BY <1>2 DEF SaveKnows, Asked, PCs, Pending
<1>5. \A v \in Daemon : Knows(v)'
  BY <1>1, <1>2, <1>4, IdleKnows, Roles DEF Knows
<1> QED
  BY <1>2, <1>3, <1>5 DEF Locked, SerialInv

(* A handler moves on to a place where it knows what is said of it.        *)
LEMMA MovesLocked ==
  ASSUME Locked, NEW w \in Handlers, NEW x \in HndStates, NEW pc, Moves(w, x, pc),
         UNCHANGED call \/ Rings(w, NoCall), pc # "saving",
         pc = "flock" => x.change \notin ToSet(cur),
         pc \in {"apply", "rollback"} => x.base = cur /\ x.change \notin ToSet(cur)
  PROVE  SerialInv'
<1>1. /\ hnd'[w] = x /\ x.pc = pc /\ \A v \in Handlers : v # w => hnd'[v] = hnd[v]
      /\ UNCHANGED <<cur, prev, onDisk, acked, faults>>
  BY DEF Moves, Turns
<1>2. /\ call' \in [Writers -> Calls]
      /\ \A v \in Writers : call'[v] = call[v] \/ (v = w /\ call'[v] = NoCall)
  BY DEF Rings, Locked, Base, TypeInv, StoreType
<1>3. IInv'
  BY <1>1, <1>2, EndStep DEF Locked, SerialInv, files, IInv, Types
<1>4. ASSUME NEW v \in Daemon, v # w PROVE Knows(v)'
  <2>1. Knows(v) /\ hnd'[v] = hnd[v] /\ call'[v] = call[v]
    BY <1>1, <1>2, <1>4, Roles DEF Locked, SerialInv
  <2> QED
    BY <1>1, <2>1 DEF Knows, SaveKnows, Pending
<1>5. Knows(w)'
  BY <1>1 DEF Knows
<1> QED
  BY <1>1, <1>3, <1>4, <1>5 DEF Locked, SerialInv

(* A request that expects the current generation is not in the state.      *)
LEMMA ExpectedIsNew ==
  ASSUME Base, NEW r \in Requests, expect[r] >= Len(cur)
  PROVE  r \notin ToSet(cur)
<1>1. SUFFICES ASSUME NEW i \in DOMAIN cur, cur[i] = r PROVE FALSE
  BY DEF ToSet
<1>2. DOMAIN cur = 1 .. Len(cur) /\ Len(cur) \in Nat
  BY DEF Base, TypeInv, StoreType, States
<1> QED
  BY <1>1, <1>2 DEF Base, StampInv, Stamped

(* Every step of the daemon keeps what the holder of the mutex knows.      *)
LEMMA NextLocked ==
  ASSUME Clis = {}, Locked, [Next]_vars
  PROVE  SerialInv'
<1>0. Base /\ SerialInv /\ IInv /\ faults \in Nat
  BY DEF Locked, SerialInv, IInv, Types
<1>f. ASSUME Fault \/ UNCHANGED faults PROVE faults' \in Nat
  BY <1>0, <1>f DEF Fault
<1>1. CASE UNCHANGED vars
  BY <1>0, <1>1 DEF vars, SerialInv, IInv, Types, OneCall, CandidateExtends, CandidateInForce,
     ReadIsCurrent, DiskBehind, NoLostUpdate, PreviousIsPredecessor, Pending, InProgress, At,
     Knows, SaveKnows
<1>2. ASSUME NEW w \in Writers, SavingStep(w) PROVE SerialInv'
  BY <1>2, SavesLocked
<1>3. ASSUME NEW w \in Locals, LocalStep(w) PROVE SerialInv'
  <2>0. w \in Handlers /\ w \in Daemon /\ hnd[w] \in HndStates /\ Knows(w)
    BY <1>0, Roles DEF Base, TypeInv, HndType, SerialInv
  <2>1. CASE \/ LocalBusy(w) \/ LocalConflict(w) \/ LocalApplyFails(w) \/ LocalSaved(w)
             \/ LocalRollback(w) \/ (LocalSaveFailed(w) /\ cur # hnd[w].base)
    <3>1. Ends({w})
      BY <1>0, <2>1, LocalEnds DEF Base
    <3>2. Fault \/ UNCHANGED faults
      BY <2>1 DEF LocalBusy, LocalConflict, LocalApplyFails, LocalSaved, LocalRollback,
         LocalSaveFailed, Fails, storeVars
    <3> QED
      BY <1>f, <3>1, <3>2, EndsLocked
  <2>2. CASE LocalSaveFailed(w) /\ cur = hnd[w].base
    <3>1. PICK x \in HndStates :
            Moves(w, x, "rollback") /\ x.change = hnd[w].change /\ x.base = hnd[w].base
      BY <1>0, <2>2, RollbackMoves DEF Base
    <3>2. Rings(w, NoCall)
      BY <1>0, <2>2, RollbackMoves DEF Base
    <3>3. hnd[w].change \notin ToSet(cur)
      BY <2>0, <2>2 DEF LocalSaveFailed, HndAt, Knows, SaveKnows
    <3> QED
      BY <2>0, <2>2, <3>1, <3>2, <3>3, MovesLocked
  <2>3. CASE LocalLoad(w)
    <3>1. PICK x \in HndStates :
            Moves(w, x, "apply") /\ x.change = hnd[w].change /\ x.base = cur
      BY <1>0, <2>3, LoadMoves DEF Base
    <3>2. hnd[w].change \notin ToSet(cur) /\ UNCHANGED call
      BY <2>0, <2>3 DEF LocalLoad, HndAt, Knows, storeVars
    <3> QED
      BY <2>0, <3>1, <3>2, MovesLocked
  <2>4. CASE LocalApply(w)
    <3> DEFINE x == Applying(w)
    <3>1. Starts(w, x) /\ x.base = hnd[w].base /\ x.change = hnd[w].change
      BY <1>0, <2>4, LocalStarts DEF Base
    <3>2. x \in HndStates
      BY <2>0, <3>1 DEF Starts, Turns
    <3>3. /\ hnd[w].pc = "apply" /\ hnd[w].base = cur /\ hnd[w].change \notin ToSet(cur)
          /\ CallSave(w, cur, hnd[w].change)
      BY <2>0, <2>4 DEF LocalApply, HndAt, Knows
    <3>4. mutex = w
      BY <1>0, <2>0, <3>3, Holder
    <3> HIDE DEF x
    <3> QED
      BY <2>0, <3>1, <3>2, <3>3, <3>4, StartsLocked
  <2> QED
    BY <1>3, <2>1, <2>2, <2>3, <2>4 DEF LocalStep
<1>4. ASSUME NEW w \in Locals, NEW c \in LocalChanges, NEW g \in 0 .. Generation(cur),
             LocalLock(w, c, g)
      PROVE  SerialInv'
  <2>0. g \in Nat /\ w \in Handlers
    BY Roles
  <2>1. PICK x \in HndStates : Moves(w, x, "flock") /\ x.change = c /\ x.base = <<>>
    BY <1>0, <1>4, <2>0, LockMoves DEF Base
  <2>2. c \notin ToSet(cur) /\ UNCHANGED call
    BY <1>4 DEF LocalLock, storeVars
  <2> QED
    BY <2>0, <2>1, <2>2, MovesLocked
<1>5. ASSUME NEW r \in Requests, NEW g \in 1 .. Generation(cur), Issue(r, g) PROVE SerialInv'
  BY <1>0, <1>5 DEF Issue, storeVars, locks, SerialInv, IInv, Types, OneCall, CandidateExtends,
     CandidateInForce, ReadIsCurrent, DiskBehind, NoLostUpdate, PreviousIsPredecessor, Pending,
     InProgress, At, Knows, SaveKnows
<1>6. ASSUME NEW w \in Rpcs, (\E r \in Requests : RpcServes(w, r)) \/ RpcSaved(w) \/ RpcAnswerLost(w)
      PROVE  SerialInv'
  <2>0. w \in Handlers /\ w \in Daemon /\ Knows(w)
    BY <1>0, Roles DEF SerialInv
  <2>1. CASE \/ \E r \in Requests : RpcReplay(w, r) \/ RpcReconcile(w, r) \/ RpcAhead(w, r)
             \/ RpcSaved(w) \/ RpcAnswerLost(w)
    <3>1. Ends({w})
      BY <1>0, <2>1, RpcEnds DEF Base
    <3>2. Fault \/ UNCHANGED faults
      BY <2>1 DEF RpcReplay, RpcReconcile, RpcAhead, RpcSaved, RpcAnswerLost, Answer, Fails,
         storeVars
    <3> QED
      BY <1>f, <3>1, <3>2, EndsLocked
  <2>2. ASSUME NEW r \in Requests, RpcDispatch(w, r) PROVE SerialInv'
    <3> DEFINE x == Serving(r, cur)
    <3>1. Starts(w, x) /\ x.base = cur /\ x.change = r
      BY <1>0, <2>2, RpcStarts DEF Base
    <3>2. x \in HndStates
      BY <2>0, <3>1 DEF Starts, Turns
    <3>3. /\ mutex = Nobody /\ hnd[w].pc = "idle" /\ expect[r] = Len(cur)
          /\ CallSave(w, cur, r)
      BY <2>2 DEF RpcDispatch, Serve, HndAt, Generation
    <3>4. r \notin ToSet(cur)
      <4>1. Len(cur) \in Nat
        BY <1>0 DEF IInv, Types, States
      <4> QED
        BY <1>0, <3>3, <4>1, ExpectedIsNew
    <3> HIDE DEF x
    <3> QED
      BY <2>0, <3>1, <3>2, <3>3, <3>4, StartsLocked
  <2> QED
    BY <1>6, <2>1, <2>2 DEF RpcServes
<1>7. ASSUME NEW w \in Repairs, RepairLock(w) \/ RepairDone(w) PROVE SerialInv'
  <2>1. CASE RepairDone(w)
    BY <1>0, <1>7, <1>f, <2>1, OtherEnds, EndsLocked DEF Base, RepairDone, storeVars
  <2>2. CASE RepairLock(w)
    <3>1. PICK x \in HndStates : Moves(w, x, "repair") /\ x.base = cur
      BY <1>0, <2>2, RepairMoves DEF Base
    <3>2. UNCHANGED call /\ w \in Handlers
      BY <2>2, Roles DEF RepairLock, storeVars
    <3> QED
      BY <3>1, <3>2, MovesLocked
  <2> QED
    BY <1>7, <2>1, <2>2
<1>8. CASE DaemonCrash \/ \E w \in Clis \cup Repairs : CliCrash(w)
  <2>1. \E ws : Ends(ws)
    BY <1>0, <1>8, OtherEnds DEF Base
  <2>2. Fault
    BY <1>8 DEF DaemonCrash, CliCrash, Fails
  <2> QED
    BY <1>f, <2>1, <2>2, EndsLocked
<1>9. CASE PowerLoss
  <2>1. PICK d \in onDisk : cur' = d.cur /\ prev' = d.prev /\ onDisk' = {d}
    BY <1>9 DEF PowerLoss, AfterPowerLoss
  <2>2. call' = [w \in Writers |-> NoCall] /\ hnd' = [w \in Handlers |-> Idle]
    BY <1>9, Roles DEF PowerLoss, Gone, Handlers
  <2>3. acked' = acked /\ Fault /\ AfterPowerLoss
    BY <1>9 DEF PowerLoss, Fails
  <2>4. IInv'
    BY <1>0, <1>f, <2>2, <2>3, PowerLossStep
  <2>5. cur' # <<>> /\ \A e \in onDisk' : e.cur # <<>>
    BY <1>0, <2>1 DEF SerialInv
  <2>6. \A w \in Daemon : Knows(w)'
    BY <2>2, IdleKnows, Roles
  <2> QED
    BY <2>4, <2>5, <2>6 DEF SerialInv
<1> QED
  BY <1>1, <1>2, <1>3, <1>4, <1>5, <1>6, <1>7, <1>8, <1>9 DEF Next

(* The state that gateway init wrote.                                      *)
LEMMA InitLocked == Init => Locked
<1> SUFFICES ASSUME Init PROVE Locked
  OBVIOUS
<1>1. <<Genesis>> \in States /\ Len(<<Genesis>>) <= 1
  BY ControllerAssumptions DEF States
<1>2. IInv
  BY <1>1, InitStoreIInv DEF Init
<1>3. cur # <<>> /\ \A d \in onDisk : d.cur # <<>>
  BY DEF Init, InitStore
<1>4. \A w \in Daemon : Knows(w)
  BY IdleKnows, Roles DEF Init
<1> QED
  BY <1>2, <1>3, <1>4, InitBase DEF Locked, SerialInv

(* Without client commands the mutex makes load-to-save sections of the    *)
(* daemon exclusive, and no change that Save acknowledged is ever lost, to *)
(* another mutation, a failed sync, a crash or a power loss.               *)
THEOREM NothingAcknowledgedIsLost == Clis = {} => (Spec => []NoLostUpdate)
<1> SUFFICES ASSUME Clis = {} PROVE Spec => []NoLostUpdate
  OBVIOUS
<1>1. Locked /\ [Next]_vars => Locked'
  BY NextBase, NextLocked DEF Locked
<1>2. Locked => NoLostUpdate
  BY DEF Locked, SerialInv, IInv
<1> QED
  BY <1>1, <1>2, InitLocked, PTL DEF Spec

-----------------------------------------------------------------------------
(* The runtime follows the state.                                          *)
RuntimeOK ==
  /\ \A w \in Locals : Activated(w) => rt = LocalOf(hnd[w].base) \cup {hnd[w].change}
  /\ (\A w \in Locals : ~Activated(w)) => rt = LocalOf(cur)

(* A reported drift stays reported.                                        *)
LEMMA DriftStays ==
  ASSUME [Next]_vars, drift
  PROVE  drift'
<1>1. ASSUME NEW w \in Locals, LocalStep(w) PROVE drift'
  BY <1>1 DEF LocalStep, LocalBusy, LocalConflict, LocalLoad, LocalApply, LocalApplyFails, LocalSaved,
     LocalRollback, LocalSaveFailed
<1>2. ASSUME NEW w \in Rpcs, NEW r \in Requests, RpcServes(w, r) PROVE drift'
  BY <1>2 DEF RpcServes, RpcReplay, RpcReconcile, RpcAhead, RpcDispatch, Answer
<1>3. CASE DaemonCrash \/ PowerLoss
  BY <1>3 DEF DaemonCrash, PowerLoss
<1>4. CASE \/ \E w \in Locals, c \in LocalChanges, g \in 0 .. Generation(cur) : LocalLock(w, c, g)
           \/ \E w \in Rpcs : RpcSaved(w) \/ RpcAnswerLost(w)
           \/ \E w \in Clis : (\E c \in CliChanges : CliLoad(w, c)) \/ CliSaved(w)
           \/ \E w \in Repairs : RepairLock(w) \/ RepairDone(w)
           \/ \E w \in Clis \cup Repairs : CliCrash(w)
           \/ \E w \in Writers : SavingStep(w)
           \/ \E r \in Requests, g \in 1 .. Generation(cur) : Issue(r, g)
           \/ UNCHANGED vars
  BY <1>4 DEF LocalLock, RpcSaved, RpcAnswerLost, CliLoad, CliSaved, RepairLock, RepairDone,
     CliCrash, SavingStep, Issue, vars
<1> QED
  BY <1>1, <1>2, <1>3, <1>4 DEF Next

(* Steps that concern no local mutation between activation and end.        *)
LEMMA RuntimeKept ==
  ASSUME RuntimeOK, rt' = rt,
         \A w \in Locals : /\ Activated(w)' <=> Activated(w)
                           /\ Activated(w) => /\ hnd'[w].base = hnd[w].base
                                              /\ hnd'[w].change = hnd[w].change,
         (\A w \in Locals : ~Activated(w)) => LocalOf(cur)' = LocalOf(cur)
  PROVE  RuntimeOK'
BY DEF RuntimeOK, LocalOf

(* A local mutation at its end, with its change in the state and in force. *)
LEMMA RuntimeSettled ==
  ASSUME Locked, RuntimeOK, NEW w \in Locals, Ends({w}), rt' = rt,
         hnd[w].pc = "saving", cur = call[w].cand
  PROVE  RuntimeOK'
<1>1. /\ w \in Handlers /\ w \in Daemon /\ hnd[w].change \in LocalChanges
      /\ hnd[w].base \in States /\ hnd[w].change \in Changes
      /\ call[w].cand = Append(hnd[w].base, hnd[w].change)
  BY Roles DEF Locked, Base, TypeInv, HndType, HndStates, Role, SerialInv, Knows, SaveKnows
<1>2. ToSet(cur) = ToSet(hnd[w].base) \cup {hnd[w].change}
  BY <1>1, AppendFacts
<1>3. rt = LocalOf(hnd[w].base) \cup {hnd[w].change}
  BY DEF RuntimeOK, Activated
<1>4. rt' = LocalOf(cur)'
  BY <1>1, <1>2, <1>3 DEF LocalOf, Ends
<1>5. \A v \in Locals : ~Activated(v)'
  <2>1. \A v \in Daemon : v # w => hnd[v] = Idle
    BY <1>1, Holder DEF Locked
  <2> QED
    BY <1>1, <2>1, Roles, IdleTyped DEF Ends, Activated
<1> QED
  BY <1>4, <1>5 DEF RuntimeOK

(* Every step keeps the runtime on the state, or reports drift.            *)
LEMMA NextRuntime ==
  ASSUME Clis = {}, Locked, drift \/ RuntimeOK, [Next]_vars
  PROVE  drift' \/ RuntimeOK'
<1> SUFFICES ASSUME ~drift' PROVE RuntimeOK'
  OBVIOUS
<1>0. RuntimeOK /\ Base /\ SerialInv
  BY DriftStays DEF Locked
<1>1. CASE UNCHANGED vars
  BY <1>0, <1>1 DEF vars, RuntimeOK, Activated, LocalOf
<1>2. ASSUME NEW w \in Writers, SavingStep(w) PROVE RuntimeOK'
  <2>1. Saves(w) /\ w \in Daemon /\ w \in Handlers
    BY <1>0, <1>2, SaveShape, Roles DEF Base
  <2>2. hnd[w].pc = "saving" /\ SaveKnows(w) /\ Role(w) /\ hnd[w] \in HndStates
    BY <1>0, <2>1, IdleTyped DEF Base, MutexInv, Saves, SerialInv, Knows, TypeInv, HndType
  <2>3. UNCHANGED <<rt, hnd>>
    BY <2>1 DEF Saves
  <2>4. CASE w \in Locals
    BY <1>0, <2>2, <2>3, <2>4, RuntimeKept DEF Activated
  <2>5. CASE w \in Rpcs
    <3>1. /\ hnd[w].change \in Requests /\ hnd[w].change \notin LocalChanges
          /\ hnd[w].base \in States /\ hnd[w].change \in Changes
      BY <2>2, <2>5, ControllerAssumptions DEF Role, HndStates
    <3>2. ToSet(call[w].cand) = ToSet(hnd[w].base) \cup {hnd[w].change}
      BY <2>2, <3>1, AppendFacts DEF SaveKnows
    <3>3. LocalOf(cur)' = LocalOf(cur)
      <4>1. CASE cur' = cur
        BY <4>1 DEF LocalOf
      <4>2. CASE cur' = call[w].cand /\ call[w].pc = "rename"
        BY <2>2, <3>1, <3>2, <4>2 DEF LocalOf, SaveKnows, Pending
      <4> QED
        BY <2>1, <4>1, <4>2 DEF Saves
    <3> QED
      BY <1>0, <2>3, <3>3, RuntimeKept DEF Activated
  <2> QED
    BY <2>1, <2>4, <2>5 DEF Daemon
<1>3. ASSUME NEW w \in Locals, LocalStep(w) PROVE RuntimeOK'
  <2>0. /\ w \in Handlers /\ w \in Daemon /\ hnd[w] \in HndStates /\ Knows(w) /\ Role(w)
    BY <1>0, Roles DEF Base, TypeInv, HndType, SerialInv
  <2>1. CASE LocalBusy(w) \/ LocalConflict(w) \/ LocalApplyFails(w)
    <3>1. Ends({w}) /\ rt' = rt /\ hnd[w].pc \in {"flock", "apply"}
      BY <1>0, <2>1, LocalEnds DEF Base, LocalBusy, LocalConflict, LocalApplyFails, HndAt
    <3> QED
      BY <1>0, <2>0, <3>1, RuntimeKept, IdleTyped, Roles DEF Ends, Activated, LocalOf
  <2>2. CASE LocalSaved(w)
    <3>1. Ends({w}) /\ rt' = rt /\ hnd[w].pc = "saving" /\ call[w].pc = "ok"
      BY <1>0, <2>2, LocalEnds DEF Base, LocalSaved, HndAt, At
    <3>2. cur = call[w].cand
      BY <2>0, <3>1 DEF Knows, SaveKnows
    <3> QED
      BY <1>0, <3>1, <3>2, RuntimeSettled
  <2>3. CASE LocalSaveFailed(w) /\ cur # hnd[w].base
    <3>1. Ends({w}) /\ rt' = rt /\ hnd[w].pc = "saving"
      BY <1>0, <2>3, LocalEnds DEF Base, LocalSaveFailed, HndAt
    <3>2. cur = call[w].cand
      BY <2>3 DEF LocalSaveFailed
    <3> QED
      BY <1>0, <3>1, <3>2, RuntimeSettled
  <2>4. CASE LocalSaveFailed(w) /\ cur = hnd[w].base
    <3>1. PICK x \in HndStates :
            Moves(w, x, "rollback") /\ x.change = hnd[w].change /\ x.base = hnd[w].base
      BY <1>0, <2>4, RollbackMoves DEF Base
    <3>2. hnd[w].pc = "saving"
      BY <2>4 DEF LocalSaveFailed, HndAt
    <3>3. /\ rt' = rt /\ cur' = cur
          /\ \A v \in Locals : /\ Activated(v)' <=> Activated(v)
                               /\ hnd'[v].base = hnd[v].base /\ hnd'[v].change = hnd[v].change
      BY <3>1, <3>2, Roles DEF Moves, Turns, Activated
    <3> QED
      BY <1>0, <3>3, RuntimeKept DEF LocalOf
  <2>5. CASE LocalLoad(w)
    <3>1. PICK x \in HndStates :
            Moves(w, x, "apply") /\ x.change = hnd[w].change /\ x.base = cur
      BY <1>0, <2>5, LoadMoves DEF Base
    <3>2. hnd[w].pc = "flock"
      BY <2>5 DEF LocalLoad, HndAt
    <3>3. /\ rt' = rt /\ cur' = cur
          /\ \A v \in Locals : /\ Activated(v)' <=> Activated(v)
                               /\ Activated(v) => hnd'[v] = hnd[v]
      BY <3>1, <3>2, Roles DEF Moves, Turns, Activated
    <3> QED
      BY <1>0, <3>3, RuntimeKept DEF LocalOf
  <2>6. CASE LocalApply(w)
    <3>1. /\ Starts(w, Applying(w)) /\ Applying(w).base = hnd[w].base
          /\ Applying(w).change = hnd[w].change
      BY <1>0, <2>6, LocalStarts DEF Base
    <3>2. /\ hnd[w].pc = "apply" /\ hnd[w].base = cur /\ rt' = rt \cup {hnd[w].change}
      BY <2>0, <2>6 DEF LocalApply, HndAt, Knows
    <3>3. \A v \in Daemon : v # w => hnd[v] = Idle
      BY <1>0, <2>0, <3>2, Holder
    <3>4. \A v \in Locals : ~Activated(v)
      BY <3>2, <3>3, Roles, IdleTyped DEF Activated
    <3>5. rt = LocalOf(hnd[w].base)
      BY <1>0, <3>2, <3>4 DEF RuntimeOK
    <3>6. /\ hnd'[w].base = hnd[w].base /\ hnd'[w].change = hnd[w].change
          /\ hnd'[w].pc = "saving"
          /\ \A v \in Locals : v # w => hnd'[v] = Idle
      BY <3>1, <3>3, Roles DEF Starts, Turns
    <3> QED
      BY <3>2, <3>5, <3>6, IdleTyped DEF RuntimeOK, Activated, LocalOf
  <2>7. CASE LocalRollback(w)
    <3>1. /\ Ends({w}) /\ hnd[w].pc = "rollback" /\ rt' = rt \ {hnd[w].change}
      BY <1>0, <2>7, LocalEnds DEF Base, LocalRollback, HndAt
    <3>2. hnd[w].base = cur /\ hnd[w].change \notin ToSet(cur)
      BY <2>0, <3>1 DEF Knows
    <3>3. rt = LocalOf(cur) \cup {hnd[w].change}
      BY <1>0, <3>1, <3>2 DEF RuntimeOK, Activated
    <3>4. rt' = LocalOf(cur)'
      BY <3>1, <3>2, <3>3 DEF LocalOf, Ends
    <3>5. \A v \in Daemon : v # w => hnd[v] = Idle
      BY <1>0, <2>0, <3>1, Holder
    <3>6. \A v \in Locals : ~Activated(v)'
      BY <2>0, <3>1, <3>5, Roles, IdleTyped DEF Ends, Activated
    <3> QED
      BY <3>4, <3>6 DEF RuntimeOK
  <2> QED
    BY <1>3, <2>1, <2>2, <2>3, <2>4, <2>5, <2>6, <2>7 DEF LocalStep
<1>4. ASSUME NEW w \in Locals, NEW c \in LocalChanges, NEW g \in 0 .. Generation(cur),
             LocalLock(w, c, g)
      PROVE  RuntimeOK'
  <2>0. g \in Nat
    OBVIOUS
  <2>1. PICK x \in HndStates : Moves(w, x, "flock") /\ x.change = c /\ x.base = <<>>
    BY <1>0, <1>4, <2>0, LockMoves DEF Base
  <2>2. hnd[w].pc = "idle"
    BY <1>4 DEF LocalLock, HndAt
  <2>3. /\ rt' = rt /\ cur' = cur
        /\ \A v \in Locals : /\ Activated(v)' <=> Activated(v)
                             /\ Activated(v) => hnd'[v] = hnd[v]
    BY <2>1, <2>2, Roles DEF Moves, Turns, Activated
  <2> QED
    BY <1>0, <2>3, RuntimeKept DEF LocalOf
<1>5. ASSUME NEW r \in Requests, NEW g \in 1 .. Generation(cur), Issue(r, g) PROVE RuntimeOK'
  BY <1>0, <1>5 DEF Issue, storeVars, RuntimeOK, Activated, LocalOf
<1>6. ASSUME NEW w \in Rpcs, (\E r \in Requests : RpcServes(w, r)) \/ RpcSaved(w) \/ RpcAnswerLost(w)
      PROVE  RuntimeOK'
  <2>1. rt' = rt /\ cur' = cur
    BY <1>6 DEF RpcServes, RpcReplay, RpcReconcile, RpcAhead, RpcDispatch, RpcSaved,
       RpcAnswerLost, Answer, storeVars, files
  <2>2. \A v \in Locals : hnd'[v] = hnd[v]
    <3>1. CASE \E r \in Requests : RpcDispatch(w, r)
      BY <1>0, <3>1, RpcStarts, Roles DEF Base, Starts, Turns
    <3>2. CASE ~\E r \in Requests : RpcDispatch(w, r)
      <4>1. Ends({w})
        BY <1>0, <1>6, <3>2, RpcEnds DEF Base, RpcServes
      <4> QED
        BY <4>1, Roles DEF Ends
    <3> QED
      BY <3>1, <3>2
  <2> QED
    BY <1>0, <2>1, <2>2, RuntimeKept DEF Activated, LocalOf
<1>7. ASSUME NEW w \in Repairs, RepairLock(w) \/ RepairDone(w) \/ CliCrash(w) PROVE RuntimeOK'
  <2>1. rt' = rt /\ cur' = cur
    BY <1>7 DEF RepairLock, RepairDone, CliCrash, storeVars, files
  <2>2. \A v \in Locals : hnd'[v] = hnd[v]
    <3>1. CASE RepairLock(w)
      BY <1>0, <1>7, <3>1, RepairMoves, Roles DEF Base, Moves, Turns
    <3>2. CASE RepairDone(w) \/ CliCrash(w)
      <4>1. Ends({w})
        BY <1>0, <3>2, OtherEnds DEF Base
      <4> QED
        BY <4>1, Roles DEF Ends
    <3> QED
      BY <1>7, <3>1, <3>2
  <2> QED
    BY <1>0, <2>1, <2>2, RuntimeKept DEF Activated, LocalOf
<1>8. CASE DaemonCrash
  <2>1. Ends(Daemon) /\ ~LocalInFlight
    BY <1>0, <1>8, OtherEnds DEF Base, DaemonCrash
  <2>2. \A w \in Locals : ~HndAt(w, "apply") /\ ~Activated(w)
    BY <2>1 DEF LocalInFlight, HndAt, Activated
  <2>3. {hnd[w].change : w \in {v \in Locals : HndAt(v, "apply")}} = {}
    BY <2>2
  <2>4. rt' = rt
    BY <1>8, <2>3 DEF DaemonCrash
  <2>5. \A w \in Locals : ~Activated(w)'
    BY <2>1, Roles, IdleTyped DEF Ends, Activated
  <2>6. cur' = cur
    BY <2>1 DEF Ends
  <2> QED
    BY <1>0, <2>2, <2>4, <2>5, <2>6, RuntimeKept DEF LocalOf
<1>9. ~PowerLoss
  BY DEF PowerLoss
<1> QED
  BY <1>1, <1>2, <1>3, <1>4, <1>5, <1>6, <1>7, <1>8, <1>9 DEF Next

(* Whatever the save of a local mutation answers, the look at the file     *)
(* decides rightly between keeping the runtime and rolling it back: when   *)
(* none is in flight the runtime runs the local changes of the state,      *)
(* unless drift was reported.  Assumes that no client command writes       *)
(* beside the daemon.                                                      *)
THEOREM RuntimeFollowsState == Clis = {} => (Spec => []RuntimeSound)
<1> SUFFICES ASSUME Clis = {} PROVE Spec => []RuntimeSound
  OBVIOUS
<1> DEFINE Inv == Locked /\ (drift \/ RuntimeOK)
<1>1. Init => Inv
  <2> SUFFICES ASSUME Init PROVE RuntimeOK
    BY InitLocked
  <2>1. rt = {} /\ cur = <<Genesis>> /\ \A w \in Locals : hnd[w] = Idle
    BY Roles DEF Init, InitStore
  <2>2. LocalOf(cur) = {}
    BY <2>1, ControllerAssumptions DEF LocalOf, ToSet
  <2> QED
    BY <2>1, <2>2, IdleTyped DEF RuntimeOK, Activated
<1>2. Inv /\ [Next]_vars => Inv'
  <2> SUFFICES ASSUME Inv, [Next]_vars PROVE Inv'
    OBVIOUS
  <2>1. Locked'
    BY NextBase, NextLocked DEF Locked
  <2>2. drift' \/ RuntimeOK'
    BY NextRuntime
  <2> QED
    BY <2>1, <2>2
<1>3. Inv => RuntimeSound
  <2> SUFFICES ASSUME Inv PROVE RuntimeSound
    OBVIOUS
  <2>1. TypeOK
    BY StampedOnce DEF Locked
  <2>2. RuntimeMatchesState
    BY DEF RuntimeMatchesState, RuntimeOK, LocalInFlight, Activated, LocalOf
  <2> QED
    BY <2>1, <2>2 DEF RuntimeSound
<1> QED
  BY <1>1, <1>2, <1>3, PTL DEF Spec

-----------------------------------------------------------------------------
(* What a node was told stays true, as long as the power does not fail.    *)

(* The state only grows, by the change of the handler that saves.          *)
Grows(w) ==
  /\ w \in Daemon /\ hnd[w].pc = "saving" /\ Saves(w)
  /\ cur' = Append(cur, hnd[w].change) /\ cur' = call[w].cand

(* Without client commands and power losses nothing else changes it.       *)
LEMMA CurGrows ==
  ASSUME Clis = {}, Locked, "power" \notin FaultKinds, [Next]_vars
  PROVE  cur' = cur \/ \E w \in Daemon : Grows(w)
<1>1. ASSUME NEW w \in Writers, SavingStep(w) PROVE cur' = cur \/ \E v \in Daemon : Grows(v)
  <2>1. Saves(w) /\ w \in Daemon
    BY <1>1, SaveShape, Roles DEF Locked, Base
  <2>2. hnd[w].pc = "saving" /\ SaveKnows(w)
    BY <2>1, IdleTyped DEF Locked, Base, MutexInv, Saves, SerialInv, Knows
  <2>3. cur' # cur => cur' = call[w].cand /\ call[w].pc = "rename"
    BY <2>1 DEF Saves
  <2>4. cur' # cur => Grows(w)
    BY <2>1, <2>2, <2>3 DEF Grows, SaveKnows, Pending
  <2> QED
    BY <2>1, <2>4
<1>2. ASSUME NEW w \in Locals, LocalStep(w) PROVE cur' = cur
  BY <1>2 DEF LocalStep, LocalBusy, LocalConflict, LocalLoad, LocalApply, LocalApplyFails, LocalSaved,
     LocalRollback, LocalSaveFailed, storeVars, files
<1>3. ASSUME NEW w \in Rpcs, NEW r \in Requests, RpcServes(w, r) PROVE cur' = cur
  BY <1>3 DEF RpcServes, RpcReplay, RpcReconcile, RpcAhead, RpcDispatch, Answer, storeVars, files
<1>4. ~PowerLoss
  BY DEF PowerLoss, Fails
<1>5. CASE \/ \E w \in Locals, c \in LocalChanges, g \in 0 .. Generation(cur) : LocalLock(w, c, g)
           \/ \E w \in Rpcs : RpcSaved(w) \/ RpcAnswerLost(w)
           \/ \E w \in Repairs : RepairLock(w) \/ RepairDone(w)
           \/ \E w \in Clis \cup Repairs : CliCrash(w)
           \/ DaemonCrash
           \/ \E r \in Requests, g \in 1 .. Generation(cur) : Issue(r, g)
           \/ UNCHANGED vars
  BY <1>5 DEF LocalLock, RpcSaved, RpcAnswerLost, RepairLock, RepairDone, CliCrash, DaemonCrash,
     Issue, vars, storeVars, files
<1> QED
  BY <1>1, <1>2, <1>3, <1>4, <1>5 DEF Next

(* What growing does to the state.                                         *)
LEMMA GrownState ==
  ASSUME Locked, NEW w \in Daemon, Grows(w)
  PROVE  /\ ToSet(cur') = ToSet(cur) \cup {hnd[w].change}
         /\ Len(cur') = Len(cur) + 1 /\ Len(cur) \in Nat
         /\ hnd[w].change \in Requests => expect[hnd[w].change] = Len(cur)
<1>1. cur \in States /\ hnd[w].change \in Changes /\ w \in Writers
  BY Roles DEF Locked, Base, TypeInv, StoreType, HndType, HndStates
<1>a. cur' = Append(cur, hnd[w].change)
  BY DEF Grows
<1>2. /\ ToSet(cur') = ToSet(cur) \cup {hnd[w].change}
      /\ Len(cur') = Len(cur) + 1 /\ Len(cur) \in Nat
  <2>1. \A c \in Changes : /\ ToSet(Append(cur, c)) = ToSet(cur) \cup {c}
                           /\ Len(Append(cur, c)) = Len(cur) + 1
    BY <1>1, AppendFacts
  <2>2. Len(cur) \in Nat
    BY <1>1 DEF States
  <2> QED
    BY <1>1, <1>a, <2>1, <2>2
<1>3. Stamped(expect, cur')
  BY <1>1 DEF Locked, Base, StampInv, Grows
<1>4. DOMAIN cur' = 1 .. (Len(cur) + 1) /\ cur'[Len(cur) + 1] = hnd[w].change
  <2>1. \A c \in Changes : /\ DOMAIN Append(cur, c) = 1 .. (Len(cur) + 1)
                           /\ Append(cur, c)[Len(cur) + 1] = c
    BY <1>1 DEF States
  <2> QED
    BY <1>1, <1>a, <2>1
<1>5. hnd[w].change \in Requests => expect[hnd[w].change] = (Len(cur) + 1) - 1
  BY <1>2, <1>3, <1>4 DEF Stamped
<1> QED
  BY <1>2, <1>5

(* A record that is found is in the state.                                 *)
LEMMA FoundInState == \A r : MayFind(r) => r \in ToSet(cur)
BY DEF MayFind, Retained, ToSet

(* The answers that a goroutine gives.                                     *)
LEMMA AnswersTrue ==
  ASSUME Locked, AnswerInv, NEW w \in Rpcs,
         \/ \E r \in Requests : RpcReplay(w, r) \/ RpcReconcile(w, r) \/ RpcAhead(w, r)
         \/ RpcSaved(w) \/ RpcAnswerLost(w)
  PROVE  AnswerInv'
<1>0. /\ w \in Handlers /\ w \in Daemon /\ Knows(w) /\ hnd[w] \in HndStates /\ Base
      /\ cur \in States /\ Len(cur) \in Nat /\ expect \in [Requests -> Nat]
  BY Roles DEF Locked, Base, TypeInv, HndType, SerialInv, StoreType, RestType, States
<1>1. UNCHANGED <<cur, expect>>
  BY DEF RpcReplay, RpcReconcile, RpcAhead, RpcSaved, RpcAnswerLost, Answer, storeVars, files, node
<1>2. confirmed' \subseteq ToSet(cur)
  <2>1. HndAt(w, "saving") /\ At(w, "ok") => hnd[w].change \in ToSet(cur)
    <3> SUFFICES ASSUME HndAt(w, "saving"), At(w, "ok") PROVE hnd[w].change \in ToSet(cur)
      OBVIOUS
    <3>1. cur = Append(hnd[w].base, hnd[w].change)
      BY <1>0 DEF HndAt, At, Knows, SaveKnows
    <3> QED
      BY <1>0, <3>1, AppendFacts DEF HndStates
  <2> QED
    BY <2>1, FoundInState DEF RpcReplay, RpcReconcile, RpcAhead, RpcSaved, RpcAnswerLost, Answer,
       node, AnswerInv
<1>3. \A r \in refused' : expect[r] > 0 /\ expect[r] < Len(cur)
  <2>1. ASSUME NEW r \in Requests, RpcReconcile(w, r)
        PROVE  \A q \in refused' : expect[q] > 0 /\ expect[q] < Len(cur)
    BY <2>1 DEF RpcReconcile, Answer, Serve, Generation, AnswerInv
  <2>2. ASSUME NEW r \in Requests PROVE ~RpcAhead(w, r)
    BY <1>0 DEF RpcAhead, Generation, AnswerInv
  <2>3. RpcSaved(w) => refused' = refused
    BY <1>0 DEF RpcSaved, HndAt, At, Knows, SaveKnows
  <2>4. (\E r \in Requests : RpcReplay(w, r)) \/ RpcAnswerLost(w) => refused' = refused
    BY DEF RpcReplay, RpcAnswerLost, Answer, node
  <2> QED
    BY <2>1, <2>2, <2>3, <2>4 DEF AnswerInv
<1> QED
  BY <1>1, <1>2, <1>3 DEF AnswerInv

(* Every step keeps the answers true.                                      *)
LEMMA NextAnswers ==
  ASSUME Clis = {}, "power" \notin FaultKinds, Locked, AnswerInv, [Next]_vars
  PROVE  AnswerInv'
<1>0. expect \in [Requests -> Nat] /\ Len(cur) \in Nat /\ refused \subseteq Requests
  BY DEF Locked, Base, TypeInv, RestType, StoreType, States
<1>1. CASE UNCHANGED <<expect, confirmed, refused>>
  <2>1. CASE cur' = cur
    BY <1>1, <2>1 DEF AnswerInv
  <2>2. ASSUME NEW w \in Daemon, Grows(w) PROVE AnswerInv'
    <3>1. ToSet(cur) \subseteq ToSet(cur') /\ Len(cur') = Len(cur) + 1
      BY <2>2, GrownState
    <3>2. \A r \in Requests : expect[r] <= Len(cur')
      BY <1>0, <3>1 DEF AnswerInv
    <3>3. \A r \in refused : expect[r] > 0 /\ expect[r] < Len(cur')
      BY <1>0, <3>1 DEF AnswerInv
    <3> QED
      BY <1>1, <3>1, <3>2, <3>3 DEF AnswerInv
  <2> QED
    BY <2>1, <2>2, CurGrows
<1>2. ASSUME NEW w \in Rpcs,
             \/ \E r \in Requests : RpcReplay(w, r) \/ RpcReconcile(w, r) \/ RpcAhead(w, r)
             \/ RpcSaved(w) \/ RpcAnswerLost(w)
      PROVE  AnswerInv'
  BY <1>2, AnswersTrue
<1>3. ASSUME NEW r \in Requests, NEW g \in 1 .. Generation(cur), Issue(r, g) PROVE AnswerInv'
  <2>1. /\ UNCHANGED <<cur, confirmed, refused>> /\ expect[r] = 0
        /\ expect' = [expect EXCEPT ![r] = g] /\ g <= Len(cur)
    BY <1>3 DEF Issue, storeVars, Generation
  <2>2. \A q \in Requests : expect'[q] <= Len(cur)
    BY <1>0, <2>1 DEF AnswerInv
  <2>3. \A q \in refused : expect'[q] = expect[q]
    BY <1>0, <2>1 DEF AnswerInv
  <2> QED
    BY <2>1, <2>2, <2>3 DEF AnswerInv
<1>4. CASE \/ \E w \in Locals, c \in LocalChanges, g \in 0 .. Generation(cur) : LocalLock(w, c, g)
           \/ \E w \in Rpcs, r \in Requests : RpcDispatch(w, r)
           \/ \E w \in Repairs : RepairLock(w) \/ RepairDone(w)
           \/ \E w \in Clis \cup Repairs : CliCrash(w)
           \/ \E w \in Writers : SavingStep(w)
           \/ DaemonCrash \/ PowerLoss
           \/ UNCHANGED vars
  BY <1>1, <1>4 DEF LocalLock, RpcDispatch, RepairLock, RepairDone, CliCrash, DaemonCrash, PowerLoss,
     SavingStep, vars, node
<1>5. ASSUME NEW w \in Locals, LocalStep(w) PROVE AnswerInv'
  BY <1>1, <1>5 DEF LocalStep, LocalBusy, LocalConflict, LocalLoad, LocalApply, LocalApplyFails,
     LocalSaved, LocalRollback, LocalSaveFailed, node
<1> QED
  BY <1>2, <1>3, <1>4, <1>5 DEF Next, RpcServes

(* Nobody was told anything at the start.                                  *)
LEMMA InitAnswers == Init => AnswerInv
<1> SUFFICES ASSUME Init PROVE AnswerInv
  OBVIOUS
<1>1. cur = <<Genesis>> /\ Len(<<Genesis>>) = 1
  BY DEF Init, InitStore
<1> QED
  BY <1>1 DEF Init, AnswerInv

(* What a node has been told is done is in the state and stays there,      *)
(* whether the answer came from the save, from a retained record or from   *)
(* the reconciliation of an evicted one.  A power loss is excluded: a save *)
(* that failed in its last sync is confirmed on the retry (section 4 of    *)
(* the README), and no client command may overwrite the state.             *)
THEOREM ConfirmedForGood ==
  Clis = {} /\ "power" \notin FaultKinds => (Spec => []ConfirmedStays)
<1> SUFFICES ASSUME Clis = {}, "power" \notin FaultKinds PROVE Spec => []ConfirmedStays
  OBVIOUS
<1>1. Locked /\ AnswerInv /\ [Next]_vars => Locked' /\ AnswerInv'
  BY NextBase, NextLocked, NextAnswers DEF Locked
<1>2. AnswerInv => ConfirmedStays
  BY DEF AnswerInv, ConfirmedStays
<1> QED
  BY <1>1, <1>2, InitLocked, InitAnswers, PTL DEF Spec

(* A request whose node was told of a conflict is never applied later, by  *)
(* whatever duplicate: the generation it expects is in the past, and stays *)
(* there.                                                                  *)
THEOREM RefusedForGood ==
  Clis = {} /\ "power" \notin FaultKinds => (Spec => RefusedStaysOut)
<1> SUFFICES ASSUME Clis = {}, "power" \notin FaultKinds PROVE Spec => RefusedStaysOut
  OBVIOUS
<1>1. Locked /\ AnswerInv /\ [Next]_vars => Locked' /\ AnswerInv'
  BY NextBase, NextLocked, NextAnswers DEF Locked
<1>2. Locked /\ AnswerInv /\ [Next]_vars =>
        [\A r \in refused : r \in ToSet(cur') => r \in ToSet(cur)]_vars
  <2> SUFFICES ASSUME Locked, AnswerInv, [Next]_vars, NEW r \in refused, r \in ToSet(cur')
               PROVE  r \in ToSet(cur)
    OBVIOUS
  <2>1. CASE cur' = cur
    BY <2>1
  <2>2. ASSUME NEW w \in Daemon, Grows(w) PROVE r \in ToSet(cur)
    <3>1. /\ r \in ToSet(cur) \/ r = hnd[w].change
          /\ hnd[w].change \in Requests => expect[hnd[w].change] = Len(cur)
          /\ Len(cur) \in Nat
      BY <2>2, GrownState
    <3>2. r \in Requests /\ expect[r] < Len(cur)
      BY DEF AnswerInv, Locked, Base, TypeInv, RestType
    <3> QED
      BY <3>1, <3>2
  <2> QED
    BY <2>1, <2>2, CurGrows
<1> QED
  BY <1>1, <1>2, InitLocked, InitAnswers, PTL DEF Spec, RefusedStaysOut

-----------------------------------------------------------------------------
(* The credentials of the clients, beside one client command.              *)

(* A handler that is idle, or only waits, holds no state.                  *)
LEMMA NothingHeld ==
  /\ ClientsOf(<<>>) = {}
  /\ \A w : hnd[w].base = <<>> /\ call[w] = NoCall => Held(w) = {}
BY IdleTyped DEF ClientsOf, Held, ToSet

(* A candidate has the clients of its base, and the one that is added.     *)
LEMMA CandidateClients ==
  ASSUME NEW s \in States, NEW c \in Changes
  PROVE  /\ ToSet(Append(s, c)) = ToSet(s) \cup {c}
         /\ ClientsOf(s) \subseteq ClientsOf(Append(s, c))
         /\ ClientsOf(Append(s, c)) \subseteq ClientsOf(s) \cup {c}
         /\ c \notin CliChanges => ClientsOf(Append(s, c)) = ClientsOf(s)
<1>1. ToSet(Append(s, c)) = ToSet(s) \cup {c}
  BY AppendFacts
<1> QED
  BY <1>1 DEF ClientsOf

(* A writer that goes on as it was, or that holds no more than it held or  *)
(* than is current.                                                        *)
Keeps(w) ==
  /\ Writing(w)' /\ Held(w)' \subseteq Held(w) \cup ClientsOf(cur)
  /\ w \in Clis => hnd'[w] = hnd[w] \/ hnd'[w].pc # "saving"

(* If every writer goes on like that, the clients keep their credentials.  *)
LEMMA ClientsKept ==
  ASSUME ClientInv, UNCHANGED <<cur, secrets>>, \A w \in Writers : Keeps(w)
  PROVE  ClientInv'
<1>1. ClientsOf(cur)' = ClientsOf(cur) /\ ToSet(cur)' = ToSet(cur)
  OBVIOUS
<1>2. ASSUME NEW w \in Writers PROVE Writing(w)' /\ Held(w)' \subseteq secrets'
  BY <1>2 DEF ClientInv, Keeps
<1>3. ASSUME NEW v \in Clis, hnd'[v].pc = "saving", NEW w \in Daemon, hnd'[v].change \in Held(w)'
      PROVE  hnd'[v].change \in ToSet(cur)
  <2>1. hnd'[v] = hnd[v] /\ v \in Writers /\ w \in Writers
    BY <1>3, Roles DEF Keeps
  <2>2. hnd[v].change \in Held(w) \cup ClientsOf(cur)
    BY <1>3, <2>1 DEF Keeps
  <2> QED
    BY <1>3, <2>1, <2>2 DEF ClientInv, ClientsOf
<1> QED
  BY <1>1, <1>2, <1>3 DEF ClientInv

(* A handler ends.                                                         *)
LEMMA EndsClients ==
  ASSUME ClientInv, NEW ws, Ends(ws), UNCHANGED secrets
  PROVE  ClientInv'
<1>1. ASSUME NEW w \in Writers PROVE Keeps(w)
  <2>1. w \in Handlers /\ Writing(w)
    BY Roles DEF ClientInv
  <2>2. CASE w \in ws
    <3>1. hnd'[w] = Idle /\ call'[w] = NoCall
      BY <2>2 DEF Ends
    <3>2. Held(w)' = {}
      BY <3>1, IdleTyped, NothingHeld DEF Held
    <3> QED
      BY <3>1, <3>2, IdleTyped DEF Keeps, Writing
  <2>3. CASE w \notin ws
    <3>1. hnd'[w] = hnd[w] /\ call'[w] = call[w]
      BY <2>1, <2>3 DEF Ends
    <3> QED
      BY <2>1, <3>1 DEF Keeps, Writing, Held
  <2> QED
    BY <2>2, <2>3
<1>2. UNCHANGED cur
  BY DEF Ends
<1> QED
  BY <1>1, <1>2, ClientsKept

(* A handler of the daemon, or a repair, goes on with a state that it held *)
(* or that is current.                                                     *)
LEMMA TurnsClients ==
  ASSUME Base, ClientInv, NEW w \in Handlers \ Clis, NEW x \in HndStates, Turns(w, x),
         UNCHANGED <<cur, secrets>>, x.base = <<>> \/ x.base = cur \/ x.base = hnd[w].base,
         w \in Writers =>
           \/ x.pc # "saving" /\ Rings(w, NoCall)
           \/ x.pc = "saving" /\ x.change \notin CliChanges /\ Rings(w, Asked(x)),
         w \notin Writers => UNCHANGED call
  PROVE  ClientInv'
<1>1. ASSUME NEW v \in Writers, v # w PROVE Keeps(v)
  <2>1. hnd'[v] = hnd[v] /\ call'[v] = call[v] /\ Writing(v)
    BY <1>1, Roles DEF Turns, Rings, ClientInv
  <2> QED
    BY <2>1 DEF Keeps, Writing, Held
<1>2. ASSUME w \in Writers PROVE Keeps(w)
  <2>1. hnd'[w] = x
    BY DEF Turns
  <2>2. ClientsOf(x.base) \subseteq Held(w) \cup ClientsOf(cur)
    BY NothingHeld DEF Held
  <2>3. CASE x.pc # "saving" /\ Rings(w, NoCall)
    <3>1. call'[w] = NoCall /\ Held(w)' = ClientsOf(x.base)
      BY <2>1, <2>3, IdleTyped, NothingHeld DEF Rings, Held
    <3> QED
      BY <2>1, <2>2, <2>3, <3>1 DEF Keeps, Writing
  <2>4. CASE x.pc = "saving" /\ x.change \notin CliChanges /\ Rings(w, Asked(x))
    <3>1. call'[w].cand = Append(x.base, x.change)
      BY <2>4 DEF Rings, Asked
    <3>2. ClientsOf(Append(x.base, x.change)) = ClientsOf(x.base)
      BY <2>4, CandidateClients DEF HndStates
    <3>3. Held(w)' = ClientsOf(x.base)
      BY <2>1, <3>1, <3>2 DEF Held
    <3> QED
      BY <2>1, <2>2, <2>4, <3>1, <3>3 DEF Keeps, Writing
  <2> QED
    BY <1>2, <2>3, <2>4
<1> QED
  BY <1>1, <1>2, ClientsKept

(* A step of Save: the state that becomes current has the clients that its *)
(* writer held, and nobody else of the daemon holds one.                   *)
LEMMA SavesClients ==
  ASSUME Base, ClientInv, NEW w \in Writers, Saves(w), \A u, v \in Clis : u = v
  PROVE  ClientInv'
<1>1. hnd[w].pc = "saving" /\ w \in Handlers
  BY Roles, IdleTyped DEF Saves, ClientInv, Writing
<1>2. /\ call[w].cand = Append(hnd[w].base, hnd[w].change)
      /\ hnd[w].base \in States /\ hnd[w].change \in Changes
  BY <1>1 DEF ClientInv, Writing, Base, TypeInv, HndType, HndStates
<1>3. ASSUME NEW v \in Writers
      PROVE  /\ hnd'[v] = hnd[v] /\ call'[v].cand = call[v].cand
             /\ Writing(v)' /\ Held(v)' = Held(v)
  <2>1. hnd'[v] = hnd[v] /\ call'[v].cand = call[v].cand
    BY DEF Saves
  <2>2. v = w \/ call'[v] = call[v]
    BY DEF Saves
  <2>3. Writing(v)
    BY DEF ClientInv
  <2> QED
    BY <1>1, <2>1, <2>2, <2>3 DEF Writing, Held
<1>4. UNCHANGED secrets
  BY DEF Saves
<1>5. CASE cur' = cur
  <2>1. \A v \in Writers : Keeps(v)
    BY <1>3, Roles DEF Keeps
  <2> QED
    BY <1>4, <1>5, <2>1, ClientsKept
<1>6. CASE cur' = call[w].cand
  <2>1. /\ ToSet(cur') = ToSet(hnd[w].base) \cup {hnd[w].change}
        /\ ClientsOf(cur') = Held(w)
    BY <1>2, <1>6, CandidateClients DEF Held
  <2>2. ClientsOf(cur)' \subseteq secrets'
    BY <1>4, <2>1 DEF ClientInv
  <2>3. ASSUME NEW v \in Clis, hnd'[v].pc = "saving", NEW u \in Daemon, hnd'[v].change \in Held(u)'
        PROVE  hnd'[v].change \in ToSet(cur')
    <3>1. /\ hnd[v].pc = "saving" /\ hnd'[v].change = hnd[v].change /\ hnd[v].change \in Held(u)
          /\ v \in Writers /\ u \in Writers
      BY <1>3, <2>3, Roles
    <3>2. CASE w \in Clis
      BY <2>1, <3>1, <3>2
    <3>3. CASE w \in Daemon
      <4>1. u # w => hnd[u] = Idle /\ call[u] = NoCall
        BY <1>1, <3>3, Holder
      <4>2. u = w
        BY <3>1, <4>1, IdleTyped, NothingHeld
      <4> QED
        BY <2>1, <3>1, <4>2 DEF ClientsOf
    <3> QED
      BY <3>2, <3>3, Roles
  <2>4. \A v \in Writers : Writing(v)' /\ Held(v)' \subseteq secrets'
    BY <1>3, <1>4 DEF ClientInv
  <2> QED
    BY <2>2, <2>3, <2>4 DEF ClientInv
<1> QED
  BY <1>5, <1>6 DEF Saves

(* `client add` stages credentials that no state anybody holds needs.      *)
LEMMA AddsClient ==
  ASSUME Base, ClientInv, NEW w \in Clis, NEW c \in CliChanges, CliLoad(w, c),
         \A u, v \in Clis : u = v
  PROVE  ClientInv'
<1> DEFINE x == Adding(c)
<1>1. Starts(w, x) /\ x.base = cur /\ x.change = c
  BY CliStarts DEF Base
<1>2. /\ c \notin secrets /\ secrets' = secrets \cup {c} /\ UNCHANGED cur
      /\ cur \in States /\ c \in Changes /\ w \in Writers /\ w \notin Daemon
  BY Roles, ControllerAssumptions DEF CliLoad, files, Base, TypeInv, StoreType
<1> HIDE DEF x
<1>3. hnd'[w] = x /\ x.pc = "saving" /\ call'[w].cand = Append(cur, c)
  BY <1>1 DEF Starts, Turns, Rings, Asked
<1>4. ClientsOf(Append(cur, c)) \subseteq ClientsOf(cur) \cup {c}
  BY <1>2, CandidateClients
<1>5. Writing(w)' /\ Held(w)' \subseteq secrets'
  BY <1>1, <1>2, <1>3, <1>4 DEF Writing, Held, ClientInv
<1>6. ASSUME NEW v \in Writers, v # w
      PROVE  Writing(v)' /\ Held(v)' \subseteq secrets /\ Held(v)' = Held(v)
  <2>1. hnd'[v] = hnd[v] /\ call'[v] = call[v] /\ Writing(v) /\ Held(v) \subseteq secrets
    BY <1>1, <1>6, Roles DEF Starts, Turns, Rings, ClientInv
  <2> QED
    BY <2>1 DEF Writing, Held
<1>7. \A v \in Writers : Writing(v)' /\ Held(v)' \subseteq secrets'
  BY <1>2, <1>5, <1>6
<1>8. ASSUME NEW v \in Clis, NEW u \in Daemon, hnd'[v].change \in Held(u)' PROVE FALSE
  <2>1. hnd'[v].change = c /\ u # w /\ u \in Writers
    BY <1>1, <1>2, <1>3, Roles
  <2> QED
    BY <1>2, <1>6, <1>8, <2>1
<1>9. ClientsOf(cur)' \subseteq secrets'
  BY <1>2 DEF ClientInv
<1> QED
  BY <1>7, <1>8, <1>9 DEF ClientInv

(* `client add` removes the credentials only of a client that is in no     *)
(* state which may still become current.                                   *)
LEMMA DropsClient ==
  ASSUME Base, ClientInv, NEW w \in Clis, CliSaved(w), \A u, v \in Clis : u = v
  PROVE  ClientInv'
<1>0. w \in Writers /\ w \in Handlers /\ w \notin Daemon /\ hnd[w].pc = "saving"
  BY Roles DEF CliSaved, HndAt
<1>1. Ends({w})
  BY OtherEnds DEF Base
<1>2. CASE UNCHANGED secrets
  BY <1>1, <1>2, EndsClients
<1>3. CASE secrets' = secrets \ {hnd[w].change} /\ hnd[w].change \notin ToSet(cur)
  <2>1. UNCHANGED cur /\ hnd'[w] = Idle /\ call'[w] = NoCall
    BY <1>0, <1>1 DEF Ends
  <2>2. Writing(w)' /\ Held(w)' = {}
    BY <2>1, IdleTyped, NothingHeld DEF Writing, Held
  <2>3. ASSUME NEW v \in Writers, v # w PROVE Writing(v)' /\ Held(v)' \subseteq secrets'
    <3>1. hnd'[v] = hnd[v] /\ call'[v] = call[v] /\ v \in Daemon
      BY <1>1, <2>3, Roles DEF Ends
    <3>2. hnd[w].change \notin Held(v) /\ Held(v) \subseteq secrets /\ Writing(v)
      BY <1>0, <1>3, <3>1 DEF ClientInv
    <3> QED
      BY <1>3, <3>1, <3>2 DEF Writing, Held
  <2>4. ClientsOf(cur)' \subseteq secrets'
    BY <1>3, <2>1 DEF ClientInv, ClientsOf
  <2>5. \A v \in Clis : hnd'[v].pc # "saving"
    BY <2>1, IdleTyped
  <2> QED
    BY <2>2, <2>3, <2>4, <2>5 DEF ClientInv
<1> QED
  BY <1>2, <1>3 DEF CliSaved

(* Every step but a power loss leaves the clients their credentials.       *)
LEMMA NextClients ==
  ASSUME Base, ClientInv, [Next]_vars, \A u, v \in Clis : u = v, "power" \notin FaultKinds
  PROVE  ClientInv'
<1>0. TypeInv /\ MutexInv
  BY DEF Base
<1>1. CASE UNCHANGED vars
  BY <1>1 DEF vars, ClientInv, Writing, Held
<1>2. ASSUME NEW w \in Writers, SavingStep(w) PROVE ClientInv'
  BY <1>0, <1>2, SaveShape, SavesClients
<1>3. ASSUME NEW w \in Locals, LocalStep(w) PROVE ClientInv'
  <2>0. /\ w \in Handlers \ Clis /\ w \in Writers /\ w \in Daemon /\ hnd[w] \in HndStates
        /\ UNCHANGED secrets
    BY <1>0, <1>3, Roles DEF TypeInv, HndType, LocalStep, LocalBusy, LocalConflict, LocalLoad,
       LocalApply, LocalApplyFails, LocalSaved, LocalRollback, LocalSaveFailed
  <2>1. CASE \/ LocalBusy(w) \/ LocalConflict(w) \/ LocalApplyFails(w) \/ LocalSaved(w)
             \/ LocalRollback(w) \/ (LocalSaveFailed(w) /\ cur # hnd[w].base)
    BY <1>0, <2>0, <2>1, LocalEnds, EndsClients
  <2>2. CASE LocalSaveFailed(w) /\ cur = hnd[w].base
    <3>1. PICK x \in HndStates :
            Moves(w, x, "rollback") /\ x.change = hnd[w].change /\ x.base = hnd[w].base
      BY <1>0, <2>2, RollbackMoves
    <3>2. Rings(w, NoCall)
      BY <1>0, <2>2, RollbackMoves
    <3> QED
      BY <2>0, <3>1, <3>2, TurnsClients DEF Moves
  <2>3. CASE LocalLoad(w)
    <3>1. PICK x \in HndStates :
            Moves(w, x, "apply") /\ x.change = hnd[w].change /\ x.base = cur
      BY <1>0, <2>3, LoadMoves
    <3>2. Rings(w, NoCall)
      BY <1>0, <2>0, <2>3 DEF LocalLoad, HndAt, storeVars, MutexInv, Rings, TypeInv, StoreType
    <3> QED
      BY <2>0, <3>1, <3>2, TurnsClients DEF Moves
  <2>4. CASE LocalApply(w)
    <3> DEFINE x == Applying(w)
    <3>1. Starts(w, x) /\ x.base = hnd[w].base /\ x.change = hnd[w].change
      BY <1>0, <2>4, LocalStarts
    <3>2. x \in HndStates
      BY <2>0, <3>1 DEF Starts, Turns
    <3>3. hnd[w].change \in LocalChanges
      BY <1>0, <2>0, <2>4 DEF LocalApply, HndAt, TypeInv, Role
    <3>4. hnd[w].change \notin CliChanges
      BY <3>3, ControllerAssumptions
    <3> HIDE DEF x
    <3> QED
      BY <2>0, <3>1, <3>2, <3>4, TurnsClients DEF Starts
  <2> QED
    BY <1>3, <2>1, <2>2, <2>3, <2>4 DEF LocalStep
<1>4. ASSUME NEW w \in Locals, NEW c \in LocalChanges, NEW g \in 0 .. Generation(cur), LocalLock(w, c, g)
      PROVE  ClientInv'
  <2>0. w \in Handlers \ Clis /\ w \in Writers /\ w \in Daemon
    BY Roles
  <2>1. g \in Nat
    BY <1>0 DEF Generation, TypeInv, StoreType, States
  <2>2. PICK x \in HndStates : Moves(w, x, "flock") /\ x.change = c /\ x.base = <<>>
    BY <1>0, <1>4, <2>1, LockMoves
  <2>3. Rings(w, NoCall)
    BY <1>0, <1>4, <2>0 DEF LocalLock, HndAt, storeVars, MutexInv, Rings, TypeInv, StoreType
  <2> QED
    BY <2>0, <2>2, <2>3, TurnsClients DEF Moves
<1>5. ASSUME NEW w \in Rpcs,
             \/ \E r \in Requests : RpcReplay(w, r) \/ RpcReconcile(w, r) \/ RpcAhead(w, r)
             \/ RpcSaved(w) \/ RpcAnswerLost(w)
      PROVE  ClientInv'
  <2>1. UNCHANGED secrets
    BY <1>5 DEF RpcReplay, RpcReconcile, RpcAhead, RpcSaved, RpcAnswerLost, Answer
  <2> QED
    BY <1>0, <1>5, <2>1, RpcEnds, EndsClients
<1>6. ASSUME NEW w \in Rpcs, NEW r \in Requests, RpcDispatch(w, r) PROVE ClientInv'
  <2> DEFINE x == Serving(r, cur)
  <2>0. w \in Handlers \ Clis /\ w \in Writers /\ UNCHANGED secrets /\ r \notin CliChanges
    BY <1>6, Roles, ControllerAssumptions DEF RpcDispatch
  <2>1. Starts(w, x) /\ x.base = cur /\ x.change = r
    BY <1>0, <1>6, RpcStarts
  <2>2. x \in HndStates
    BY <2>0, <2>1 DEF Starts, Turns
  <2> HIDE DEF x
  <2> QED
    BY <2>0, <2>1, <2>2, TurnsClients DEF Starts
<1>7. ASSUME NEW w \in Repairs, RepairLock(w) PROVE ClientInv'
  <2>0. w \in Handlers \ Clis /\ w \notin Writers /\ UNCHANGED call
    BY <1>7, Roles DEF RepairLock, storeVars
  <2>1. PICK x \in HndStates : Moves(w, x, "repair") /\ x.base = cur
    BY <1>0, <1>7, RepairMoves
  <2> QED
    BY <2>0, <2>1, TurnsClients DEF Moves
<1>8. ASSUME DaemonCrash \/ (\E w \in Clis \cup Repairs : CliCrash(w)) \/ \E w \in Repairs : RepairDone(w)
      PROVE  ClientInv'
  <2>1. UNCHANGED secrets
    BY <1>8 DEF DaemonCrash, CliCrash, RepairDone
  <2> QED
    BY <1>0, <1>8, <2>1, OtherEnds, EndsClients
<1>9. ASSUME NEW r \in Requests, NEW g \in 1 .. Generation(cur), Issue(r, g) PROVE ClientInv'
  BY <1>9 DEF Issue, storeVars, ClientInv, Writing, Held
<1>10. ~PowerLoss
  BY DEF PowerLoss, Fails
<1> QED
  BY <1>1, <1>2, <1>3, <1>4, <1>5, <1>6, <1>7, <1>8, <1>9, <1>10, AddsClient, DropsClient
     DEF Next, RpcServes

(* No client is on record at the start.                                    *)
LEMMA InitClients == Init => ClientInv
<1> SUFFICES ASSUME Init PROVE ClientInv
  OBVIOUS
<1>1. /\ cur = <<Genesis>> /\ hnd = [w \in Handlers |-> Idle]
      /\ call = [w \in Writers |-> NoCall]
  BY DEF Init, InitStore
<1>2. ClientsOf(cur) = {}
  BY <1>1, ControllerAssumptions DEF ClientsOf, ToSet
<1>3. \A w \in Writers : hnd[w] = Idle /\ call[w] = NoCall
  BY <1>1, Roles
<1>4. \A w \in Writers : Writing(w) /\ Held(w) = {}
  BY <1>3, IdleTyped, NothingHeld DEF Writing
<1> QED
  BY <1>2, <1>3, <1>4, Roles, IdleTyped DEF ClientInv

(* The effect of a request is in the state once and every client on record *)
(* has its credentials, whatever the save of `client add` answered and     *)
(* however its failure interleaves with the daemon's saves.  Two client    *)
(* commands at a time, or a power loss after the command looked its change *)
(* up, are excluded: with them it does not hold (section 4 of the README). *)
THEOREM ClientsKeepCredentials ==
  (\A u, v \in Clis : u = v) /\ "power" \notin FaultKinds => (Spec => []CrashSound)
<1> SUFFICES ASSUME \A u, v \in Clis : u = v, "power" \notin FaultKinds
             PROVE  Spec => []CrashSound
  OBVIOUS
<1>1. Base /\ ClientInv /\ [Next]_vars => Base' /\ ClientInv'
  BY NextBase, NextClients
<1>2. Base /\ ClientInv => CrashSound
  BY StampedOnce DEF ClientInv, ClientsOf, CrashSound, ClientHasCredentials
<1> QED
  BY <1>1, <1>2, InitBase, InitClients, PTL DEF Spec

=============================================================================
