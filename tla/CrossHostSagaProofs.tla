------------------------ MODULE CrossHostSagaProofs ------------------------
(***************************************************************************)
(* Whatever the number of coordinators, operations, lost answers, crashes  *)
(* and clock steps: stored records are valid and true of the hosts, the    *)
(* hosts never run ahead of them, a drain deadline never moves, and the    *)
(* coordinators implement the abstract operation.                          *)
(***************************************************************************)
EXTENDS CrossHostSaga, TLAPS

(* What permits the record r of operation s to move to its next phase.     *)
Evidence(s, r) ==
  \/ r.phase = Validate
  \/ r.phase \in effects[s]
  \/ r.phase = Drain /\ latest >= r.deadline

(* The record n that is about to be written over r: the same phase with an *)
(* error, or the next one on evidence.                                     *)
StaysAt(r, n) ==
  /\ n.phase = r.phase
  /\ n.deadline = r.deadline /\ n.pubAt = r.pubAt
  /\ n.state = "failed" => r.phase = Validate

MovesOn(s, r, n) ==
  /\ n.phase = r.phase + 1 /\ n.state # "failed"
  /\ Evidence(s, r)
  /\ r.phase = PublishPublic => n.pubAt = effAt[s]
  /\ r.phase # PublishPublic => n.deadline = r.deadline /\ n.pubAt = r.pubAt

Successor(s, r, n) ==
  /\ ValidRecord(n) /\ n.rev = r.rev + 1
  /\ StaysAt(r, n) \/ MovesOn(s, r, n)

(* A copy of a record is current or older than what is stored.             *)
CopyOf(s, r) ==
  /\ r.rev > 0 /\ r.rev <= rec[s].rev
  /\ r.phase <= rec[s].phase
  /\ r.rev = rec[s].rev => r = rec[s]

(* What holds of a process x wherever it is.                               *)
Creating(x) == x.pc = "create"
Resuming(x) == x.pc \in {"loop", "execute", "await", "save"}
Working(x)  == x.pc \in {"execute", "await", "save"}

ProcSound(x) ==
  /\ x.pc # "idle" => x.sid \in Sagas
  /\ Creating(x) => \E t \in 1 .. MaxTime : x.next = InitialRecord(t)
  /\ Resuming(x) => CopyOf(x.sid, x.mine)
  /\ Working(x) =>
       ValidRecord(x.mine) /\ ~Finished(x.mine) /\ x.steps < MaxResumeSteps
  /\ x.pc \in {"execute", "await"} => x.mine.phase \in SideEffects
  /\ x.pc = "save" => Successor(x.sid, x.mine, x.next)

(* What holds of the stored record of an operation.                        *)
RecInv(s) ==
  /\ ~Stored(s) => rec[s] = NoRecord
  /\ Stored(s) => ValidRecord(rec[s])
  /\ Stored(s) => \A ph \in Behind(s) :
       ph \in effects[s] \/ (ph = Drain /\ latest >= rec[s].deadline)
  /\ rec[s].phase >= Drain => rec[s].pubAt = effAt[s]
  /\ rec[s].state = "failed" => rec[s].phase = Validate
  /\ \A ph \in effects[s] \cup inflight[s] : Stored(s) /\ ph <= rec[s].phase

IInv ==
  /\ TypeOK /\ latest >= clock
  /\ \A s \in Sagas : RecInv(s)
  /\ \A p \in Procs : ProcSound(proc[p])

-----------------------------------------------------------------------------
(* Records: what the operators of the record return                        *)

USE SagaAssumptions
USE DEF Validate, Stage, ActivatePrivate, ConfirmPrivate, PublishPublic, Drain,
        Finalize, Complete, Phases, SideEffects, Desired, MaxResumeSteps

Receipts ==
  [phase : Phases, gen : [Hosts -> 0 .. Desired], priv : BOOLEAN,
   pub : BOOLEAN, drained : BOOLEAN, at : Times]

(* An unfinished valid record has a phase left to go to.                   *)
LEMMA UnfinishedPhase ==
  ASSUME NEW r \in Records, ValidRecord(r), ~Finished(r)
  PROVE  r.phase \in 1 .. 7
BY DEF Records, ValidRecord, Finished, States, phaseBeforePublic

(* The record that advance() writes.                                       *)
LEMMA AdvanceFields ==
  ASSUME NEW r \in Records, NEW rc \in Receipts, NEW now \in 1 .. MaxTime,
         r.phase \in 1 .. 7, CanAdvance(r, rc, now)
  PROVE  /\ AdvanceFrom(r, rc, now) \in Records
         /\ AdvanceFrom(r, rc, now).rev = r.rev + 1
         /\ AdvanceFrom(r, rc, now).phase = r.phase + 1
         /\ AdvanceFrom(r, rc, now).state # "failed"
         /\ r.phase = PublishPublic => AdvanceFrom(r, rc, now).pubAt = rc.at
         /\ r.phase # PublishPublic =>
              /\ AdvanceFrom(r, rc, now).deadline = r.deadline
              /\ AdvanceFrom(r, rc, now).pubAt = r.pubAt
<1> DEFINE c == IF r.phase = Validate THEN r
                ELSE [r EXCEPT !.gen = rc.gen, !.priv = rc.priv,
                               !.pub = rc.pub, !.drained = rc.drained]
           n == AdvanceFrom(r, rc, now)
           b == (now >= r.created)
<1>1. /\ c \in Records
      /\ c.rev = r.rev /\ c.phase = r.phase
      /\ c.deadline = r.deadline /\ c.pubAt = r.pubAt
  BY DEF Records, Receipts
<1>2. n = [c EXCEPT
         !.rev = c.rev + 1, !.ordered = b, !.err = 0,
         !.phase = c.phase + 1, !.state = StateOf(r.phase + 1),
         !.pubAt = IF r.phase = PublishPublic THEN rc.at ELSE c.pubAt,
         !.deadline = IF r.phase = PublishPublic THEN rc.at + DrainTime
                      ELSE c.deadline]
  BY DEF AdvanceFrom
<1>3. r.phase = PublishPublic => rc.at \in Times /\ rc.at + DrainTime \in Times
  BY DEF CanAdvance, ReceiptValid, Receipts, Times
<1>4. StateOf(r.phase + 1) \in States \ {"failed"}
  BY DEF StateOf, States
<1>5. b \in BOOLEAN /\ c.rev + 1 \in Nat /\ c.phase + 1 \in Phases
      /\ 0 \in {0} \cup Phases
  BY <1>1 DEF Records
<1> HIDE DEF c, b
<1>6. /\ n.rev = c.rev + 1 /\ n.phase = c.phase + 1
      /\ n.state = StateOf(r.phase + 1)
      /\ n.pubAt = IF r.phase = PublishPublic THEN rc.at ELSE c.pubAt
      /\ n.deadline = IF r.phase = PublishPublic THEN rc.at + DrainTime
                      ELSE c.deadline
  BY <1>1, <1>2 DEF Records
<1>7. n \in Records
  BY <1>1, <1>2, <1>3, <1>4, <1>5 DEF Records
<1> QED
  BY <1>1, <1>4, <1>6, <1>7

(* The record that markDegraded and markFailed write.                      *)
LEMMA ErredFields ==
  ASSUME NEW r \in Records, NEW now \in 1 .. MaxTime,
         NEW state \in {"degraded", "failed"}
  PROVE  /\ Erred(r, state, now) \in Records
         /\ Erred(r, state, now).rev = r.rev + 1
         /\ Erred(r, state, now).phase = r.phase
         /\ Erred(r, state, now).state = state
         /\ Erred(r, state, now).deadline = r.deadline
         /\ Erred(r, state, now).pubAt = r.pubAt
<1> DEFINE b == (now >= r.created)
           n == [r EXCEPT !.rev = r.rev + 1, !.state = state, !.err = r.phase,
                          !.ordered = b]
<1>1. b \in BOOLEAN /\ state \in States /\ r.phase \in {0} \cup Phases
      /\ r.rev + 1 \in Nat
  BY DEF States, Records
<1>2. Erred(r, state, now) = n
  BY DEF Erred
<1> HIDE DEF b
<1>3. n \in Records
  BY <1>1 DEF Records
<1>4. /\ n.rev = r.rev + 1 /\ n.phase = r.phase /\ n.state = state
      /\ n.deadline = r.deadline /\ n.pubAt = r.pubAt
  BY DEF Records
<1> QED
  BY <1>2, <1>3, <1>4

(* The record Begin creates is valid.                                      *)
LEMMA InitialValid ==
  ASSUME NEW t \in 1 .. MaxTime
  PROVE  /\ InitialRecord(t) \in Records /\ NoRecord \in Records
         /\ ValidRecord(InitialRecord(t))
         /\ InitialRecord(t).phase = 1 /\ InitialRecord(t).state = "pending"
         /\ InitialRecord(t).rev = 1
<1>1. NoRecord \in Records
  BY DEF NoRecord, Records, States, Times
<1>2. t \in Times
  BY DEF Times
<1>3. InitialRecord(t) \in Records
  BY <1>1, <1>2 DEF InitialRecord, Records
<1>4. ValidRecord(InitialRecord(t))
  BY DEF InitialRecord, NoRecord, ValidRecord, phaseBeforePublic
<1> QED
  BY <1>1, <1>3, <1>4 DEF InitialRecord, NoRecord

(* Receipts of the adapter and of the coordinator itself.                  *)
LEMMA ReceiptTypes ==
  ASSUME TypeOK, NEW s \in Sagas
  PROVE  /\ \A ph \in Phases : /\ Receipt(s, ph) \in Receipts
                               /\ Receipt(s, ph).phase = ph
         /\ Receipt(s, PublishPublic).at = effAt[s]
         /\ \A r \in Records : ExpiredDrainReceipt(r) \in Receipts
<1>1. ASSUME NEW ph \in Phases
      PROVE  GenerationsAfter(ph) \in [Hosts -> 0 .. Desired]
  BY DEF GenerationsAfter
<1>2. effAt[s] \in Times /\ 0 \in Times
  BY DEF TypeOK, Times
<1> QED
  BY <1>1, <1>2 DEF Receipt, ExpiredDrainReceipt, Receipts, Records

-----------------------------------------------------------------------------
(* Processes                                                               *)

(* p goes on to a sound place and is not in Begin there.                   *)
GoesOn(p) ==
  \E x \in ProcStates :
    /\ proc' = [proc EXCEPT ![p] = x]
    /\ ProcSound(x) /\ ~Creating(x)

(* The head of the loop, or a wait for a host, with a valid record.        *)
AtWork(p) ==
  /\ proc[p].pc \in {"loop", "await"}
  /\ ValidRecord(proc[p].mine) /\ ~Finished(proc[p].mine)
  /\ proc[p].steps < MaxResumeSteps

(* A process that runs no call holds nothing to be wrong about. *)
LEMMA IdleSound ==
  Idle \in ProcStates /\ ProcSound(Idle) /\ ~Creating(Idle)
<1>1. NoRecord \in Records
  BY InitialValid
<1> QED
  BY <1>1 DEF Idle, ProcStates, PCs, ProcSound, Creating, Resuming, Working

(* A call that returns leaves its process idle. *)
LEMMA ReturnSound ==
  ASSUME NEW p \in Procs, Set(p, Idle)
  PROVE  GoesOn(p)
BY IdleSound DEF GoesOn, Set

(* What the invariant says of one process.                                 *)
LEMMA ProcFacts ==
  ASSUME IInv, NEW p \in Procs
  PROVE  /\ proc[p] \in ProcStates /\ ProcSound(proc[p])
         /\ proc[p].mine \in Records /\ proc[p].next \in Records
         /\ proc[p].pc # "idle" => proc[p].sid \in Sagas
         /\ clock \in 1 .. MaxTime
<1>1. proc[p] \in ProcStates /\ ProcSound(proc[p]) /\ clock \in 1 .. MaxTime
  BY DEF IInv, TypeOK
<1>2. proc[p].pc # "idle" => proc[p].sid \in Sagas
  BY <1>1 DEF ProcSound
<1> QED
  BY <1>1, <1>2 DEF ProcStates

(* A process may save any successor of the record it holds. *)
LEMMA ToSaveSound ==
  ASSUME IInv, NEW p \in Procs, AtWork(p), NEW n \in Records,
         NEW cont \in {"idle", "loop"},
         Successor(proc[p].sid, proc[p].mine, n),
         Set(p, ToSave(p, n, cont))
  PROVE  GoesOn(p)
<1> DEFINE x == ToSave(p, n, cont)
<1>1. proc[p] \in ProcStates /\ ProcSound(proc[p]) /\ proc[p].sid \in Sagas
  BY ProcFacts DEF AtWork
<1>2. /\ x \in ProcStates /\ x.pc = "save" /\ x.next = n
      /\ x.mine = proc[p].mine /\ x.sid = proc[p].sid
      /\ x.steps = proc[p].steps
  BY <1>1 DEF ToSave, ProcStates, PCs
<1>3. CopyOf(proc[p].sid, proc[p].mine)
  BY <1>1 DEF AtWork, ProcSound, Resuming
<1> HIDE DEF x
<1>4. ProcSound(x) /\ ~Creating(x)
  BY <1>1, <1>2, <1>3 DEF ProcSound, Creating, Resuming, Working, AtWork
<1> QED
  BY <1>2, <1>4 DEF GoesOn, Set, x

(* The erred record is a successor of the one it is made from. *)
LEMMA ErredSuccessor ==
  ASSUME IInv, NEW p \in Procs, AtWork(p), NEW state \in {"degraded", "failed"},
         state = "failed" => proc[p].mine.phase = Validate,
         ValidRecord(Erred(proc[p].mine, state, clock))
  PROVE  /\ Erred(proc[p].mine, state, clock) \in Records
         /\ Successor(proc[p].sid, proc[p].mine,
                      Erred(proc[p].mine, state, clock))
BY ProcFacts, ErredFields DEF Successor, StaysAt

(* markDegraded and markFailed leave the process with such a record to save. *)
LEMMA DegradeSound ==
  ASSUME IInv, NEW p \in Procs, AtWork(p), markDegraded(p)
  PROVE  GoesOn(p)
<1> DEFINE d == Erred(proc[p].mine, "degraded", clock)
<1>1. Set(p, Idle) \/ (ValidRecord(d) /\ Set(p, ToSave(p, d, "idle")))
  BY DEF markDegraded
<1>2. ValidRecord(d) => d \in Records /\ Successor(proc[p].sid, proc[p].mine, d)
  BY ErredSuccessor
<1> HIDE DEF d
<1> QED
  BY <1>1, <1>2, ReturnSound, ToSaveSound

(* A receipt advances the record only if it is evidence.                   *)
LEMMA AdvanceSuccessor ==
  ASSUME IInv, NEW p \in Procs, AtWork(p), NEW rc \in Receipts,
         CanAdvance(proc[p].mine, rc, clock),
         Evidence(proc[p].sid, proc[p].mine),
         proc[p].mine.phase = PublishPublic => rc.at = effAt[proc[p].sid]
  PROVE  /\ AdvanceFrom(proc[p].mine, rc, clock) \in Records
         /\ Successor(proc[p].sid, proc[p].mine,
                      AdvanceFrom(proc[p].mine, rc, clock))
<1>1. proc[p].mine \in Records /\ clock \in 1 .. MaxTime
  BY ProcFacts
<1>2. proc[p].mine.phase \in 1 .. 7
  BY <1>1, UnfinishedPhase DEF AtWork
<1>3. ValidRecord(AdvanceFrom(proc[p].mine, rc, clock))
  BY DEF CanAdvance
<1> QED
  BY <1>1, <1>2, <1>3, AdvanceFields DEF Successor, MovesOn

(* advance() leaves the process with a successor that its receipt backs. *)
LEMMA AdvanceSound ==
  ASSUME IInv, NEW p \in Procs, AtWork(p), NEW rc \in Receipts,
         AdvanceOrDegrade(p, rc),
         CanAdvance(proc[p].mine, rc, clock) =>
           /\ Evidence(proc[p].sid, proc[p].mine)
           /\ proc[p].mine.phase = PublishPublic => rc.at = effAt[proc[p].sid]
  PROVE  GoesOn(p)
<1> DEFINE n == AdvanceFrom(proc[p].mine, rc, clock)
<1>1. CASE CanAdvance(proc[p].mine, rc, clock)
  <2>1. Set(p, ToSave(p, n, "loop"))
    BY <1>1 DEF AdvanceOrDegrade
  <2>2. n \in Records /\ Successor(proc[p].sid, proc[p].mine, n)
    BY <1>1, AdvanceSuccessor
  <2> HIDE DEF n
  <2> QED
    BY <2>1, <2>2, ToSaveSound
<1>2. CASE ~CanAdvance(proc[p].mine, rc, clock)
  BY <1>2, DegradeSound DEF AdvanceOrDegrade
<1> QED
  BY <1>1, <1>2

(* The world moves forward: nothing a process relies on is taken back.     *)
LEMMA StillSound ==
  ASSUME TypeOK, NEW x \in ProcStates, ProcSound(x), rec' = rec,
         latest \in Nat, latest' \in Nat, latest' >= latest,
         \A s \in Sagas : effects[s] \subseteq effects'[s],
         \A s \in Sagas : PublishPublic \in effects[s] => effAt'[s] = effAt[s]
  PROVE  ProcSound(x)'
<1>1. (x.pc # "idle" => x.sid \in Sagas) /\ x.mine \in Records /\ x.next \in Records
  BY DEF ProcSound, ProcStates
<1>2. ASSUME NEW s \in Sagas, NEW r \in Records, Evidence(s, r)
      PROVE  Evidence(s, r)'
  <2>1. r.deadline \in Nat
    BY DEF Records, Times
  <2> QED
    BY <1>2, <2>1 DEF Evidence
<1>3. ASSUME NEW s \in Sagas, NEW r \in Records, NEW n \in Records,
             Successor(s, r, n)
      PROVE  Successor(s, r, n)'
  <2>1. CASE StaysAt(r, n)
    BY <1>3, <2>1 DEF Successor, StaysAt
  <2>2. CASE MovesOn(s, r, n)
    <3>1. Evidence(s, r)'
      BY <1>2, <2>2 DEF MovesOn
    <3>2. r.phase = PublishPublic => effAt'[s] = effAt[s]
      BY <2>2 DEF MovesOn, Evidence
    <3> QED
      BY <1>3, <2>2, <3>1, <3>2 DEF Successor, MovesOn
  <2> QED
    BY <1>3, <2>1, <2>2 DEF Successor
<1>4. ASSUME NEW s \in Sagas, NEW r \in Records, CopyOf(s, r)
      PROVE  CopyOf(s, r)'
  BY <1>4 DEF CopyOf
<1> QED
  BY <1>1, <1>3, <1>4 DEF ProcSound, Creating, Resuming, Working

(* A step of one process that leaves the store and the hosts alone.        *)
LEMMA GoesOnStep ==
  ASSUME IInv, NEW p \in Procs, GoesOn(p), UNCHANGED <<rec, world>>,
         faults' \in 0 .. MaxFaults
  PROVE  IInv'
<1>1. PICK x \in ProcStates : /\ proc' = [proc EXCEPT ![p] = x]
                              /\ ProcSound(x) /\ ~Creating(x)
  BY DEF GoesOn
<1>2. UNCHANGED <<rec, effects, inflight, effAt, clock, latest>>
  BY DEF world
<1>3. TypeOK' /\ (latest >= clock)'
  BY <1>1, <1>2 DEF IInv, TypeOK
<1>4. \A q \in Procs : proc'[q] = IF q = p THEN x ELSE proc[q]
  BY <1>1 DEF IInv, TypeOK
<1>5. ASSUME NEW s \in Sagas PROVE RecInv(s)'
  BY <1>2 DEF IInv, RecInv, Stored, Behind
<1>6. ASSUME NEW y \in ProcStates, ProcSound(y) PROVE ProcSound(y)'
  <2>1. latest \in Nat /\ TypeOK
    BY DEF IInv, TypeOK
  <2> QED
    BY <1>2, <1>6, <2>1, StillSound
<1>7. \A q \in Procs : ProcSound(proc[q])'
  BY <1>1, <1>4, <1>6, ProcFacts DEF ProcSound
<1> QED
  BY <1>3, <1>5, <1>7 DEF IInv

-----------------------------------------------------------------------------
(* The actions that only move one process                                  *)

(* The failures stay within their budget. *)
LEMMA FaultBound ==
  ASSUME IInv, Fault \/ UNCHANGED faults
  PROVE  faults' \in 0 .. MaxFaults
BY DEF IInv, TypeOK, Fault

(* A process in the loop of Resume is at work on an operation. *)
LEMMA InLoopAtWork ==
  ASSUME NEW p \in Procs, InLoop(p)
  PROVE  AtWork(p)
BY DEF InLoop, AtWork

(* Resume reads the stored record. *)
LEMMA LoadStep ==
  ASSUME IInv, NEW p \in Procs, NEW s \in Sagas, Load(p, s)
  PROVE  IInv'
<1> DEFINE x == [Idle EXCEPT !.pc = "loop", !.sid = s, !.mine = rec[s]]
<1>1. rec[s] \in Records /\ rec[s].rev > 0
  BY DEF IInv, TypeOK, Load, Stored
<1>2. CopyOf(s, rec[s])
  BY <1>1 DEF CopyOf, Records
<1>3. /\ x \in ProcStates
      /\ x.pc = "loop" /\ x.sid = s /\ x.mine = rec[s]
  BY <1>1, IdleSound DEF ProcStates, PCs, Idle
<1>4. proc' = [proc EXCEPT ![p] = x] /\ UNCHANGED <<rec, world, faults>>
  BY DEF Load, Set
<1> HIDE DEF x
<1>5. ProcSound(x) /\ ~Creating(x)
  BY <1>2, <1>3 DEF ProcSound, Creating, Resuming, Working
<1>6. GoesOn(p)
  BY <1>3, <1>4, <1>5 DEF GoesOn
<1> QED
  BY <1>4, <1>6, FaultBound, GoesOnStep

(* Resume returns without an effect. *)
LEMMA ResumeReturnsStep ==
  ASSUME IInv, NEW p \in Procs, ResumeReturns(p)
  PROVE  IInv'
BY FaultBound, ReturnSound, GoesOnStep DEF ResumeReturns

(* The adapter validates the candidate and finds it applicable. *)
LEMMA ValidateAcceptsStep ==
  ASSUME IInv, NEW p \in Procs, ValidateAccepts(p)
  PROVE  IInv'
<1> DEFINE s == proc[p].sid
           r == proc[p].mine
           rc == Receipt(s, Validate)
           n == AdvanceFrom(r, rc, clock)
<1>1. AtWork(p) /\ r.phase = Validate /\ s \in Sagas
  BY InLoopAtWork, ProcFacts DEF ValidateAccepts, InLoop
<1>2. rc \in Receipts
  BY <1>1, ReceiptTypes DEF IInv
<1>3. Set(p, Idle) \/ (ValidRecord(n) /\ Set(p, ToSave(p, n, "loop")))
  BY DEF ValidateAccepts
<1>4. ValidRecord(n) => n \in Records /\ Successor(s, r, n)
  <2>1. ValidRecord(n) => CanAdvance(r, rc, clock)
    BY <1>1 DEF CanAdvance
  <2>2. Evidence(s, r)
    BY <1>1 DEF Evidence
  <2> QED
    BY <1>1, <1>2, <2>1, <2>2, AdvanceSuccessor
<1> HIDE DEF n, rc
<1>5. GoesOn(p)
  BY <1>1, <1>3, <1>4, ReturnSound, ToSaveSound
<1> QED
  BY <1>5, FaultBound, GoesOnStep DEF ValidateAccepts

(* The adapter reports a conflict: the operation fails before any effect. *)
LEMMA ValidateConflictsStep ==
  ASSUME IInv, NEW p \in Procs, ValidateConflicts(p)
  PROVE  IInv'
<1> DEFINE f == Erred(proc[p].mine, "failed", clock)
<1>1. AtWork(p) /\ proc[p].mine.phase = Validate
  BY InLoopAtWork DEF ValidateConflicts
<1>2. Set(p, Idle) \/ (ValidRecord(f) /\ Set(p, ToSave(p, f, "idle")))
  BY DEF ValidateConflicts
<1>3. ValidRecord(f) => f \in Records /\ Successor(proc[p].sid, proc[p].mine, f)
  BY <1>1, ErredSuccessor
<1> HIDE DEF f
<1>4. GoesOn(p)
  BY <1>1, <1>2, <1>3, ReturnSound, ToSaveSound
<1> QED
  BY <1>4, FaultBound, GoesOnStep DEF ValidateConflicts

(* The validation itself fails. *)
LEMMA ValidateFailsStep ==
  ASSUME IInv, NEW p \in Procs, ValidateFails(p)
  PROVE  IInv'
BY FaultBound, InLoopAtWork, DegradeSound, GoesOnStep DEF ValidateFails

(* The adapter cannot tell what the hosts did. *)
LEMMA ReconcileUnknownStep ==
  ASSUME IInv, NEW p \in Procs, ReconcileUnknown(p)
  PROVE  IInv'
BY FaultBound, InLoopAtWork, DegradeSound, GoesOnStep DEF ReconcileUnknown

(* The adapter finds the phase applied: its receipt is evidence. *)
LEMMA ReconcileAppliedStep ==
  ASSUME IInv, NEW p \in Procs, ReconcileApplied(p)
  PROVE  IInv'
<1> DEFINE s == proc[p].sid
           r == proc[p].mine
           rc == Receipt(s, r.phase)
<1>1. AtWork(p) /\ s \in Sagas /\ r \in Records /\ r.phase \in effects[s]
  BY InLoopAtWork, ProcFacts DEF ReconcileApplied, InLoop
<1>2. rc \in Receipts /\ (r.phase = PublishPublic => rc.at = effAt[s])
  BY <1>1, ReceiptTypes DEF IInv, Records
<1>3. Evidence(s, r)
  BY <1>1 DEF Evidence
<1>4. AdvanceOrDegrade(p, rc)
  BY DEF ReconcileApplied
<1> HIDE DEF rc
<1>5. GoesOn(p)
  BY <1>1, <1>2, <1>3, <1>4, AdvanceSound
<1> QED
  BY <1>5, FaultBound, GoesOnStep DEF ReconcileApplied

(* The adapter finds the phase not applied. *)
LEMMA ReconcileNotAppliedStep ==
  ASSUME IInv, NEW p \in Procs, ReconcileNotApplied(p)
  PROVE  IInv'
<1> DEFINE x == [proc[p] EXCEPT !.pc = "execute"]
<1>1. AtWork(p) /\ proc[p].mine.phase \in SideEffects /\ proc[p].pc = "loop"
  BY InLoopAtWork DEF ReconcileNotApplied, InLoop
<1>2. proc[p] \in ProcStates /\ ProcSound(proc[p])
  BY ProcFacts
<1>3. /\ x \in ProcStates /\ x.pc = "execute"
      /\ x.sid = proc[p].sid /\ x.mine = proc[p].mine
      /\ x.steps = proc[p].steps
  BY <1>2 DEF ProcStates, PCs
<1>4. proc' = [proc EXCEPT ![p] = x]
  BY DEF ReconcileNotApplied, Set
<1> HIDE DEF x
<1>5. ProcSound(x) /\ ~Creating(x)
  BY <1>1, <1>2, <1>3 DEF ProcSound, Creating, Resuming, Working, AtWork
<1>6. GoesOn(p)
  BY <1>3, <1>4, <1>5 DEF GoesOn
<1> QED
  BY <1>6, FaultBound, GoesOnStep DEF ReconcileNotApplied

(* The drain deadline has passed by the clock of the coordinator. *)
LEMMA DrainExpiresStep ==
  ASSUME IInv, NEW p \in Procs, DrainExpires(p)
  PROVE  IInv'
<1> DEFINE s == proc[p].sid
           r == proc[p].mine
           rc == ExpiredDrainReceipt(r)
<1>1. /\ AtWork(p) /\ s \in Sagas /\ r \in Records
      /\ r.phase = Drain /\ clock >= r.deadline
  BY InLoopAtWork, ProcFacts DEF DrainExpires, InLoop
<1>2. rc \in Receipts
  BY <1>1, ReceiptTypes DEF IInv
<1>3. latest >= r.deadline
  BY <1>1 DEF IInv, TypeOK, Records, Times
<1>4. Evidence(s, r)
  BY <1>1, <1>3 DEF Evidence
<1>5. AdvanceOrDegrade(p, rc)
  BY DEF DrainExpires
<1> HIDE DEF rc
<1>6. GoesOn(p)
  BY <1>1, <1>2, <1>4, <1>5, AdvanceSound
<1> QED
  BY <1>6, FaultBound, GoesOnStep DEF DrainExpires

(* A receipt of another phase does not validate against the record.        *)
LEMMA ExecuteReturnsStep ==
  ASSUME IInv, NEW p \in Procs, ExecuteReturns(p)
  PROVE  IInv'
<1> DEFINE s == proc[p].sid
           r == proc[p].mine
<1>1. /\ s \in Sagas /\ r \in Records /\ ProcSound(proc[p])
      /\ proc[p].pc = "await"
  BY ProcFacts DEF ExecuteReturns
<1>2. AtWork(p) /\ r.phase \in SideEffects
  BY <1>1 DEF ProcSound, Working, AtWork
<1>3. PICK ph \in effects[s] :
        /\ Fault \/ UNCHANGED faults
        /\ AdvanceOrDegrade(p, Receipt(s, ph))
  BY DEF ExecuteReturns
<1> DEFINE rc == Receipt(s, ph)
<1>4. ph \in Phases
  BY <1>1 DEF IInv, TypeOK
<1>5. /\ rc \in Receipts /\ rc.phase = ph
      /\ ph = PublishPublic => rc.at = effAt[s]
  BY <1>1, <1>4, ReceiptTypes DEF IInv
<1>6. CanAdvance(r, rc, clock) => ph = r.phase
  BY <1>2, <1>5 DEF CanAdvance, ReceiptValid
<1>7. CanAdvance(r, rc, clock) =>
        Evidence(s, r) /\ (r.phase = PublishPublic => rc.at = effAt[s])
  BY <1>5, <1>6 DEF Evidence
<1> HIDE DEF rc
<1>8. GoesOn(p)
  BY <1>2, <1>3, <1>5, <1>7, AdvanceSound DEF rc
<1> QED
  BY <1>3, <1>8, FaultBound, GoesOnStep DEF ExecuteReturns

(* The command returned an error, which says nothing of its effect. *)
LEMMA ExecuteFailsStep ==
  ASSUME IInv, NEW p \in Procs, ExecuteFails(p)
  PROVE  IInv'
<1>1. AtWork(p)
  BY ProcFacts DEF ExecuteFails, ProcSound, Working, AtWork
<1>2. Fault \/ UNCHANGED faults
  BY DEF ExecuteFails
<1> QED
  BY <1>1, <1>2, FaultBound, DegradeSound, GoesOnStep DEF ExecuteFails

(* The revision check, or the store, refuses the save. *)
LEMMA SaveRefusedStep ==
  ASSUME IInv, NEW p \in Procs, SaveRefused(p)
  PROVE  IInv'
<1>1. Fault \/ UNCHANGED faults
  BY DEF SaveRefused
<1> QED
  BY <1>1, FaultBound, ReturnSound, GoesOnStep DEF SaveRefused

(* A coordinator is killed: its copies are gone, its commands are not. *)
LEMMA CrashStep ==
  ASSUME IInv, NEW p \in Procs, Crash(p)
  PROVE  IInv'
BY FaultBound, ReturnSound, GoesOnStep DEF Crash

-----------------------------------------------------------------------------
(* The actions that write the store                                        *)

(* A save that passes the revision check is made from the stored record.   *)
LEMMA SaveFacts ==
  ASSUME IInv, NEW p \in Procs, proc[p].pc = "save",
         rec[proc[p].sid].rev = proc[p].mine.rev
  PROVE  /\ proc[p].sid \in Sagas /\ Stored(proc[p].sid)
         /\ proc[p].mine = rec[proc[p].sid]
         /\ rec[proc[p].sid] \in Records /\ proc[p].next \in Records
         /\ Successor(proc[p].sid, rec[proc[p].sid], proc[p].next)
<1>1. /\ ProcSound(proc[p]) /\ proc[p].sid \in Sagas
      /\ proc[p].mine \in Records /\ proc[p].next \in Records
  BY ProcFacts
<1>2. CopyOf(proc[p].sid, proc[p].mine)
  BY <1>1 DEF ProcSound, Resuming
<1> QED
  BY <1>1, <1>2 DEF ProcSound, CopyOf, Stored, IInv, TypeOK

(* The record that replaces r is again sound.                              *)
LEMMA SavedRecord ==
  ASSUME IInv, NEW s \in Sagas, Stored(s), NEW n \in Records,
         Successor(s, rec[s], n), rec' = [rec EXCEPT ![s] = n],
         UNCHANGED world
  PROVE  /\ RecInv(s)'
         /\ rec'[s] = n /\ n.rev = rec[s].rev + 1 /\ n.phase >= rec[s].phase
<1>1. /\ rec[s] \in Records /\ RecInv(s) /\ effects[s] \subseteq SideEffects
      /\ inflight[s] \subseteq SideEffects /\ rec'[s] = n /\ latest \in Nat
  BY DEF IInv, TypeOK
<1>2. UNCHANGED <<effects, inflight, effAt, latest>>
  BY DEF world
<1>3. ValidRecord(n) /\ n.rev = rec[s].rev + 1 /\ n.rev > 0
  BY <1>1 DEF Successor, Stored, Records
<1>4. /\ n.phase \in Phases /\ rec[s].phase \in Phases
      /\ n.deadline \in Nat /\ rec[s].deadline \in Nat
  BY <1>1 DEF Records, Times
<1>5. CASE StaysAt(rec[s], n)
  <2>1. /\ n.phase = rec[s].phase /\ n.deadline = rec[s].deadline
        /\ n.pubAt = rec[s].pubAt /\ (n.state = "failed" => n.phase = Validate)
    BY <1>5 DEF StaysAt
  <2> QED
    BY <1>1, <1>2, <1>3, <1>4, <2>1 DEF RecInv, Stored, Behind
<1>6. CASE MovesOn(s, rec[s], n)
  <2>1. n.phase = rec[s].phase + 1 /\ n.state # "failed"
    BY <1>6 DEF MovesOn
  <2>2. ASSUME NEW ph \in SideEffects, ph < n.phase
        PROVE  ph \in effects[s] \/ (ph = Drain /\ latest >= n.deadline)
    <3>1. CASE ph < rec[s].phase
      <4>1. ph \in effects[s] \/ (ph = Drain /\ latest >= rec[s].deadline)
        BY <1>1, <3>1 DEF RecInv, Behind
      <4>2. rec[s].phase # PublishPublic => n.deadline = rec[s].deadline
        BY <1>6 DEF MovesOn
      <4> QED
        BY <1>4, <3>1, <4>1, <4>2
    <3>2. CASE ph = rec[s].phase
      BY <1>6, <3>2 DEF MovesOn, Evidence
    <3> QED
      BY <1>4, <2>1, <2>2, <3>1, <3>2
  <2>3. n.phase >= Drain => n.pubAt = effAt[s]
    BY <1>1, <1>4, <1>6, <2>1 DEF MovesOn, RecInv
  <2> QED
    BY <1>1, <1>2, <1>3, <1>4, <2>1, <2>2, <2>3 DEF RecInv, Stored, Behind
<1> QED
  BY <1>1, <1>3, <1>4, <1>5, <1>6 DEF Successor, StaysAt, MovesOn

(* Whoever else holds a copy now holds an older one, and will be refused.  *)
LEMMA SaveStep ==
  ASSUME IInv, NEW p \in Procs, proc[p].pc = "save",
         rec[proc[p].sid].rev = proc[p].mine.rev,
         rec' = [rec EXCEPT ![proc[p].sid] = proc[p].next],
         UNCHANGED world, faults' \in 0 .. MaxFaults,
         NEW x \in ProcStates, proc' = [proc EXCEPT ![p] = x],
         \/ x = Idle
         \/ x.pc = "loop" /\ x.sid = proc[p].sid /\ x.mine = proc[p].next
  PROVE  IInv'
<1>0. PICK s \in Sagas, n \in Records : s = proc[p].sid /\ n = proc[p].next
  BY SaveFacts
<1>1. Stored(s) /\ rec[s] \in Records /\ Successor(s, rec[s], n)
  BY <1>0, SaveFacts
<1>2. /\ RecInv(s)'
      /\ rec'[s] = n /\ n.rev = rec[s].rev + 1 /\ n.phase >= rec[s].phase
  BY <1>0, <1>1, SavedRecord
<1>3. UNCHANGED <<effects, inflight, effAt, clock, latest>>
  BY DEF world
<1>4. /\ \A t \in Sagas : t # s => rec'[t] = rec[t]
      /\ \A q \in Procs : proc'[q] = IF q = p THEN x ELSE proc[q]
      /\ TypeOK' /\ (latest >= clock)'
  BY <1>0, <1>3 DEF IInv, TypeOK
<1>5. ASSUME NEW t \in Sagas PROVE RecInv(t)'
  <2>1. CASE t = s
    BY <1>2, <2>1
  <2>2. CASE t # s
    BY <1>3, <1>4, <2>2 DEF IInv, RecInv, Stored, Behind
  <2> QED
    BY <2>1, <2>2
<1>6. ASSUME NEW q \in Procs, q # p
      PROVE  ProcSound(proc[q])'
  <2> DEFINE y == proc[q]
  <2>1. ProcSound(y) /\ y \in ProcStates /\ y.mine \in Records
    BY ProcFacts
  <2>2. ASSUME NEW t \in Sagas, NEW r \in Records, CopyOf(t, r)
        PROVE  CopyOf(t, r)'
    BY <1>1, <1>2, <1>4, <2>2 DEF CopyOf, Records
  <2>3. ASSUME NEW t, NEW r, NEW o, Successor(t, r, o)
        PROVE  Successor(t, r, o)'
    BY <1>3, <2>3 DEF Successor, StaysAt, MovesOn, Evidence
  <2>4. proc'[q] = y
    BY <1>4, <1>6
  <2> HIDE DEF y
  <2>5. ProcSound(y)'
    BY <1>3, <2>1, <2>2, <2>3, <2>4 DEF ProcSound, Creating, Resuming, Working, y
  <2> QED
    BY <2>4, <2>5 DEF y
<1>7. ProcSound(proc[p])'
  <2>1. proc'[p] = x
    BY <1>4
  <2>2. CASE x = Idle
    BY <2>1, <2>2 DEF ProcSound, Idle, Creating, Resuming, Working
  <2>3. CASE x.pc = "loop" /\ x.sid = s /\ x.mine = n
    <3>1. CopyOf(s, n)'
      BY <1>1, <1>2 DEF CopyOf, Records
    <3>2. /\ proc'[p].pc = "loop" /\ proc'[p].sid = s /\ proc'[p].mine = n
      BY <2>1, <2>3
    <3> QED
      BY <1>1, <3>1, <3>2 DEF ProcSound, Creating, Resuming, Working, CopyOf
  <2> QED
    BY <1>0, <2>2, <2>3
<1> QED
  BY <1>4, <1>5, <1>6, <1>7 DEF IInv

(* The save of a successor, as the action takes it. *)
LEMMA SaveActionStep ==
  ASSUME IInv, NEW p \in Procs, Save(p) \/ SaveAckLost(p)
  PROVE  IInv'
<1> DEFINE l == [proc[p] EXCEPT !.pc = "loop", !.mine = proc[p].next,
                     !.next = NoRecord, !.cont = "idle", !.steps = @ + 1]
<1>1. /\ proc[p].pc = "save"
      /\ rec[proc[p].sid].rev = proc[p].mine.rev
      /\ rec' = [rec EXCEPT ![proc[p].sid] = proc[p].next]
      /\ UNCHANGED world
      /\ Fault \/ UNCHANGED faults
      /\ proc' = [proc EXCEPT ![p] = Idle] \/ proc' = [proc EXCEPT ![p] = l]
  BY DEF Save, SaveAckLost, Set
<1>2. proc[p] \in ProcStates /\ proc[p].steps < MaxResumeSteps
  BY <1>1, ProcFacts DEF ProcSound, Working
<1>3. NoRecord \in Records /\ Idle \in ProcStates
  <2>1. StartTime \in 1 .. MaxTime
    BY DEF StartTime
  <2> QED
    BY <2>1, InitialValid, IdleSound
<1> HIDE DEF MaxResumeSteps
<1>4a. /\ proc[p].steps + 1 \in 0 .. MaxResumeSteps
       /\ proc[p].next \in Records
  BY <1>2 DEF ProcStates, MaxResumeSteps
<1>4. /\ l \in ProcStates
      /\ l.pc = "loop" /\ l.sid = proc[p].sid /\ l.mine = proc[p].next
  BY <1>2, <1>3, <1>4a DEF ProcStates, PCs
<1> HIDE DEF l
<1>5. faults' \in 0 .. MaxFaults
  BY <1>1, FaultBound
<1> QED
  BY <1>1, <1>3, <1>4, <1>5, SaveStep

(* A fresh operation ID: nobody holds a copy, no host has heard of it.     *)
LEMMA BeginCreateStep ==
  ASSUME IInv, NEW p \in Procs, BeginCreate(p)
  PROVE  IInv'
<1>1. proc[p].sid \in Sagas /\ ProcSound(proc[p]) /\ proc[p].pc = "create"
  BY ProcFacts DEF BeginCreate
<1>2. PICK s \in Sagas, t \in 1 .. MaxTime :
        s = proc[p].sid /\ InitialRecord(t) = proc[p].next
  BY <1>1 DEF ProcSound, Creating
<1>3. PICK n \in Records :
        /\ n = InitialRecord(t) /\ n = proc[p].next /\ ValidRecord(n)
        /\ n.phase = 1 /\ n.state = "pending" /\ n.rev = 1
  BY <1>2, InitialValid
<1>4. /\ ~Stored(s) /\ rec' = [rec EXCEPT ![s] = n]
      /\ proc' = [proc EXCEPT ![p] = Idle]
      /\ UNCHANGED <<effects, inflight, effAt, clock, latest, faults>>
  BY <1>2, <1>3 DEF BeginCreate, Set, world
<1>5. /\ \A u \in Sagas : u # s => rec'[u] = rec[u]
      /\ rec'[s] = n
      /\ \A q \in Procs : proc'[q] = IF q = p THEN Idle ELSE proc[q]
      /\ TypeOK' /\ (latest >= clock)'
  BY <1>4, IdleSound DEF IInv, TypeOK
<1>6. ASSUME NEW u \in Sagas PROVE RecInv(u)'
  <2>1. CASE u = s
    <3>1. effects[s] \cup inflight[s] = {}
      BY <1>4 DEF IInv, RecInv
    <3> QED
      BY <1>3, <1>4, <1>5, <2>1, <3>1 DEF RecInv, Stored, Behind
  <2>2. CASE u # s
    BY <1>4, <1>5, <2>2 DEF IInv, RecInv, Stored, Behind
  <2> QED
    BY <2>1, <2>2
<1>7. ASSUME NEW q \in Procs, q # p
      PROVE  ProcSound(proc[q])'
  <2> DEFINE y == proc[q]
  <2>1. ProcSound(y) /\ y \in ProcStates /\ y.mine \in Records
    BY ProcFacts
  <2>2. ASSUME NEW u \in Sagas, NEW r \in Records, CopyOf(u, r)
        PROVE  CopyOf(u, r)'
    <3>1. u # s
      BY <1>4, <2>2 DEF CopyOf, Stored, Records, IInv, TypeOK
    <3> QED
      BY <1>5, <2>2, <3>1 DEF CopyOf
  <2>3. ASSUME NEW u, NEW r, NEW o, Successor(u, r, o)
        PROVE  Successor(u, r, o)'
    BY <1>4, <2>3 DEF Successor, StaysAt, MovesOn, Evidence
  <2>4. proc'[q] = y
    BY <1>5, <1>7
  <2> HIDE DEF y
  <2>5. ProcSound(y)'
    BY <1>4, <2>1, <2>2, <2>3, <2>4 DEF ProcSound, Creating, Resuming, Working, y
  <2> QED
    BY <2>4, <2>5 DEF y
<1>8. ProcSound(proc[p])'
  BY <1>5 DEF ProcSound, Idle, Creating, Resuming, Working
<1> QED
  BY <1>5, <1>6, <1>7, <1>8 DEF IInv

-----------------------------------------------------------------------------
(* Begin's first half, the hosts and the clock                             *)

(* Begin looks for an operation of the same request. *)
LEMMA BeginListStep ==
  ASSUME IInv, NEW p \in Procs, BeginList(p)
  PROVE  IInv'
<1>1. PICK s \in Sagas :
        proc' = [proc EXCEPT ![p] = [Idle EXCEPT !.pc = "create", !.sid = s,
                                       !.next = InitialRecord(clock)]]
  BY DEF BeginList, Set
<1> DEFINE x == [Idle EXCEPT !.pc = "create", !.sid = s,
                             !.next = InitialRecord(clock)]
<1>2. UNCHANGED <<rec, effects, inflight, effAt, clock, latest, faults>>
  BY DEF BeginList, world
<1>3. clock \in 1 .. MaxTime /\ InitialRecord(clock) \in Records
  BY InitialValid DEF IInv, TypeOK
<1>4. /\ x \in ProcStates /\ x.pc = "create" /\ x.sid = s
      /\ x.next = InitialRecord(clock)
  BY <1>3, IdleSound DEF ProcStates, PCs, Idle
<1>5. PICK y \in ProcStates :
        /\ proc' = [proc EXCEPT ![p] = y]
        /\ y.pc = "create" /\ y.sid = s /\ y.next = InitialRecord(clock)
  BY <1>1, <1>4
<1>6. /\ \A q \in Procs : proc'[q] = IF q = p THEN y ELSE proc[q]
      /\ TypeOK' /\ (latest >= clock)'
  BY <1>2, <1>5 DEF IInv, TypeOK
<1>7. \A u \in Sagas : RecInv(u)'
  BY <1>2 DEF IInv, RecInv, Stored, Behind
<1>8. ASSUME NEW z \in ProcStates, ProcSound(z) PROVE ProcSound(z)'
  <2>1. latest \in Nat /\ TypeOK
    BY DEF IInv, TypeOK
  <2> QED
    BY <1>2, <1>8, <2>1, StillSound
<1>9. ProcSound(y)
  BY <1>3, <1>5 DEF ProcSound, Creating, Resuming, Working
<1>10. \A q \in Procs : ProcSound(proc[q])'
  BY <1>5, <1>6, <1>8, <1>9, ProcFacts DEF ProcSound
<1> QED
  BY <1>6, <1>7, <1>10 DEF IInv

(* A command goes out only for the phase the durable record has reached.   *)
LEMMA ExecuteStep ==
  ASSUME IInv, NEW p \in Procs, Execute(p)
  PROVE  IInv'
<1>1. /\ proc[p] \in ProcStates /\ ProcSound(proc[p]) /\ proc[p].sid \in Sagas
      /\ proc[p].mine \in Records /\ proc[p].pc = "execute"
  BY ProcFacts DEF Execute
<1>2. /\ CopyOf(proc[p].sid, proc[p].mine) /\ ValidRecord(proc[p].mine)
      /\ ~Finished(proc[p].mine) /\ proc[p].steps < MaxResumeSteps
      /\ proc[p].mine.phase \in SideEffects
  BY <1>1 DEF ProcSound, Resuming, Working
<1>3. PICK s \in Sagas, ph \in SideEffects :
        s = proc[p].sid /\ ph = proc[p].mine.phase
  BY <1>1, <1>2
<1>4. Stored(s) /\ ph <= rec[s].phase
  BY <1>1, <1>2, <1>3 DEF CopyOf, Stored, IInv, TypeOK, Records
<1>5. /\ UNCHANGED <<rec, effects, effAt, clock, latest, faults>>
      /\ inflight' = [inflight EXCEPT ![s] = @ \cup {ph}]
  BY <1>3 DEF Execute
<1> DEFINE x == [proc[p] EXCEPT !.pc = "await"]
<1>6. /\ x \in ProcStates /\ x.pc = "await" /\ x.sid = proc[p].sid
      /\ x.mine = proc[p].mine /\ x.steps = proc[p].steps
  BY <1>1 DEF ProcStates, PCs
<1>7. PICK y \in ProcStates :
        /\ proc' = [proc EXCEPT ![p] = y]
        /\ y.pc = "await" /\ y.sid = proc[p].sid /\ y.mine = proc[p].mine
        /\ y.steps = proc[p].steps
  BY <1>6 DEF Execute, Set
<1>8. /\ \A q \in Procs : proc'[q] = IF q = p THEN y ELSE proc[q]
      /\ \A u \in Sagas : inflight'[u] = IF u = s THEN inflight[u] \cup {ph}
                                         ELSE inflight[u]
      /\ TypeOK' /\ (latest >= clock)'
  BY <1>5, <1>7 DEF IInv, TypeOK
<1>9. \A u \in Sagas : RecInv(u)'
  BY <1>4, <1>5, <1>8 DEF IInv, RecInv, Stored, Behind
<1>10. ASSUME NEW z \in ProcStates, ProcSound(z) PROVE ProcSound(z)'
  <2>1. latest \in Nat /\ TypeOK
    BY DEF IInv, TypeOK
  <2> QED
    BY <1>5, <1>10, <2>1, StillSound
<1>11. ProcSound(y)
  BY <1>1, <1>2, <1>7 DEF ProcSound, Creating, Resuming, Working
<1>12. \A q \in Procs : ProcSound(proc[q])'
  BY <1>7, <1>8, <1>10, <1>11, ProcFacts DEF ProcSound
<1> QED
  BY <1>8, <1>9, <1>12 DEF IInv

(* The publication takes effect once: a record past it keeps its time.     *)
LEMMA WorldStep ==
  ASSUME IInv, UNCHANGED <<rec, proc>>, TypeOK', (latest >= clock)',
         latest' >= latest,
         \A s \in Sagas :
           /\ effects[s] \subseteq effects'[s]
           /\ effects'[s] \cup inflight'[s] \subseteq effects[s] \cup inflight[s]
           /\ PublishPublic \in effects[s] => effAt'[s] = effAt[s]
  PROVE  IInv'
<1>1. TypeOK /\ latest \in Nat /\ latest' \in Nat
  BY DEF IInv, TypeOK
<1>2. ASSUME NEW s \in Sagas PROVE RecInv(s)'
  <2>1. RecInv(s) /\ rec[s] \in Records
    BY <1>1 DEF IInv, TypeOK
  <2>2. rec[s].phase >= Drain => Stored(s)
    BY <2>1 DEF RecInv, NoRecord
  <2>3. rec[s].phase >= Drain => PublishPublic \in effects[s]
    BY <2>1, <2>2 DEF RecInv, Behind, Records
  <2>4. rec[s].deadline \in Nat
    BY <2>1 DEF Records, Times
  <2> QED
    BY <1>1, <2>1, <2>3, <2>4 DEF RecInv, Stored, Behind
<1>3. ASSUME NEW z \in ProcStates, ProcSound(z) PROVE ProcSound(z)'
  BY <1>1, <1>3, StillSound
<1>4. \A q \in Procs : ProcSound(proc[q])'
  BY <1>3, ProcFacts DEF ProcSound
<1> QED
  BY <1>2, <1>4 DEF IInv

(* A command arrives at its host. *)
LEMMA ApplyStep ==
  ASSUME IInv, NEW s \in Sagas, NEW ph \in SideEffects, Apply(s, ph)
  PROVE  IInv'
<1>1. /\ UNCHANGED <<rec, proc, clock, latest, faults>> /\ ph \in inflight[s]
      /\ inflight' = [inflight EXCEPT ![s] = @ \ {ph}]
      /\ effects' = [effects EXCEPT ![s] = @ \cup {ph}]
  BY DEF Apply
<1>2. effAt' \in [Sagas -> Times]
      /\ \A u \in Sagas : PublishPublic \in effects[u] => effAt'[u] = effAt[u]
  <2>1. CASE ph = PublishPublic /\ ph \notin effects[s]
    <3>1. PICK skew \in 0 .. MaxSkew :
            /\ clock + skew <= MaxTime
            /\ effAt' = [effAt EXCEPT ![s] = clock + skew]
      BY <2>1 DEF Apply
    <3>2. clock + skew \in Times
      BY <3>1 DEF IInv, TypeOK, Times
    <3> QED
      BY <2>1, <3>1, <3>2 DEF IInv, TypeOK
  <2>2. CASE ~(ph = PublishPublic /\ ph \notin effects[s])
    BY <2>2 DEF Apply, IInv, TypeOK
  <2> QED
    BY <2>1, <2>2
<1>3. TypeOK' /\ (latest >= clock)' /\ latest' >= latest
  <2>1. effects' \in [Sagas -> SUBSET SideEffects]
    BY <1>1 DEF IInv, TypeOK
  <2>2. inflight' \in [Sagas -> SUBSET SideEffects]
    BY <1>1 DEF IInv, TypeOK
  <2> QED
    BY <1>1, <1>2, <2>1, <2>2 DEF IInv, TypeOK
<1>4. \A u \in Sagas :
        /\ effects[u] \subseteq effects'[u]
        /\ effects'[u] \cup inflight'[u] \subseteq effects[u] \cup inflight[u]
  BY <1>1 DEF IInv, TypeOK
<1>5. \A u \in Sagas :
        /\ effects[u] \subseteq effects'[u]
        /\ effects'[u] \cup inflight'[u] \subseteq effects[u] \cup inflight[u]
        /\ PublishPublic \in effects[u] => effAt'[u] = effAt[u]
  BY <1>2, <1>4
<1> QED
  BY <1>1, <1>3, <1>5, WorldStep

(* A command gets lost. *)
LEMMA LoseStep ==
  ASSUME IInv, NEW s \in Sagas, NEW ph \in SideEffects, Lose(s, ph)
  PROVE  IInv'
<1>1. TypeOK' /\ (latest >= clock)' /\ latest' >= latest
  BY FaultBound DEF Lose, IInv, TypeOK
<1>2. \A u \in Sagas :
        /\ effects[u] \subseteq effects'[u]
        /\ effects'[u] \cup inflight'[u] \subseteq effects[u] \cup inflight[u]
        /\ effAt'[u] = effAt[u]
  BY DEF Lose, IInv, TypeOK
<1> QED
  BY <1>1, <1>2, WorldStep DEF Lose

(* Time passes, or the clock is set. *)
LEMMA ClockStep ==
  ASSUME IInv, Tick \/ StepBack
  PROVE  IInv'
<1>1. Fault \/ UNCHANGED faults
  BY DEF Tick, StepBack
<1>2. UNCHANGED <<rec, proc, effects, inflight, effAt>>
  BY DEF Tick, StepBack
<1>3. TypeOK' /\ (latest >= clock)' /\ latest' >= latest
  BY <1>1, <1>2, FaultBound DEF Tick, StepBack, IInv, TypeOK
<1> QED
  BY <1>2, <1>3, WorldStep

-----------------------------------------------------------------------------
(* The inductive invariant                                                 *)

(* The invariant holds at the start. *)
LEMMA InitIInv == Init => IInv
<1> SUFFICES ASSUME Init PROVE IInv
  OBVIOUS
<1>1. NoRecord \in Records /\ Idle \in ProcStates /\ ProcSound(Idle)
  BY InitialValid, IdleSound
<1>2. TypeOK /\ latest >= clock
  BY <1>1 DEF Init, TypeOK, StartTime, Times
<1>3. ASSUME NEW s \in Sagas PROVE RecInv(s)
  BY DEF Init, RecInv, Stored, NoRecord, Behind
<1>4. \A p \in Procs : ProcSound(proc[p])
  BY <1>1, IdleSound DEF Init
<1> QED
  BY <1>2, <1>3, <1>4 DEF IInv

(* Every step keeps the invariant: the lemmas above, one per action. *)
LEMMA NextIInv == IInv /\ [Next]_vars => IInv'
<1> SUFFICES ASSUME IInv, [Next]_vars PROVE IInv'
  OBVIOUS
<1>1. ASSUME NEW p \in Procs, BeginList(p) PROVE IInv'
  BY <1>1, BeginListStep
<1>2. ASSUME NEW p \in Procs, NEW s \in Sagas, Load(p, s) PROVE IInv'
  BY <1>2, LoadStep
<1>3. ASSUME NEW p \in Procs, Continue(p) PROVE IInv'
  BY <1>3, BeginCreateStep, ResumeReturnsStep, ValidateAcceptsStep,
     ReconcileAppliedStep, ReconcileNotAppliedStep, DrainExpiresStep,
     ExecuteStep, ExecuteReturnsStep, ExecuteFailsStep, SaveActionStep,
     SaveRefusedStep DEF Continue
<1>4. ASSUME NEW p \in Procs, Disturb(p) PROVE IInv'
  BY <1>4, ValidateConflictsStep, ValidateFailsStep, ReconcileUnknownStep,
     SaveActionStep, CrashStep DEF Disturb
<1>5. ASSUME NEW s \in Sagas, NEW ph \in SideEffects, Apply(s, ph) \/ Lose(s, ph)
      PROVE  IInv'
  BY <1>5, ApplyStep, LoseStep
<1>6. ASSUME Tick \/ StepBack PROVE IInv'
  BY <1>6, ClockStep
<1>7. ASSUME UNCHANGED vars PROVE IInv'
  <2>1. UNCHANGED <<rec, proc, effects, inflight, effAt, clock, latest, faults>>
    BY <1>7 DEF vars
  <2>2. TypeOK' /\ (latest >= clock)' /\ latest' >= latest
    BY <2>1 DEF IInv, TypeOK
  <2> QED
    BY <2>1, <2>2, WorldStep
<1> QED
  BY <1>1, <1>2, <1>3, <1>4, <1>5, <1>6, <1>7 DEF Next

(* The strengthened invariant holds in every reachable state: stored records *)
(* are valid and backed by effects, and every copy a process holds is the stored *)
(* record or an older one that the revision check will refuse. *)
THEOREM Inductive == Spec => []IInv
BY InitIInv, NextIInv, PTL DEF Spec

(* Stored records are well-formed, valid and true of the hosts, whatever   *)
(* the receipts, the clock and the order in which coordinators write.      *)
THEOREM StoredRecordsSound == Spec => []RecordSound
<1>1. IInv => RecordSound
  BY DEF IInv, RecInv, RecordSound, StoredRecordValid, RecordBacked
<1> QED
  BY <1>1, Inductive, PTL

(* No host runs ahead of the durable record, and a failed operation has    *)
(* touched neither and never will.                                         *)
THEOREM HostsBehindRecord == Spec => []EffectsBehindRecord
<1>1. ASSUME IInv PROVE EffectsBehindRecord
  <2>1. \A s \in Sagas : \A ph \in effects[s] \cup inflight[s] :
          ph \in SideEffects /\ Stored(s) /\ ph <= rec[s].phase
    BY <1>1 DEF IInv, TypeOK, RecInv
  <2>2. ASSUME NEW s \in Sagas, Stored(s), rec[s].state = "failed"
        PROVE  effects[s] \cup inflight[s] = {}
    BY <1>1, <2>1, <2>2 DEF IInv, RecInv
  <2> QED
    BY <2>1, <2>2 DEF EffectsBehindRecord, FailedUntouched
<1> QED
  BY <1>1, Inductive, PTL

-----------------------------------------------------------------------------
(* What one step does to one operation                                     *)

SameHosts(s) ==
  /\ effects'[s] = effects[s] /\ effAt'[s] = effAt[s]

Untouched(s)    == rec'[s] = rec[s] /\ SameHosts(s) /\ latest' >= latest
HostApplies(s)  == /\ rec' = rec /\ latest' = latest
                   /\ \E ph \in SideEffects : Apply(s, ph)
Begins(s)       == /\ ~Stored(s) /\ SameHosts(s) /\ latest' = latest
                   /\ \E t \in 1 .. MaxTime : rec'[s] = InitialRecord(t)
Saves(s)        == /\ Stored(s) /\ ~Finished(rec[s]) /\ SameHosts(s)
                   /\ latest' = latest /\ Successor(s, rec[s], rec'[s])

(* Every step leaves an operation alone, applies one of its commands,      *)
(* creates it, or replaces its record by a successor of that very record.  *)
LEMMA StepOfSaga ==
  ASSUME IInv, [Next]_vars, NEW s \in Sagas
  PROVE  Untouched(s) \/ HostApplies(s) \/ Begins(s) \/ Saves(s)
<1>1. ASSUME UNCHANGED <<rec, effects, effAt, latest>> PROVE Untouched(s)
  BY <1>1 DEF Untouched, SameHosts, IInv, TypeOK
<1>2. ASSUME NEW p \in Procs, Save(p) \/ SaveAckLost(p)
      PROVE  Untouched(s) \/ Saves(s)
  <2>1. /\ proc[p].pc = "save"
        /\ rec[proc[p].sid].rev = proc[p].mine.rev
        /\ rec' = [rec EXCEPT ![proc[p].sid] = proc[p].next]
        /\ UNCHANGED <<effects, effAt, latest>>
    BY <1>2 DEF Save, SaveAckLost, world
  <2>2. /\ proc[p].sid \in Sagas /\ Stored(proc[p].sid)
        /\ Successor(proc[p].sid, rec[proc[p].sid], proc[p].next)
        /\ proc[p].mine = rec[proc[p].sid]
    BY <2>1, SaveFacts
  <2>3. ~Finished(proc[p].mine)
    BY <2>1, ProcFacts DEF ProcSound, Working
  <2>4. rec \in [Sagas -> Records] /\ latest \in Nat
    BY DEF IInv, TypeOK
  <2>5. CASE proc[p].sid = s
    <3>1. rec'[s] = proc[p].next
      BY <2>1, <2>4, <2>5
    <3> QED
      BY <2>1, <2>2, <2>3, <2>5, <3>1 DEF Saves, SameHosts
  <2>6. CASE proc[p].sid # s
    BY <2>1, <2>4, <2>6 DEF Untouched, SameHosts
  <2> QED
    BY <2>5, <2>6
<1>3. ASSUME NEW p \in Procs, BeginCreate(p)
      PROVE  Untouched(s) \/ Begins(s)
  <2>1. /\ ~Stored(proc[p].sid)
        /\ rec' = [rec EXCEPT ![proc[p].sid] = proc[p].next]
        /\ UNCHANGED <<effects, effAt, latest>>
    BY <1>3 DEF BeginCreate, world
  <2>2. \E t \in 1 .. MaxTime : proc[p].next = InitialRecord(t)
    BY <1>3, ProcFacts DEF ProcSound, Creating, BeginCreate
  <2>3. rec \in [Sagas -> Records] /\ latest \in Nat
    BY DEF IInv, TypeOK
  <2>4. CASE proc[p].sid = s
    BY <2>1, <2>2, <2>3, <2>4 DEF Begins, SameHosts
  <2>5. CASE proc[p].sid # s
    BY <2>1, <2>3, <2>5 DEF Untouched, SameHosts
  <2> QED
    BY <2>4, <2>5
<1>4. ASSUME NEW u \in Sagas, NEW ph \in SideEffects, Apply(u, ph)
      PROVE  Untouched(s) \/ HostApplies(s)
  <2>1. CASE u = s
    BY <1>4, <2>1 DEF HostApplies, Apply
  <2>2. CASE u # s
    BY <1>4, <2>2 DEF Untouched, SameHosts, Apply, IInv, TypeOK
  <2> QED
    BY <2>1, <2>2
<1>5. ASSUME NEW u \in Sagas, NEW ph \in SideEffects, Lose(u, ph)
      PROVE  Untouched(s)
  BY <1>1, <1>5 DEF Lose
<1>6. ASSUME NEW p \in Procs, BeginList(p) \/ (\E u \in Sagas : Load(p, u))
      PROVE  Untouched(s)
  BY <1>1, <1>6 DEF BeginList, Load, world
<1>7. ASSUME NEW p \in Procs,
             \/ ResumeReturns(p) \/ ValidateAccepts(p) \/ ReconcileApplied(p)
             \/ ReconcileNotApplied(p) \/ DrainExpires(p)
      PROVE  Untouched(s)
  BY <1>1, <1>7 DEF ResumeReturns, ValidateAccepts, ReconcileApplied,
     ReconcileNotApplied, DrainExpires, world
<1>8. ASSUME NEW p \in Procs,
             \/ Execute(p) \/ ExecuteReturns(p) \/ ExecuteFails(p)
             \/ SaveRefused(p)
      PROVE  Untouched(s)
  BY <1>1, <1>8 DEF Execute, ExecuteReturns, ExecuteFails, SaveRefused, world
<1>9. ASSUME NEW p \in Procs,
             \/ ValidateConflicts(p) \/ ValidateFails(p) \/ ReconcileUnknown(p)
             \/ Crash(p)
      PROVE  Untouched(s)
  BY <1>1, <1>9 DEF ValidateConflicts, ValidateFails, ReconcileUnknown, Crash,
     world
<1>10. ASSUME Tick \/ StepBack PROVE Untouched(s)
  BY <1>10 DEF Tick, StepBack, Untouched, SameHosts, IInv, TypeOK
<1>11. ASSUME UNCHANGED vars PROVE Untouched(s)
  BY <1>1, <1>11 DEF vars
<1>12. ASSUME NEW p \in Procs, Continue(p) \/ Disturb(p)
       PROVE  Untouched(s) \/ Begins(s) \/ Saves(s)
  BY <1>2, <1>3, <1>7, <1>8, <1>9, <1>12 DEF Continue, Disturb
<1> QED
  BY <1>4, <1>5, <1>6, <1>10, <1>11, <1>12 DEF Next

(* Once the publication is recorded its drain deadline never moves, and a  *)
(* finished record is final.                                               *)
THEOREM DeadlineNeverMoves == Spec => DeadlineStable
<1>1. ASSUME IInv, IInv', [Next]_vars, NEW s \in Sagas
      PROVE  /\ rec[s].deadline > 0 =>
                  /\ rec'[s].deadline = rec[s].deadline
                  /\ rec'[s].pubAt = effAt'[s]
             /\ Stored(s) /\ Finished(rec[s]) => rec'[s] = rec[s]
  <2>1. rec[s] \in Records /\ rec'[s] \in Records
    BY <1>1 DEF IInv, TypeOK
  <2>2. RecInv(s) /\ RecInv(s)'
    BY <1>1 DEF IInv
  <2>3. rec[s].deadline > 0 => Stored(s) /\ rec[s].phase >= Drain
    BY <2>1, <2>2 DEF RecInv, NoRecord, ValidRecord, phaseBeforePublic, Records
  <2>4. rec'[s].phase >= Drain => rec'[s].pubAt = effAt'[s]
    BY <2>2 DEF RecInv
  <2>5. CASE rec'[s] = rec[s]
    BY <2>3, <2>4, <2>5
  <2>6. CASE Begins(s)
    BY <2>3, <2>6 DEF Begins
  <2>7. CASE Saves(s)
    <3>1. Stored(s) /\ ~Finished(rec[s]) /\ Successor(s, rec[s], rec'[s])
      BY <2>7 DEF Saves
    <3>2. rec[s].deadline > 0 => /\ rec'[s].deadline = rec[s].deadline
                                 /\ rec'[s].phase >= Drain
      BY <2>1, <2>3, <3>1 DEF Successor, StaysAt, MovesOn, Records
    <3> QED
      BY <2>4, <3>1, <3>2
  <2> QED
    BY <1>1, <2>5, <2>6, <2>7, StepOfSaga DEF Untouched, HostApplies
<1>2. IInv /\ IInv' /\ [Next]_vars =>
        [\A s \in Sagas :
           /\ rec[s].deadline > 0 =>
                rec'[s].deadline = rec[s].deadline /\ rec'[s].pubAt = effAt'[s]
           /\ Stored(s) /\ Finished(rec[s]) => rec'[s] = rec[s]]_vars
  BY <1>1
<1> QED
  BY <1>2, Inductive, PTL DEF Spec, DeadlineStable

-----------------------------------------------------------------------------
(* Refinement: the mapped variables of the followed operation              *)

outcomeBar ==
  CASE ~Stored(Followed) -> "absent"
    [] rec[Followed].state = "failed" -> "failed"
    [] rec[Followed].phase = Complete -> "completed"
    [] OTHER -> "running"
expiredBar == rec[Followed].deadline > 0 /\ latest >= rec[Followed].deadline

(* The outcome a caller sees, by the status of the record. *)
LEMMA OutcomeValues ==
  ASSUME IInv
  PROVE  /\ ~Stored(Followed) => outcomeBar = "absent"
         /\ Stored(Followed) /\ rec[Followed].state = "failed" =>
              outcomeBar = "failed" /\ rec[Followed].phase = 1
         /\ Stored(Followed) /\ rec[Followed].state # "failed" =>
              outcomeBar = IF rec[Followed].phase = 8 THEN "completed"
                           ELSE "running"
<1>1. ~Stored(Followed) => rec[Followed].state = "pending" /\ rec[Followed].phase = 1
  BY DEF IInv, RecInv, NoRecord
<1>2. rec[Followed].state = "failed" => rec[Followed].phase = 1
  BY DEF IInv, RecInv
<1> QED
  BY <1>1, <1>2 DEF outcomeBar

(* The followed operation begins absent and untouched.                     *)
LEMMA InitRefines == Init => Abstract!Init
<1> SUFFICES ASSUME Init PROVE Abstract!Init
  OBVIOUS
<1>1. rec[Followed] = NoRecord /\ effects[Followed] = {}
  BY DEF Init
<1>2. ~Stored(Followed)
  BY <1>1 DEF Stored, NoRecord
<1>3. outcomeBar = "absent"
  BY <1>2, InitIInv, OutcomeValues
<1> QED
  BY <1>1, <1>3 DEF Abstract!Init, NoRecord, outcomeBar

(* Every step is a step of the abstract operation or leaves it alone.      *)
LEMMA NextRefines ==
  ASSUME IInv, IInv', [Next]_vars
  PROVE  [Abstract!Next]_(Abstract!vars)
<1> DEFINE F == Followed
<1>1. /\ rec[F] \in Records /\ rec'[F] \in Records /\ RecInv(F) /\ RecInv(F)'
      /\ effects[F] \subseteq SideEffects /\ latest \in Nat /\ latest' \in Nat
  BY DEF IInv, TypeOK
<1>2. /\ rec[F].phase \in Phases /\ rec'[F].phase \in Phases
      /\ rec[F].deadline \in Nat /\ rec'[F].deadline \in Nat
  BY <1>1 DEF Records, Times
<1>3. rec[F].deadline > 0 => rec[F].phase >= Drain
  BY <1>1 DEF RecInv, NoRecord, ValidRecord, phaseBeforePublic, Records
<1>4. expiredBar \in BOOLEAN /\ expiredBar' \in BOOLEAN
  BY DEF expiredBar
<1>5. CASE Untouched(F)
  <2>1. rec'[F] = rec[F] /\ effects'[F] = effects[F] /\ latest' >= latest
    BY <1>5 DEF Untouched, SameHosts
  <2>2. outcomeBar' = outcomeBar
    BY <2>1 DEF outcomeBar, Stored
  <2>3. expiredBar => expiredBar'
    BY <1>1, <1>2, <2>1 DEF expiredBar
  <2>4. CASE expiredBar' = expiredBar
    BY <2>1, <2>2, <2>4 DEF Abstract!vars, outcomeBar, expiredBar
  <2>5. CASE ~expiredBar /\ expiredBar'
    <3>1. rec[F].phase >= 6
      BY <1>3, <2>1, <2>5 DEF expiredBar
    <3> QED
      BY <2>1, <2>2, <2>5, <3>1
         DEF Abstract!Next, Abstract!Expire, Abstract!Drain, outcomeBar, expiredBar
  <2> QED
    BY <1>4, <2>3, <2>4, <2>5
<1>6. CASE HostApplies(F)
  <2>1. PICK ph \in SideEffects : Apply(F, ph)
    BY <1>6 DEF HostApplies
  <2>2. /\ rec' = rec /\ latest' = latest
        /\ effects'[F] = effects[F] \cup {ph} /\ ph \in inflight[F]
    BY <1>6, <2>1 DEF HostApplies, Apply, IInv, TypeOK
  <2>3. Stored(F) /\ ph <= rec[F].phase /\ rec[F].state # "failed"
    BY <1>1, <2>2 DEF RecInv
  <2>4. outcomeBar' = outcomeBar /\ expiredBar' = expiredBar
    BY <2>2 DEF outcomeBar, expiredBar, Stored
  <2>5. outcomeBar # "absent" /\ outcomeBar # "failed"
    BY <2>3, OutcomeValues
  <2>6. CASE ph = rec[F].phase \/ (ph = 6 /\ rec[F].phase > 6)
    <3>1. Abstract!Apply(ph)
      BY <2>2, <2>4, <2>5, <2>6
         DEF Abstract!Apply, Abstract!Drain, outcomeBar, expiredBar
    <3> QED
      BY <3>1 DEF Abstract!Next
  <2>7. CASE ph < rec[F].phase /\ ph # 6
    <3>1. effects'[F] = effects[F]
      BY <1>1, <2>2, <2>3, <2>7 DEF RecInv, Behind
    <3> QED
      BY <2>2, <2>4, <3>1 DEF Abstract!vars, outcomeBar, expiredBar
  <2> QED
    BY <1>2, <2>3, <2>6, <2>7
<1>7. CASE Begins(F)
  <2>1. PICK t \in 1 .. MaxTime : rec'[F] = InitialRecord(t)
    BY <1>7 DEF Begins
  <2>2. /\ rec'[F].rev = 1 /\ rec'[F].phase = 1 /\ rec'[F].state = "pending"
        /\ rec'[F].deadline = 0
    BY <2>1 DEF InitialRecord, NoRecord
  <2>3. ~Stored(F) /\ effects'[F] = effects[F]
        /\ rec[F].phase = 1 /\ rec[F].deadline = 0
    BY <1>1, <1>7 DEF Begins, SameHosts, RecInv, NoRecord
  <2>4. Stored(F)'
    BY <2>2 DEF Stored
  <2>5. outcomeBar = "absent" /\ outcomeBar' = "running"
    <3>1. outcomeBar = "absent"
      BY <2>3, OutcomeValues
    <3>2. outcomeBar' = "running"
      BY <2>2, <2>4 DEF outcomeBar
    <3> QED
      BY <3>1, <3>2
  <2>6. expiredBar' = expiredBar
    BY <2>2, <2>3 DEF expiredBar
  <2>7. Abstract!Begin
    BY <2>2, <2>3, <2>5, <2>6 DEF Abstract!Begin, outcomeBar, expiredBar
  <2> QED
    BY <2>7 DEF Abstract!Next
<1>8. CASE Saves(F)
  <2>1. /\ Stored(F) /\ ~Finished(rec[F]) /\ effects'[F] = effects[F]
        /\ latest' = latest /\ Successor(F, rec[F], rec'[F])
    BY <1>8 DEF Saves, SameHosts
  <2>2. /\ ValidRecord(rec[F]) /\ rec[F].phase \in 1 .. 7
        /\ rec[F].state # "failed"
    BY <1>1, <2>1, UnfinishedPhase DEF RecInv, Finished
  <2>3. Stored(F)'
    BY <1>1, <2>1 DEF Successor, ValidRecord, Stored
  <2>4. outcomeBar = "running"
    BY <2>1, <2>2, OutcomeValues
  <2>5. CASE StaysAt(rec[F], rec'[F])
    <3>1. /\ rec'[F].phase = rec[F].phase /\ rec'[F].deadline = rec[F].deadline
          /\ rec'[F].state = "failed" => rec[F].phase = 1
      BY <2>5 DEF StaysAt
    <3>2. expiredBar' = expiredBar
      BY <2>1, <3>1 DEF expiredBar
    <3>3. CASE rec'[F].state = "failed"
      <4>1. effects[F] = {}
        BY <1>1, <3>1, <3>3 DEF RecInv
      <4>2. outcomeBar' = "failed"
        BY <2>2, <2>3, <3>1, <3>3 DEF outcomeBar
      <4>3. Abstract!Fail
        BY <2>1, <2>4, <3>1, <3>2, <3>3, <4>1, <4>2
           DEF Abstract!Fail, outcomeBar, expiredBar
      <4> QED
        BY <4>3 DEF Abstract!Next
    <3>4. CASE rec'[F].state # "failed"
      <4>1. outcomeBar' = "running"
        BY <2>2, <2>3, <3>1, <3>4 DEF outcomeBar
      <4> QED
        BY <2>1, <2>4, <3>1, <3>2, <4>1 DEF Abstract!vars, outcomeBar, expiredBar
    <3> QED
      BY <3>3, <3>4
  <2>6. CASE MovesOn(F, rec[F], rec'[F])
    <3>1. /\ rec'[F].phase = rec[F].phase + 1 /\ rec'[F].state # "failed"
          /\ Evidence(F, rec[F])
          /\ rec[F].phase # 5 => rec'[F].deadline = rec[F].deadline
      BY <2>6 DEF MovesOn
    <3>2. \/ rec[F].phase = 1 \/ rec[F].phase \in effects[F]
          \/ rec[F].phase = 6 /\ expiredBar
      <4>1. rec[F].phase = 6 => rec[F].deadline > 0
        BY <1>1, <2>2 DEF ValidRecord, phaseBeforePublic, Records, Times
      <4> QED
        BY <3>1, <4>1 DEF Evidence, expiredBar
    <3>3. outcomeBar' = IF rec'[F].phase = 8 THEN "completed" ELSE "running"
      BY <2>3, <3>1 DEF outcomeBar
    <3>4. rec'[F].phase # 6 => expiredBar' = expiredBar
      BY <1>2, <2>1, <3>1 DEF expiredBar
    <3>5. Abstract!Advance
      BY <1>4, <2>1, <2>2, <2>4, <3>1, <3>2, <3>3, <3>4
         DEF Abstract!Advance, Abstract!Drain, outcomeBar, expiredBar
    <3> QED
      BY <3>5 DEF Abstract!Next
  <2> QED
    BY <2>1, <2>5, <2>6 DEF Successor
<1> QED
  BY <1>5, <1>6, <1>7, <1>8, StepOfSaga

(* The coordinators, the store and the hosts implement the abstract        *)
(* operation, for every operation and any number of coordinators.          *)
THEOREM SagaRefinement == Spec => ImplementsAbstract
<1>1. Init => Abstract!Init
  BY InitRefines
<1>2. IInv /\ IInv' /\ [Next]_vars => [Abstract!Next]_(Abstract!vars)
  BY NextRefines
<1> QED
  BY <1>1, <1>2, Inductive, PTL DEF Spec, ImplementsAbstract, Abstract!Spec
=============================================================================
