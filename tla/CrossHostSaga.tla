---------------------------- MODULE CrossHostSaga ----------------------------
(***************************************************************************)
(* The cross-host saga coordinator: a change that spans the gateway and    *)
(* one private node, driven through eight persisted phases.                *)
(*                                                                         *)
(*   internal/operations/cross_host_saga.go   Begin, Resume, the record    *)
(*                                                                         *)
(* Any number of coordinator processes run Begin and Resume.  They share   *)
(* the compare-and-swap store (rec) and the two hosts (effects), and       *)
(* nothing else.  A command to a host is a message: it may be applied      *)
(* after the coordinator has given up on it, or never.  The store and the  *)
(* component adapter are interfaces here; they are modelled from the       *)
(* contract the coordinator relies on.                                     *)
(***************************************************************************)
EXTENDS Integers, FiniteSets

CONSTANTS
  Sagas,        \* operation IDs model.AllocateUUID can return
  Followed,     \* the operation the refinement follows, any one of them
  NoSaga,       \* "no operation"
  Procs,        \* coordinator processes
  DrainTime,    \* CrossHostSagaIntent.Drain, in seconds
  MaxTime,      \* bound: the wall clock stops here
  MaxSkew,      \* the gateway's clock is at most this far ahead
  MaxFaults     \* bound: failures injected in one behaviour

ASSUME SagaAssumptions ==
  /\ Followed \in Sagas /\ NoSaga \notin Sagas
  /\ DrainTime \in Nat /\ MaxTime \in Nat /\ MaxTime >= 2
  /\ MaxSkew \in Nat
  /\ MaxFaults \in Nat

(* CrossHostSagaPhase, in the order advance() walks them.                  *)
Validate        == 1
Stage           == 2
ActivatePrivate == 3
ConfirmPrivate  == 4
PublishPublic   == 5
Drain           == 6
Finalize        == 7
Complete        == 8
Phases      == Validate .. Complete
SideEffects == Stage .. Finalize
phaseBeforePublic(ph) == ph <= PublishPublic

States == {"pending", "staging", "active", "degraded", "failed", "completed"}

(* maximumCrossHostResumeSteps                                             *)
MaxResumeSteps == 8

(* Host generations, counted from the intent's expected ones; the desired  *)
(* ones are three ahead.  Which phase moves which host is the adapter's    *)
(* business; a conforming one only moves forward and ends at the desired.  *)
Hosts   == {"gateway", "node"}
Desired == 3
GenerationsAfter(ph) ==
  [h \in Hosts |->
     IF h = "gateway" THEN (IF ph >= PublishPublic THEN 3
                            ELSE IF ph = ConfirmPrivate THEN 2 ELSE 1)
                      ELSE (IF ph = Finalize THEN 3
                            ELSE IF ph >= ActivatePrivate THEN 2 ELSE 1)]

Times == 0 .. (MaxTime + DrainTime)

(* CrossHostSagaRecord, the persisted operation.  rev 0 is "no record";    *)
(* UpdatedAt is kept as its comparison with CreatedAt, the only use of it. *)
Records ==
  [rev : Nat, phase : Phases, state : States, err : {0} \cup Phases,
   gen : [Hosts -> 0 .. Desired],
   priv : BOOLEAN, pub : BOOLEAN, drained : BOOLEAN,
   pubAt : Times, deadline : Times, created : Times, ordered : BOOLEAN]

NoRecord ==
  [rev |-> 0, phase |-> Validate, state |-> "pending", err |-> 0,
   gen |-> [h \in Hosts |-> 0], priv |-> FALSE, pub |-> FALSE,
   drained |-> FALSE, pubAt |-> 0, deadline |-> 0, created |-> 0,
   ordered |-> TRUE]

(* The record Begin creates.                                               *)
InitialRecord(now) == [NoRecord EXCEPT !.rev = 1, !.created = now]

VARIABLES
  rec,       \* the store: operation ID -> record
  proc,      \* the coordinator processes
  effects,   \* phases whose effect the hosts have applied
  inflight,  \* commands sent and neither applied nor lost
  effAt,     \* when the public route took effect (gateway clock)
  clock,     \* the coordinators' wall clock, whole seconds
  latest,    \* the latest time that clock has shown
  faults     \* failures injected so far

vars == <<rec, proc, effects, inflight, effAt, clock, latest, faults>>
world == <<effects, inflight, effAt, clock, latest>>

PCs == {"idle", "create", "loop", "execute", "await", "save"}
ProcStates ==
  [pc : PCs, sid : Sagas \cup {NoSaga}, mine : Records, next : Records,
   cont : {"idle", "loop"}, steps : 0 .. MaxResumeSteps]

Idle == [pc |-> "idle", sid |-> NoSaga, mine |-> NoRecord,
         next |-> NoRecord, cont |-> "idle", steps |-> 0]

Fault == faults < MaxFaults /\ faults' = faults + 1

-----------------------------------------------------------------------------
(* The record and its evidence                                             *)

Stored(s) == rec[s].rev > 0

(* CrossHostSagaRecord.Validate.  The identity and intent parts hold of    *)
(* every record Begin can build and never change.                          *)
ValidRecord(r) ==
  /\ r.rev > 0
  /\ r.ordered
  /\ (r.state \in {"degraded", "failed"}) <=> (r.err = r.phase)
  /\ r.err \in {0, r.phase}
  /\ IF phaseBeforePublic(r.phase)
     THEN ~r.pub /\ r.pubAt = 0 /\ r.deadline = 0 /\ ~r.drained
     ELSE r.pub /\ r.pubAt > 0 /\ r.deadline = r.pubAt + DrainTime
  /\ r.drained <=> r.phase \in {Finalize, Complete}
  /\ r.priv <=> r.phase >= PublishPublic
  /\ r.state = "pending" => r.phase = Validate
  /\ r.state = "staging" => r.phase \in Stage .. PublishPublic
  /\ r.state = "active" => r.phase \in {Drain, Finalize}
  /\ r.state = "completed" =>
       r.phase = Complete /\ \A h \in Hosts : r.gen[h] = Desired
  /\ r.state \in {"degraded", "failed"} => r.phase # Complete

(* The receipt a conforming adapter returns for an applied phase.          *)
Receipt(s, ph) ==
  [phase |-> ph, gen |-> GenerationsAfter(ph),
   priv |-> ph >= ConfirmPrivate, pub |-> ph >= PublishPublic,
   drained |-> ph >= Drain,
   at |-> IF ph = PublishPublic THEN effAt[s] ELSE 0]

(* The receipt the coordinator writes itself once the deadline is past.    *)
ExpiredDrainReceipt(r) ==
  [phase |-> r.phase, gen |-> r.gen, priv |-> TRUE, pub |-> TRUE,
   drained |-> TRUE, at |-> 0]

(* Variant: receipts are not checked against the record.                   *)
AnyReceiptValid(r, rc, now) == TRUE

(* CrossHostStepReceipt.Validate against the record it answers.            *)
ReceiptValid(r, rc, now) ==
  /\ rc.phase = r.phase
  /\ \A h \in Hosts : rc.gen[h] \in r.gen[h] .. Desired
  /\ rc.priv <=> r.phase \in ConfirmPrivate .. Finalize
  /\ rc.pub <=> r.phase \in PublishPublic .. Finalize
  /\ rc.drained <=> r.phase \in Drain .. Finalize
  /\ IF r.phase = PublishPublic THEN rc.at > 0 /\ rc.at <= now ELSE rc.at = 0
  /\ r.phase = Finalize => \A h \in Hosts : rc.gen[h] = Desired

StateOf(ph) ==
  IF ph <= PublishPublic THEN "staging"
  ELSE IF ph <= Finalize THEN "active" ELSE "completed"

(* Variant: the drain window starts when the publication is observed.      *)
AdvanceFromNow(r, rc, now) ==
  LET carried == IF r.phase = Validate THEN r
                 ELSE [r EXCEPT !.gen = rc.gen, !.priv = rc.priv,
                                !.pub = rc.pub, !.drained = rc.drained]
  IN  [carried EXCEPT
         !.rev = @ + 1, !.ordered = (now >= r.created), !.err = 0,
         !.phase = @ + 1, !.state = StateOf(r.phase + 1),
         !.pubAt = IF r.phase = PublishPublic THEN now ELSE @,
         !.deadline = IF r.phase = PublishPublic THEN now + DrainTime ELSE @]

(* advance: the record after r.phase, without its last Validate.  Leaving  *)
(* the validate phase needs no receipt and copies nothing from one.        *)
AdvanceFrom(r, rc, now) ==
  LET carried == IF r.phase = Validate THEN r
                 ELSE [r EXCEPT !.gen = rc.gen, !.priv = rc.priv,
                                !.pub = rc.pub, !.drained = rc.drained]
  IN  [carried EXCEPT
         !.rev = @ + 1, !.ordered = (now >= r.created), !.err = 0,
         !.phase = @ + 1, !.state = StateOf(r.phase + 1),
         !.pubAt = IF r.phase = PublishPublic THEN rc.at ELSE @,
         !.deadline = IF r.phase = PublishPublic THEN rc.at + DrainTime
                      ELSE @]

CanAdvance(r, rc, now) ==
  /\ r.phase = Validate \/ ReceiptValid(r, rc, now)
  /\ ValidRecord(AdvanceFrom(r, rc, now))

Erred(r, state, now) ==
  [r EXCEPT !.rev = @ + 1, !.state = state, !.err = r.phase,
            !.ordered = (now >= r.created)]

-----------------------------------------------------------------------------
(* What every step of Resume ends with                                     *)

Set(p, state) == proc' = [proc EXCEPT ![p] = state]

(* Save(before.Revision, after) comes next; cont is what follows it.       *)
ToSave(p, after, cont) ==
  [proc[p] EXCEPT !.pc = "save", !.next = after, !.cont = cont]

(* markDegraded persists the failure once and returns; a record that would *)
(* not validate is not written.                                            *)
markDegraded(p) ==
  LET r == proc[p].mine
      d == Erred(r, "degraded", clock)
  IN  Set(p, IF (r.state = "degraded" /\ r.err = r.phase) \/ ~ValidRecord(d)
             THEN Idle ELSE ToSave(p, d, "idle"))

AdvanceOrDegrade(p, rc) ==
  LET r == proc[p].mine
  IN  IF CanAdvance(r, rc, clock)
      THEN Set(p, ToSave(p, AdvanceFrom(r, rc, clock), "loop"))
      ELSE markDegraded(p)

-----------------------------------------------------------------------------
(* Begin                                                                   *)

(* Begin up to CreateCrossHostSaga: a stored operation of this request is  *)
(* returned as it is (no step), otherwise a fresh ID is allocated.         *)
BeginList(p) ==
  /\ proc[p].pc = "idle"
  /\ \A s \in Sagas : ~Stored(s)
  /\ \E s \in Sagas :
        /\ \A q \in Procs : proc[q].sid # s
        /\ Set(p, [Idle EXCEPT !.pc = "create", !.sid = s,
                               !.next = InitialRecord(clock)])
  /\ UNCHANGED <<rec, world, faults>>

(* CreateCrossHostSaga commits; whether its acknowledgement arrives or not,*)
(* Begin returns and the operation is resumed by its ID.                   *)
BeginCreate(p) ==
  /\ proc[p].pc = "create"
  /\ ~Stored(proc[p].sid)
  /\ rec' = [rec EXCEPT ![proc[p].sid] = proc[p].next]
  /\ Set(p, Idle)
  /\ UNCHANGED <<world, faults>>

-----------------------------------------------------------------------------
(* Resume                                                                  *)

Load(p, s) ==
  /\ proc[p].pc = "idle"
  /\ Stored(s)
  /\ Set(p, [Idle EXCEPT !.pc = "loop", !.sid = s, !.mine = rec[s]])
  /\ UNCHANGED <<rec, world, faults>>

Finished(r) == r.state = "failed" \/ (r.state = "completed" /\ r.phase = Complete)

(* The head of the loop: a terminal or invalid record, or the step bound.  *)
ResumeReturns(p) ==
  /\ proc[p].pc = "loop"
  /\ \/ proc[p].steps = MaxResumeSteps
     \/ ~ValidRecord(proc[p].mine)
     \/ Finished(proc[p].mine)
  /\ Set(p, Idle)
  /\ UNCHANGED <<rec, world, faults>>

InLoop(p) ==
  /\ proc[p].pc = "loop"
  /\ proc[p].steps < MaxResumeSteps
  /\ ValidRecord(proc[p].mine)
  /\ ~Finished(proc[p].mine)

(* validatePhase: accepted; a definitive conflict (markFailed); any other  *)
(* error (markDegraded).                                                   *)
ValidateAccepts(p) ==
  LET n == AdvanceFrom(proc[p].mine, Receipt(proc[p].sid, Validate), clock)
  IN  /\ InLoop(p) /\ proc[p].mine.phase = Validate
      /\ Set(p, IF ValidRecord(n) THEN ToSave(p, n, "loop") ELSE Idle)
      /\ UNCHANGED <<rec, world, faults>>

ValidateConflicts(p) ==
  LET f == Erred(proc[p].mine, "failed", clock)
  IN  /\ InLoop(p) /\ proc[p].mine.phase = Validate
      /\ Fault
      /\ Set(p, IF ValidRecord(f) THEN ToSave(p, f, "idle") ELSE Idle)
      /\ UNCHANGED <<rec, world>>

ValidateFails(p) ==
  /\ InLoop(p) /\ proc[p].mine.phase = Validate
  /\ Fault
  /\ markDegraded(p)
  /\ UNCHANGED <<rec, world>>

(* resumeSideEffect: what ReconcileCrossHost answers decides.              *)
ReconcileApplied(p) ==
  LET s == proc[p].sid  ph == proc[p].mine.phase
  IN  /\ InLoop(p) /\ ph \in effects[s]
      /\ AdvanceOrDegrade(p, Receipt(s, ph))
      /\ UNCHANGED <<rec, world, faults>>

ReconcileUnknown(p) ==
  /\ InLoop(p) /\ proc[p].mine.phase # Validate
  /\ Fault
  /\ markDegraded(p)
  /\ UNCHANGED <<rec, world>>

(* Positive absence is the only evidence that permits execution ...        *)
ReconcileNotApplied(p) ==
  LET s == proc[p].sid  r == proc[p].mine
  IN  /\ InLoop(p) /\ r.phase \in SideEffects \ effects[s]
      /\ ~(r.phase = Drain /\ clock >= r.deadline)
      /\ Set(p, [proc[p] EXCEPT !.pc = "execute"])
      /\ UNCHANGED <<rec, world, faults>>

(* Variant: an expired drain waits for the host like any other phase.      *)
DrainExpiresNever(p) == FALSE /\ UNCHANGED vars

(* ... and past the drain deadline the coordinator records the drain       *)
(* itself, without invoking another wait.                                  *)
DrainExpires(p) ==
  LET s == proc[p].sid  r == proc[p].mine
  IN  /\ InLoop(p) /\ r.phase = Drain /\ r.phase \notin effects[s]
      /\ clock >= r.deadline
      /\ AdvanceOrDegrade(p, ExpiredDrainReceipt(r))
      /\ UNCHANGED <<rec, world, faults>>

(* executePhase: the command goes out ...                                  *)
Execute(p) ==
  LET s == proc[p].sid  ph == proc[p].mine.phase
  IN  /\ proc[p].pc = "execute"
      /\ inflight' = [inflight EXCEPT ![s] = @ \cup {ph}]
      /\ Set(p, [proc[p] EXCEPT !.pc = "await"])
      /\ UNCHANGED <<rec, effects, effAt, clock, latest, faults>>

(* ... and its receipt comes back.  A receipt of another phase is a        *)
(* duplicate or misrouted answer.                                          *)
ExecuteReturns(p) ==
  LET s == proc[p].sid
  IN  /\ proc[p].pc = "await"
      /\ \E ph \in effects[s] :
            /\ IF ph = proc[p].mine.phase THEN UNCHANGED faults ELSE Fault
            /\ AdvanceOrDegrade(p, Receipt(s, ph))
      /\ UNCHANGED <<rec, world>>

(* The answer is lost, or the step's context expires (for a drain, at the  *)
(* drain deadline) while the command may still be on its way.              *)
ExecuteFails(p) ==
  LET s == proc[p].sid  r == proc[p].mine
  IN  /\ proc[p].pc = "await"
      /\ IF \/ r.phase \notin effects[s] \cup inflight[s]
            \/ r.phase = Drain /\ clock >= r.deadline
         THEN UNCHANGED faults ELSE Fault
      /\ markDegraded(p)
      /\ UNCHANGED <<rec, world>>

(* Variant: no compare-and-swap.                                           *)
SaveUnguarded(p) ==
  /\ proc[p].pc = "save"
  /\ rec' = [rec EXCEPT ![proc[p].sid] = proc[p].next]
  /\ Set(p, IF proc[p].cont = "idle" THEN Idle
            ELSE [proc[p] EXCEPT !.pc = "loop", !.mine = proc[p].next,
                     !.next = NoRecord, !.cont = "idle", !.steps = @ + 1])
  /\ UNCHANGED <<world, faults>>

(* SaveCrossHostSaga succeeds: nobody has written since this record was    *)
(* read.  An advance goes on with the next phase, an error record returns. *)
Save(p) ==
  /\ proc[p].pc = "save"
  /\ rec[proc[p].sid].rev = proc[p].mine.rev
  /\ rec' = [rec EXCEPT ![proc[p].sid] = proc[p].next]
  /\ Set(p, IF proc[p].cont = "idle" THEN Idle
            ELSE [proc[p] EXCEPT !.pc = "loop", !.mine = proc[p].next,
                     !.next = NoRecord, !.cont = "idle", !.steps = @ + 1])
  /\ UNCHANGED <<world, faults>>

(* Save commits and its acknowledgement is lost: Resume returns uncertain. *)
SaveAckLost(p) ==
  /\ proc[p].pc = "save"
  /\ rec[proc[p].sid].rev = proc[p].mine.rev
  /\ Fault
  /\ rec' = [rec EXCEPT ![proc[p].sid] = proc[p].next]
  /\ Set(p, Idle)
  /\ UNCHANGED world

(* Variant: a refused save is ignored and the next phase begins.           *)
SaveRefusedIgnored(p) ==
  /\ proc[p].pc = "save"
  /\ IF rec[proc[p].sid].rev = proc[p].mine.rev THEN Fault
     ELSE UNCHANGED faults
  /\ Set(p, IF proc[p].cont = "idle" THEN Idle
            ELSE [proc[p] EXCEPT !.pc = "loop", !.mine = proc[p].next,
                     !.next = NoRecord, !.cont = "idle", !.steps = @ + 1])
  /\ UNCHANGED <<rec, world>>

(* Save is refused, by the revision check or by the store.                 *)
SaveRefused(p) ==
  /\ proc[p].pc = "save"
  /\ IF rec[proc[p].sid].rev = proc[p].mine.rev THEN Fault
     ELSE UNCHANGED faults
  /\ Set(p, Idle)
  /\ UNCHANGED <<rec, world>>

(* The process dies, or its caller's context is cancelled.                 *)
Crash(p) ==
  /\ proc[p].pc # "idle"
  /\ Fault
  /\ Set(p, Idle)
  /\ UNCHANGED <<rec, world>>

-----------------------------------------------------------------------------
(* The hosts and the clock                                                 *)

(* A host applies a command; applying it again changes nothing (commands   *)
(* are idempotent by operation ID and phase).                              *)
Apply(s, ph) ==
  /\ ph \in inflight[s]
  /\ inflight' = [inflight EXCEPT ![s] = @ \ {ph}]
  /\ effects' = [effects EXCEPT ![s] = @ \cup {ph}]
  /\ IF ph = PublishPublic /\ ph \notin effects[s]
     THEN \E skew \in 0 .. MaxSkew :
            /\ clock + skew <= MaxTime
            /\ effAt' = [effAt EXCEPT ![s] = clock + skew]
     ELSE UNCHANGED effAt
  /\ UNCHANGED <<rec, proc, clock, latest, faults>>

Lose(s, ph) ==
  /\ ph \in inflight[s]
  /\ Fault
  /\ inflight' = [inflight EXCEPT ![s] = @ \ {ph}]
  /\ UNCHANGED <<rec, proc, effects, effAt, clock, latest>>

Tick ==
  /\ clock < MaxTime
  /\ clock' = clock + 1
  /\ latest' = IF clock' > latest THEN clock' ELSE latest
  /\ UNCHANGED <<rec, proc, effects, inflight, effAt, faults>>

(* The wall clock is set back (time.Now truncated to seconds has no        *)
(* monotonic reading).                                                     *)
StepBack ==
  /\ clock > 1
  /\ Fault
  /\ clock' = clock - 1
  /\ UNCHANGED <<rec, proc, effects, inflight, effAt, latest>>

-----------------------------------------------------------------------------
StartTime == 2

Init ==
  /\ rec = [s \in Sagas |-> NoRecord]
  /\ proc = [p \in Procs |-> Idle]
  /\ effects = [s \in Sagas |-> {}]
  /\ inflight = [s \in Sagas |-> {}]
  /\ effAt = [s \in Sagas |-> 0]
  /\ clock = StartTime /\ latest = StartTime
  /\ faults = 0

(* One step of a process that is inside Begin or Resume.                   *)
Continue(p) ==
  \/ BeginCreate(p) \/ ResumeReturns(p)
  \/ ValidateAccepts(p) \/ ReconcileApplied(p) \/ ReconcileNotApplied(p)
  \/ DrainExpires(p) \/ Execute(p) \/ ExecuteReturns(p) \/ ExecuteFails(p)
  \/ Save(p) \/ SaveRefused(p)

Disturb(p) ==
  \/ ValidateConflicts(p) \/ ValidateFails(p) \/ ReconcileUnknown(p)
  \/ SaveAckLost(p) \/ Crash(p)

Next ==
  \/ \E p \in Procs :
        BeginList(p) \/ (\E s \in Sagas : Load(p, s)) \/ Continue(p) \/ Disturb(p)
  \/ \E s \in Sagas, ph \in SideEffects : Apply(s, ph) \/ Lose(s, ph)
  \/ Tick \/ StepBack

Spec == Init /\ [][Next]_vars

(* Fairness: commands that are not lost arrive, time passes, and a process *)
(* that runs Resume takes its next step.  Load stands for the operator (or *)
(* a supervisor) running `apply` again; nothing in the code retries.       *)
FairSpec ==
  /\ Spec
  /\ \A p \in Procs :
       WF_vars(Continue(p)) /\ WF_vars(\E s \in Sagas : Load(p, s))
  /\ \A s \in Sagas, ph \in SideEffects : WF_vars(Apply(s, ph))
  /\ WF_vars(Tick)

-----------------------------------------------------------------------------
(* Properties                                                              *)

TypeOK ==
  /\ rec \in [Sagas -> Records]
  /\ proc \in [Procs -> ProcStates]
  /\ effects \in [Sagas -> SUBSET SideEffects]
  /\ inflight \in [Sagas -> SUBSET SideEffects]
  /\ effAt \in [Sagas -> Times]
  /\ clock \in 1 .. MaxTime /\ latest \in 1 .. MaxTime
  /\ faults \in 0 .. MaxFaults

(* Every stored record passes record.Validate, whatever the receipts, the  *)
(* clock and the order of writers: one that did not would be refused by    *)
(* every later Resume and Begin, and the operation could never be settled. *)
StoredRecordValid == \A s \in Sagas : Stored(s) => ValidRecord(rec[s])

(* The record never claims more than the hosts have done: every phase      *)
(* behind it has been applied, or is a drain whose deadline has passed.    *)
Behind(s) == {ph \in SideEffects : ph < rec[s].phase}
RecordBacked ==
  \A s \in Sagas : Stored(s) =>
    \A ph \in Behind(s) :
      ph \in effects[s] \/ (ph = Drain /\ latest >= rec[s].deadline)

(* What is stored can be resumed by anybody: the records are well-formed,  *)
(* valid and true of the hosts.                                            *)
RecordSound == TypeOK /\ StoredRecordValid /\ RecordBacked

(* A terminally failed operation has touched neither host and never will,  *)
(* although another process may have validated it successfully.            *)
FailedUntouched ==
  \A s \in Sagas : Stored(s) /\ rec[s].state = "failed" =>
    effects[s] \cup inflight[s] = {}

(* The hosts never run ahead of the record: a phase is applied or on its   *)
(* way only when the durable record has reached it, so whoever resumes     *)
(* asks about every phase that may have happened.  In particular no public *)
(* route exists before the private side is confirmed, and none of a failed *)
(* operation.                                                              *)
EffectsBehindRecord ==
  /\ \A s \in Sagas : \A ph \in effects[s] \cup inflight[s] :
       Stored(s) /\ ph <= rec[s].phase
  /\ FailedUntouched

(* One request has one operation, as Begin's comment says ("without        *)
(* allocating another identity").  Does not hold: two Begins may both list *)
(* before either creates (README, section 4), so no run lists it.          *)
OneSagaPerRequest == \A s, t \in Sagas : Stored(s) /\ Stored(t) => s = t

(* Once the publication is recorded its drain deadline never moves, so no  *)
(* restart opens a fresh drain window; and a finished record is final.     *)
DeadlineStable ==
  [][\A s \in Sagas :
       /\ rec[s].deadline > 0 =>
            rec'[s].deadline = rec[s].deadline /\ rec'[s].pubAt = effAt'[s]
       /\ Stored(s) /\ Finished(rec[s]) => rec'[s] = rec[s]]_vars

(* Every begun operation completes or definitively fails once the failures *)
(* stop and somebody keeps resuming it.                                    *)
SagaSettles ==
  \A s \in Sagas : Stored(s) ~> (Stored(s) /\ Finished(rec[s]))

(* The followed operation as its two hosts see it.                         *)
Abstract == INSTANCE SagaAbstract WITH
  outcome <- CASE ~Stored(Followed) -> "absent"
               [] rec[Followed].state = "failed" -> "failed"
               [] rec[Followed].phase = Complete -> "completed"
               [] OTHER -> "running",
  phase   <- rec[Followed].phase,
  applied <- effects[Followed],
  expired <- rec[Followed].deadline > 0 /\ latest >= rec[Followed].deadline

(* The coordinators, the store and the hosts together implement the        *)
(* abstract operation, for whichever operation is followed.                *)
ImplementsAbstract == Abstract!Spec

=============================================================================
