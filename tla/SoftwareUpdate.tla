--------------------------- MODULE SoftwareUpdate ---------------------------
(***************************************************************************)
(* `vpnctl update [version]` and `vpnctl update rollback` on one host      *)
(* (internal/lifecycle/update.go, update_rollback.go, update_snapshot.go,  *)
(* release_update.go, update_system.go).                                   *)
(*                                                                         *)
(* Each process runs one command at a time.  A command plans from the      *)
(* stored state and the installed release, stops the gateway controller,   *)
(* keeps a snapshot of the release it leaves, records a pending operation, *)
(* replaces the component files one by one with a health check after each, *)
(* replaces the two metadata files, records the new component manifest,    *)
(* starts the controller again and completes the operation.  A failure     *)
(* undoes the steps in reverse order.                                      *)
(*                                                                         *)
(* A release is a version; component c of version v has content            *)
(* Build[c][v], so that two versions may ship the same file.  The state is *)
(* a generation, the version its component manifest names, the update      *)
(* operations, and the count of writes other commands have made ("other"), *)
(* which stands for everything else the state holds.                       *)
(***************************************************************************)
EXTENDS Integers, Sequences, FiniteSets

CONSTANTS
  Procs,        \* the vpnctl processes that may run an update command
  Commands,     \* the commands they run, of "update" and "rollback"
  Components,   \* the sequence of components, in activation order
  Versions,     \* the releases
  Build,        \* Build[c][v] is the content of component c in release v
  Role,         \* "gateway" or "node": only a gateway has a controller
  Writers,      \* who else writes the state: "controller", "cli"
  Faults,       \* the faults that may happen, as pairs of a step and a kind
  MaxFaults, MaxCrashes, MaxOther, MaxGen,  \* bounds
  Null

VARIABLES
  file,         \* the installed content of each component
  bundle, sums, \* the version of the installed bundle and checksum files
  state,        \* the authoritative state
  dirs,         \* the snapshot directories, by operation ID
  pending, previous,  \* the two snapshot pointers
  mgmt,         \* is the gateway controller running?
  pc, job,      \* each process's next step and its local variables
  torn,         \* history: the operations whose undoing was not complete
  overlap,      \* history: a command was started beside a running one
  faults, crashes     \* how many of the bounded faults have happened

disk == <<file, bundle, sums>>
snapshots == <<dirs, pending, previous>>
history == <<torn, overlap>>
vars == <<file, bundle, sums, state, dirs, pending, previous, mgmt, pc, job,
          torn, overlap, faults, crashes>>

ComponentNames == {Components[i] : i \in DOMAIN Components}
Running(p) == pc[p] # "idle"

(***************************************************************************)
(* The error outcomes of a step.  "fail": a command, a health check or a   *)
(* file operation fails, without effect unless the step says otherwise.    *)
(* "uncertain": a state save reports an error after its write landed.      *)
(* "sync": a file replacement fails in the directory sync that follows its *)
(* rename, so the new file is there and the caller is told it is not.      *)
(***************************************************************************)
Fault(p, kind) ==
  /\ <<pc[p], kind>> \in Faults /\ faults < MaxFaults
  /\ faults' = faults + 1

\* A systemctl call on the controller fails; a node makes none.
ControllerFault(p) == Role = "gateway" /\ Fault(p, "fail")

Go(p, step) == pc' = [pc EXCEPT ![p] = step]

NoJob == [cmd |-> Null]

\* A command returns; its staged files are discarded.
Return(p) == Go(p, "idle") /\ job' = [job EXCEPT ![p] = NoJob]

Installed(v) == \A c \in ComponentNames : file[c] = Build[c][v]
FileChanged(c, j) == Build[c][j.bundle] # Build[c][j.target]

\* Operation IDs are fresh UUIDs: a process and the generation it started from.
OpId(p) == <<p, job[p].base.gen>>

\* The command's operation leaves behind what its undoing does not reach.
Tears(p, when) == torn' = IF when THEN torn \cup {OpId(p)} ELSE torn

ASSUME UpdateAssumptions ==
  /\ Commands \subseteq {"update", "rollback"}
  /\ Components \in Seq(ComponentNames)
  /\ Versions \subseteq Nat /\ Versions # {}
  /\ MaxFaults \in Nat /\ MaxCrashes \in Nat /\ MaxOther \in Nat /\ MaxGen \in Nat
  /\ Null \notin {"update", "rollback"} /\ Null \notin Procs \X Nat

-----------------------------------------------------------------------------
(* Planning.                                                               *)

NewJob(cmd, v) ==
  [cmd |-> cmd, target |-> v, base |-> state, bundle |-> Null, sums |-> Null,
   persisted |-> state, done |-> {}, meta |-> FALSE, resumed |-> FALSE,
   snap |-> Null, prior |-> Null, then |-> Null]

Start(p, cmd, v) ==
  /\ ~ Running(p) /\ cmd \in Commands
  /\ cmd = "rollback" => v = state.version
  /\ state.gen + 4 <= MaxGen
  /\ job' = [job EXCEPT ![p] = NewJob(cmd, v)]
  /\ Go(p, "inspect")
  /\ overlap' = (overlap \/ \E q \in Procs : Running(q))
  /\ UNCHANGED <<disk, state, snapshots, mgmt, torn, faults, crashes>>

\* The plan needs the installed files to be those of the installed bundle.
PrepareUpdate(p) == Installed(bundle)

\* Mutant: the state's manifest is not compared with the installed bundle.
PlanUpdateUncompared(p) ==
  /\ pc[p] = "inspect" /\ job[p].cmd = "update" /\ PrepareUpdate(p)
  /\ job' = [job EXCEPT ![p].bundle = bundle, ![p].sums = sums]
  /\ Go(p, "apply")
  /\ UNCHANGED <<history, disk, state, snapshots, mgmt, faults, crashes>>

PlanUpdate(p) ==
  LET j == job[p] IN
  /\ pc[p] = "inspect" /\ j.cmd = "update"
  /\ \/ /\ PrepareUpdate(p) /\ bundle = j.base.version
        /\ job' = [job EXCEPT ![p].bundle = bundle, ![p].sums = sums]
        /\ Go(p, "apply")
     \/ Return(p)   \* the plan fails or is blocked, or consent is refused
  /\ UNCHANGED <<history, disk, state, snapshots, mgmt, faults, crashes>>

\* The previous snapshot can be loaded: complete, final, nothing pending.
LoadPrevious ==
  /\ pending = Null /\ previous # Null
  /\ previous \in DOMAIN dirs /\ dirs[previous].applied # {}

\* Mutant: the snapshot's binding to the stored state is not checked.
PlanRollbackUnbound(p) ==
  LET snap == dirs[previous] IN
  /\ pc[p] = "inspect" /\ job[p].cmd = "rollback"
  /\ LoadPrevious /\ snap.to = job[p].base.version /\ PrepareUpdate(p)
  /\ job' = [job EXCEPT ![p].bundle = bundle, ![p].sums = sums,
               ![p].target = snap.state.version,
               ![p].snap = previous, ![p].prior = snap.state]
  /\ Go(p, "apply")
  /\ UNCHANGED <<history, disk, state, snapshots, mgmt, faults, crashes>>

PlanUpdateRollback(p) ==
  LET j == job[p]
      snap == dirs[previous] IN
  /\ pc[p] = "inspect" /\ j.cmd = "rollback"
  /\ \/ /\ LoadPrevious
        /\ snap.to = j.base.version /\ snap.applied = {j.base}
        /\ PrepareUpdate(p)
        /\ job' = [job EXCEPT ![p].bundle = bundle, ![p].sums = sums,
                     ![p].target = snap.state.version,
                     ![p].snap = previous, ![p].prior = snap.state]
        /\ Go(p, "apply")
     \/ Return(p)
  /\ UNCHANGED <<history, disk, state, snapshots, mgmt, faults, crashes>>

-----------------------------------------------------------------------------
(* The states a command stores, one per save.                              *)

WithOp(s, id, status) == [s.ops EXCEPT ![id] = status]

NextGeneration(s) == s.gen + 1

BeginState(p) ==
  LET s == job[p].persisted IN
  [s EXCEPT !.gen = NextGeneration(s),
     !.ops = [id \in DOMAIN s.ops \cup {OpId(p)} |->
                IF id = OpId(p) THEN "pending" ELSE s.ops[id]]]

ActivateUpdateState(p) ==
  LET s == job[p].persisted IN
  [s EXCEPT !.gen = NextGeneration(s), !.version = job[p].target,
     !.ops = WithOp(s, OpId(p), "active")]

\* A rollback stores the kept state, with the operations recorded since.
ActivateRollbackState(p) ==
  LET s == job[p].persisted IN
  [job[p].prior EXCEPT !.gen = NextGeneration(s), !.ops = WithOp(s, OpId(p), "active")]

CompleteState(p) ==
  LET s == job[p].persisted IN
  [s EXCEPT !.gen = NextGeneration(s), !.ops = WithOp(s, OpId(p), "completed")]

FailUpdateState(p) ==
  LET s == job[p].persisted IN
  [s EXCEPT !.gen = NextGeneration(s), !.version = job[p].base.version,
     !.ops = WithOp(s, OpId(p), "failed")]

FailRollbackState(p) ==
  LET s == job[p].persisted IN
  [job[p].base EXCEPT !.gen = NextGeneration(s), !.ops = WithOp(s, OpId(p), "failed")]

\* Operation.Transition refuses to fail an operation that has completed.
CanFail(p) ==
  LET s == job[p].persisted IN
  OpId(p) \in DOMAIN s.ops /\ s.ops[OpId(p)] # "completed"

\* saveState: compare and swap on the generation; an error is settled by
\* reading the state again, in a later step.
SaveState(p, candidate, ok, err) ==
  \/ /\ state.gen = job[p].persisted.gen
     /\ state' = candidate
     /\ job' = [job EXCEPT ![p].persisted = candidate]
     /\ Go(p, ok) /\ UNCHANGED faults
  \/ /\ state.gen # job[p].persisted.gen
     /\ Go(p, err) /\ UNCHANGED <<state, job, faults>>
  \/ Fault(p, "fail") /\ Go(p, err) /\ UNCHANGED <<state, job>>
  \/ /\ Fault(p, "uncertain") /\ state.gen = job[p].persisted.gen
     /\ state' = candidate
     /\ job' = [job EXCEPT ![p].then = [wrote |-> candidate, ok |-> ok, err |-> err]]
     /\ Go(p, "reread")

Reread(p) ==
  LET then == job[p].then IN
  /\ pc[p] = "reread"
  /\ IF state = then.wrote
       THEN /\ job' = [job EXCEPT ![p].then = Null, ![p].persisted = then.wrote]
            /\ Go(p, then.ok)
       ELSE /\ job' = [job EXCEPT ![p].then = Null]
            /\ Go(p, then.err)
  /\ UNCHANGED <<history, disk, state, snapshots, mgmt, faults, crashes>>

-----------------------------------------------------------------------------
(* Applying.                                                               *)

\* The state must still be the planned one; an update to the installed
\* release returns without a change once the installed files are verified.
CheckState(p) ==
  /\ pc[p] = "apply"
  /\ IF state = job[p].base THEN Go(p, "validate") /\ UNCHANGED job ELSE Return(p)
  /\ UNCHANGED <<history, disk, state, snapshots, mgmt, faults, crashes>>

ValidateInstalled(p) ==
  LET j == job[p] IN
  /\ pc[p] = "validate"
  /\ IF /\ Installed(j.bundle) /\ bundle = j.bundle /\ sums = j.sums
        /\ j.cmd = "update" => j.target # j.base.version
       THEN Go(p, "quiesce") /\ UNCHANGED job
       ELSE Return(p)
  /\ UNCHANGED <<history, disk, state, snapshots, mgmt, faults, crashes>>

\* systemctl stop: on a node there is no controller to stop.
StopController == mgmt' = (Role = "node" /\ mgmt)
StartController == mgmt' = TRUE

QuiesceManagement(p) ==
  /\ pc[p] = "quiesce"
  /\ \/ /\ StopController /\ UNCHANGED faults
        /\ Go(p, IF job[p].cmd = "update" THEN "prepare" ELSE "begin")
     \/ /\ ControllerFault(p) /\ (StopController \/ UNCHANGED mgmt)
        /\ Go(p, "resume_only")
  /\ UNCHANGED <<history, disk, state, snapshots, job, crashes>>

\* The error paths before the first replacement resume and return.
ResumeOnly(p) ==
  /\ pc[p] = "resume_only"
  /\ \/ StartController /\ UNCHANGED faults
     \/ ControllerFault(p) /\ (StartController \/ UNCHANGED mgmt)
  /\ Return(p)
  /\ UNCHANGED <<history, disk, state, snapshots, crashes>>

Without(f, id) == [x \in DOMAIN f \ {id} |-> f[x]]
With(f, id, v) == [x \in DOMAIN f \cup {id} |-> IF x = id THEN v ELSE f[x]]

\* Snapshots.Prepare: the directory, then the pending pointer.
PrepareSnapshot(p) ==
  LET j == job[p]  id == OpId(p)
      dir == [state |-> j.base, to |-> j.target, applied |-> {}] IN
  /\ pc[p] = "prepare"
  /\ \/ /\ pending = Null /\ id \notin DOMAIN dirs /\ j.sums = j.bundle
        /\ dirs' = With(dirs, id, dir) /\ pending' = id
        /\ job' = [job EXCEPT ![p].snap = id]
        /\ Go(p, "begin") /\ UNCHANGED faults
     \/ /\ pending # Null \/ id \in DOMAIN dirs \/ j.sums # j.bundle
        /\ Go(p, "resume_only") /\ UNCHANGED <<dirs, pending, job, faults>>
     \/ /\ Fault(p, "fail")
        /\ Go(p, "resume_only") /\ UNCHANGED <<dirs, pending, job>>
     \/ /\ pending = Null /\ Fault(p, "sync") /\ pending' = id
        /\ Go(p, "resume_only") /\ UNCHANGED <<dirs, job>>
  /\ UNCHANGED <<history, disk, state, previous, mgmt, crashes>>

BeginUpdate(p) ==
  /\ pc[p] = "begin"
  /\ SaveState(p, BeginState(p), "activate",
          IF job[p].cmd = "update" THEN "abort_begin" ELSE "resume_only")
  /\ UNCHANGED <<history, disk, snapshots, mgmt, crashes>>

\* The next component whose file changes, if any is left.
ToActivate(j) == {i \in DOMAIN Components :
                    FileChanged(Components[i], j) /\ Components[i] \notin j.done}
First(S) == CHOOSE i \in S : \A k \in S : i <= k
Last(S)  == CHOOSE i \in S : \A k \in S : i >= k

\* Replace one component and check its health.  The component counts as
\* activated only if the replacement reported success.
ActivateComponent(p) ==
  LET j == job[p]  todo == ToActivate(j)
      c == Components[First(todo)]
      replaced == file' = [file EXCEPT ![c] = Build[c][j.target]]
      activated == job' = [job EXCEPT ![p].done = @ \cup {c}] IN
  /\ pc[p] = "activate" /\ todo # {}
  /\ \/ replaced /\ activated /\ UNCHANGED <<pc, torn, faults>>
     \/ /\ replaced /\ activated /\ Fault(p, "fail")  \* unhealthy
        /\ Go(p, "rb_quiesce") /\ UNCHANGED torn
     \/ Fault(p, "fail") /\ Go(p, "rb_quiesce") /\ UNCHANGED <<file, job, torn>>
     \/ replaced /\ Fault(p, "sync") /\ Go(p, "rb_quiesce") /\ Tears(p, TRUE) /\ UNCHANGED job
  /\ UNCHANGED <<bundle, sums, state, snapshots, mgmt, overlap, crashes>>

ActivatedAll(p) ==
  /\ pc[p] = "activate" /\ ToActivate(job[p]) = {}
  /\ Go(p, "publish_bundle")
  /\ UNCHANGED <<history, disk, state, snapshots, mgmt, job, faults, crashes>>

\* PublishMetadata replaces the bundle and then the checksums; if the second
\* fails the first is put back, and an error of that is dropped.
PublishBundle(p) ==
  /\ pc[p] = "publish_bundle"
  /\ \/ bundle' = job[p].target /\ Go(p, "publish_sums") /\ UNCHANGED <<torn, faults>>
     \/ Fault(p, "fail") /\ Go(p, "rb_quiesce") /\ UNCHANGED <<bundle, torn>>
     \/ /\ Fault(p, "sync") /\ bundle' = job[p].target
        /\ Go(p, "rb_quiesce") /\ Tears(p, TRUE)
  /\ UNCHANGED <<file, sums, state, snapshots, mgmt, job, overlap, crashes>>

PublishChecksums(p) ==
  /\ pc[p] = "publish_sums"
  /\ \/ /\ sums' = job[p].target /\ job' = [job EXCEPT ![p].meta = TRUE]
        /\ Go(p, "active") /\ UNCHANGED <<bundle, torn, faults>>
     \/ /\ Fault(p, "fail") /\ bundle' \in {bundle, job[p].bundle}
        /\ Tears(p, bundle' # job[p].bundle)
        /\ Go(p, "rb_quiesce") /\ UNCHANGED <<sums, job>>
     \/ /\ Fault(p, "sync") /\ sums' = job[p].target /\ bundle' \in {bundle, job[p].bundle}
        /\ Tears(p, TRUE)
        /\ Go(p, "rb_quiesce") /\ UNCHANGED job
  /\ UNCHANGED <<file, state, snapshots, mgmt, overlap, crashes>>

Activate(p) ==
  /\ pc[p] = "active"
  /\ SaveState(p, IF job[p].cmd = "update" THEN ActivateUpdateState(p)
             ELSE ActivateRollbackState(p), "resume", "rb_quiesce")
  /\ UNCHANGED <<history, disk, snapshots, mgmt, crashes>>

ResumeManagement(p) ==
  /\ pc[p] = "resume"
  /\ \/ /\ StartController /\ job' = [job EXCEPT ![p].resumed = TRUE]
        /\ Go(p, "complete") /\ UNCHANGED faults
     \/ /\ ControllerFault(p) /\ (StartController \/ UNCHANGED mgmt)
        /\ Go(p, "rb_quiesce") /\ UNCHANGED job
  /\ UNCHANGED <<history, disk, state, snapshots, crashes>>

Complete(p) ==
  /\ pc[p] = "complete"
  /\ SaveState(p, CompleteState(p),
          IF job[p].cmd = "update" THEN "finalize" ELSE "consume", "rb_quiesce")
  /\ UNCHANGED <<history, disk, snapshots, mgmt, crashes>>

-----------------------------------------------------------------------------
(* The snapshot after a completed update, and after a completed rollback.  *)

\* Finalize binds the snapshot to the exact state the update left.
Finalize(p) ==
  LET j == job[p] IN
  /\ pc[p] = "finalize"
  /\ \/ /\ j.snap \in DOMAIN dirs
        /\ dirs' = [dirs EXCEPT ![j.snap].applied = {j.persisted}]
        /\ Go(p, "promote") /\ UNCHANGED faults
     \/ /\ (j.snap \notin DOMAIN dirs /\ UNCHANGED faults) \/ Fault(p, "fail")
        /\ Go(p, "rb_quiesce") /\ UNCHANGED dirs
  /\ UNCHANGED <<history, disk, state, pending, previous, mgmt, job, crashes>>

\* Promote renames the pending pointer over the previous one and removes the
\* snapshot the old pointer named.
Promote(p) ==
  LET j == job[p] IN
  /\ pc[p] = "promote"
  /\ \/ /\ pending = j.snap
        /\ previous' = pending /\ pending' = Null
        /\ dirs' = Without(dirs, IF previous = j.snap THEN Null ELSE previous)
        /\ Return(p) /\ UNCHANGED faults
     \/ /\ Fault(p, "sync") /\ pending = j.snap
        /\ previous' = pending /\ pending' = Null
        /\ Go(p, "rb_quiesce") /\ UNCHANGED <<dirs, job>>
     \/ /\ (pending # j.snap /\ UNCHANGED faults) \/ Fault(p, "fail")
        /\ Go(p, "rb_quiesce") /\ UNCHANGED <<snapshots, job>>
  /\ UNCHANGED <<history, disk, state, mgmt, crashes>>

\* ConsumePrevious: the pointer first, then the directory.
ConsumePrevious(p) ==
  LET j == job[p] IN
  /\ pc[p] = "consume"
  /\ \/ /\ previous = j.snap
        /\ previous' = Null /\ dirs' = Without(dirs, j.snap)
        /\ UNCHANGED <<pending, faults>>
     \/ previous # j.snap /\ UNCHANGED <<snapshots, faults>>
     \/ Fault(p, "fail") /\ UNCHANGED snapshots
  /\ Return(p)
  /\ UNCHANGED <<history, disk, state, mgmt, crashes>>

\* Abort removes the pending pointer, if it is this command's, and its
\* directory; a pointer of another command stops it.
Abort(p, step) ==
  LET j == job[p] IN
  /\ \/ /\ pending \in {j.snap, Null}
        /\ pending' = Null /\ dirs' = Without(dirs, j.snap)
        /\ UNCHANGED faults
     \/ /\ pending \notin {j.snap, Null} /\ UNCHANGED <<dirs, pending, faults>>
     \/ Fault(p, "fail") /\ UNCHANGED <<dirs, pending>>
  /\ IF step = "idle" THEN Return(p) ELSE Go(p, step) /\ UNCHANGED job
  /\ UNCHANGED <<history, disk, state, previous, mgmt, crashes>>

\* Mutant: the failed first save returns with the controller stopped.
AbortBeginReturns(p) == pc[p] = "abort_begin" /\ Abort(p, "idle")

AbortBegin(p) == pc[p] = "abort_begin" /\ Abort(p, "resume_only")

-----------------------------------------------------------------------------
(* rollback(): every step is tried whatever the others returned.           *)

\* The operation is stored as completed: its files are undone all the same.
Completed(p) ==
  OpId(p) \in DOMAIN state.ops /\ state.ops[OpId(p)] = "completed"

UndoQuiesce(p) ==
  /\ pc[p] = "rb_quiesce"
  /\ \/ /\ IF job[p].resumed THEN StopController ELSE UNCHANGED mgmt
        /\ UNCHANGED faults
     \/ /\ job[p].resumed /\ ControllerFault(p)
        /\ StopController \/ UNCHANGED mgmt
  /\ Go(p, "rb_meta") /\ Tears(p, Completed(p) \/ job[p].snap \in torn)
  /\ UNCHANGED <<disk, state, snapshots, job, overlap, crashes>>

RollbackMetadata(p) ==
  LET j == job[p] IN
  /\ pc[p] = "rb_meta"
  /\ \/ /\ IF j.meta THEN bundle' = j.bundle /\ sums' = j.sums
                     ELSE UNCHANGED <<bundle, sums>>
        /\ UNCHANGED <<torn, faults>>
     \/ /\ j.meta /\ Fault(p, "fail")
        /\ bundle' \in {bundle, j.bundle} /\ sums' \in {sums, j.sums}
        /\ Tears(p, bundle' # j.bundle \/ sums' # j.sums)
  /\ Go(p, "rb_files")
  /\ UNCHANGED <<file, state, snapshots, mgmt, job, overlap, crashes>>

RollbackComponent(p) ==
  LET j == job[p]
      left == {i \in DOMAIN Components : Components[i] \in j.done}
      c == Components[Last(left)] IN
  /\ pc[p] = "rb_files" /\ left # {}
  /\ \/ file' = [file EXCEPT ![c] = Build[c][j.bundle]] /\ UNCHANGED <<torn, faults>>
     \/ Fault(p, "fail") /\ Tears(p, TRUE) /\ UNCHANGED file
  /\ job' = [job EXCEPT ![p].done = @ \ {c}]
  /\ UNCHANGED <<bundle, sums, state, snapshots, mgmt, pc, overlap, crashes>>

RolledBackAll(p) ==
  /\ pc[p] = "rb_files" /\ job[p].done = {}
  /\ Go(p, "rb_state")
  /\ UNCHANGED <<history, disk, state, snapshots, mgmt, job, faults, crashes>>

RecordFailure(p) ==
  /\ pc[p] = "rb_state"
  /\ \/ /\ CanFail(p)
        /\ SaveState(p, IF job[p].cmd = "update" THEN FailUpdateState(p)
                   ELSE FailRollbackState(p), "rb_resume", "rb_resume")
     \/ ~ CanFail(p) /\ Go(p, "rb_resume") /\ UNCHANGED <<state, job, faults>>
  /\ UNCHANGED <<history, disk, snapshots, mgmt, crashes>>

UndoResume(p) ==
  LET last == job[p].cmd = "rollback" IN
  /\ pc[p] = "rb_resume"
  /\ \/ StartController /\ UNCHANGED faults
     \/ ControllerFault(p) /\ (StartController \/ UNCHANGED mgmt)
  /\ IF last THEN Return(p) ELSE Go(p, "rb_abort") /\ UNCHANGED job
  /\ UNCHANGED <<history, disk, state, snapshots, crashes>>

UndoSnapshot(p) == pc[p] = "rb_abort" /\ Abort(p, "idle")

-----------------------------------------------------------------------------
(* The environment: other writers of the state, killed processes, reboots. *)

OtherWrite(w) ==
  /\ w \in Writers /\ (w = "controller" => mgmt)
  /\ state.other < MaxOther
  /\ state' = [state EXCEPT !.gen = NextGeneration(state), !.other = @ + 1]
  /\ UNCHANGED <<history, disk, snapshots, mgmt, pc, job, faults, crashes>>

KillUpdate(p) ==
  /\ Running(p) /\ crashes < MaxCrashes
  /\ crashes' = crashes + 1
  /\ Return(p)
  /\ UNCHANGED <<history, disk, state, snapshots, mgmt, faults>>

\* Systemd starts the controller at boot.
RebootHost ==
  /\ crashes < MaxCrashes /\ \E p \in Procs : Running(p)
  /\ crashes' = crashes + 1
  /\ pc' = [p \in Procs |-> "idle"] /\ job' = [p \in Procs |-> NoJob]
  /\ StartController
  /\ UNCHANGED <<history, disk, state, snapshots, faults>>

-----------------------------------------------------------------------------
Oldest == CHOOSE v \in Versions : \A w \in Versions : v <= w

Init ==
  /\ file = [c \in ComponentNames |-> Build[c][Oldest]]
  /\ bundle = Oldest /\ sums = Oldest
  /\ state = [gen |-> 1, version |-> Oldest, ops |-> <<>>, other |-> 0]
  /\ dirs = <<>> /\ pending = Null /\ previous = Null
  /\ mgmt = TRUE
  /\ pc = [p \in Procs |-> "idle"] /\ job = [p \in Procs |-> NoJob]
  /\ torn = {} /\ overlap = FALSE /\ faults = 0 /\ crashes = 0

UpdateStep(p) ==
  \/ PlanUpdate(p) \/ PlanUpdateRollback(p) \/ CheckState(p) \/ ValidateInstalled(p)
  \/ QuiesceManagement(p) \/ ResumeOnly(p) \/ PrepareSnapshot(p) \/ BeginUpdate(p)
  \/ ActivateComponent(p) \/ ActivatedAll(p) \/ PublishBundle(p)
  \/ PublishChecksums(p) \/ Activate(p) \/ ResumeManagement(p) \/ Complete(p)
  \/ Finalize(p) \/ Promote(p) \/ ConsumePrevious(p) \/ AbortBegin(p)
  \/ UndoQuiesce(p) \/ RollbackMetadata(p) \/ RollbackComponent(p)
  \/ RolledBackAll(p) \/ RecordFailure(p) \/ UndoResume(p) \/ UndoSnapshot(p)
  \/ Reread(p)

Next ==
  \/ \E p \in Procs, cmd \in Commands, v \in Versions : Start(p, cmd, v)
  \/ \E p \in Procs : UpdateStep(p)
  \/ \E w \in Writers : OtherWrite(w)
  \/ \E p \in Procs : KillUpdate(p)
  \/ RebootHost

Spec == Init /\ [][Next]_vars

\* A started command runs on until it returns or is killed.
FairSpec == Spec /\ \A p \in Procs : WF_vars(UpdateStep(p))

-----------------------------------------------------------------------------
(* Properties.                                                             *)

Statuses == {"pending", "active", "completed", "failed"}
AllSteps == {"inspect", "apply", "validate", "quiesce", "resume_only", "prepare",
  "begin", "abort_begin", "reread", "activate", "publish_bundle", "publish_sums",
  "active", "resume", "complete", "finalize", "promote", "consume", "rb_quiesce",
  "rb_meta", "rb_files", "rb_state", "rb_resume", "rb_abort"}

StateOK(s) ==
  /\ s.gen \in Nat \ {0}
  /\ s.version \in Versions /\ s.other \in 0..MaxOther
  /\ \A id \in DOMAIN s.ops : s.ops[id] \in Statuses

\* The values of the variables, the stored states and the snapshots.
TypeOK ==
  /\ \A c \in ComponentNames : file[c] \in {Build[c][v] : v \in Versions}
  /\ bundle \in Versions /\ sums \in Versions /\ StateOK(state)
  /\ \A id \in DOMAIN dirs :
       /\ StateOK(dirs[id].state) /\ dirs[id].to \in Versions
       /\ \A s \in dirs[id].applied : StateOK(s)
  /\ mgmt \in BOOLEAN /\ \A p \in Procs : pc[p] \in AllSteps \cup {"idle"}
  /\ \A p \in Procs : Running(p) <=> job[p] # NoJob

NoneRunning == \A p \in Procs : ~ Running(p)
Consistent == Installed(bundle) /\ sums = bundle /\ state.version = bundle

\* The update operation that was recorded last.
LastOp == CHOOSE id \in DOMAIN state.ops :
            \A other \in DOMAIN state.ops : other[2] <= id[2]

\* An operation that is recorded as completed or failed tells the truth: once
\* no command runs, the component files, both metadata files and the state's
\* component manifest are all of one release.  Not if the operation is torn:
\* a replaced file was left in place because the directory sync after its
\* rename failed, a step of the undoing failed, the operation was undone after
\* it had been stored as completed, or it rolled back a torn update and was
\* undone (README, section 4).
RecordedOutcomeHolds ==
  NoneRunning /\ DOMAIN state.ops # {} /\ LastOp \notin torn =>
    (state.ops[LastOp] \in {"completed", "failed"} => Consistent)

\* The previous pointer names a complete snapshot, bound to the state its
\* update left, of another release than that one, unless that update is torn.
PreviousUsable ==
  previous # Null /\ previous \notin torn =>
    /\ previous \in DOMAIN dirs
    /\ dirs[previous].applied # {}
    /\ \A s \in dirs[previous].applied : s.version = dirs[previous].to
    /\ dirs[previous].state.version # dirs[previous].to

\* While the snapshot of an update that is not torn still matches the stored
\* state, and no command runs, the installed release is the one it was bound
\* to: the rollback that the plan offers will find the files it expects.
RollbackFindsRelease ==
  NoneRunning /\ previous # Null /\ previous \notin torn =>
    (state \in dirs[previous].applied => Consistent)

\* A command replaces files only where one whole release is installed and the
\* state names it, whatever an earlier command that failed, was killed or tore
\* the release left behind (the refusals of Plan, PlanUpdateRollback, Apply and
\* Prepare).  Only the rollback of a torn update may start from checksums that
\* are not the bundle's: its plan does not compare the two.
ReplacesWholeRelease ==
  \A p \in Procs : pc[p] = "begin" /\ state = job[p].base /\ job[p].snap \notin torn =>
    Consistent /\ bundle = job[p].bundle

\* Wherever something relies on the host being of one release - a recorded
\* outcome, an offered rollback, a command about to replace files - it is, and
\* the kept snapshot can be gone back to, as long as the commands were run one
\* after the other: nothing keeps two of them apart (README, section 4).
ReleaseSound ==
  /\ TypeOK
  /\ ~ overlap => /\ RecordedOutcomeHolds /\ ReplacesWholeRelease
                  /\ PreviousUsable /\ RollbackFindsRelease

\* An update that ends has either taken effect or been undone: once no command
\* runs, and none was killed, the installed files, the metadata and the state's
\* component manifest are of one release (docs/v2/UPDATE.md, the "proven
\* failure" paragraph).  Does not hold (README, section 4), so no run lists it.
AttemptTakenOrUndone == NoneRunning /\ crashes = 0 => Consistent

\* No command loses what another command stored: a rollback, which stores a
\* state from before the update, is only made when nothing was written since.
NoWriteLost == [][state'.other >= state.other]_vars

\* The controller runs again once the commands are over, unless one was killed.
ManagementReturns == [](~ mgmt => <>(mgmt \/ crashes > 0))
=============================================================================
