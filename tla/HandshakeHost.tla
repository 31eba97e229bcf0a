---------------------------- MODULE HandshakeHost ----------------------------
(***************************************************************************)
(* The host name that the gateway's restricted listener poses as, and the  *)
(* writers of that listener's configuration.                               *)
(*                                                                         *)
(*   internal/transport/handshake_host_lifecycle.go   prepare, commit,     *)
(*                                                    rollback             *)
(*   internal/controller/handshake_host_system.go     staged activation    *)
(*   internal/cli/transport_host_command.go           what is reported     *)
(*   internal/controller/client_system.go, node_revocation_system.go       *)
(*   internal/enrollment/gateway_system_readiness.go, gateway_system_repair*)
(*                                                                         *)
(* Commands are processes of their own.  A lock orders the activations of  *)
(* a host; clients, nodes and repair write the same two files without it.  *)
(* Operations of the state follow the record of the change one to one and  *)
(* are left out; so are probes, which only refuse.                         *)
(***************************************************************************)
EXTENDS Naturals

CONSTANTS
  HostProcs,    \* processes of `vpnctl transport host`
  HostNames,    \* host names that pass the probe
  Peers,        \* nodes and clients that may use the restricted transport
  MaxSaves,     \* bound on the generation of the gateway's state
  MaxTroubles   \* failures, kills and reboots

ASSUME HandshakeHostAssumptions ==
  MaxSaves \in Nat /\ MaxTroubles \in Nat /\ HostNames # {} /\ "none" \notin HostProcs

VARIABLES
  saved,      \* state.json: generation, host, users of the listener, change
  window,     \* the rollback window of a committed change is open
  live,       \* restricted.yaml and its ready marker
  runs,       \* the configuration the listener has been started with
  stage,      \* a directory .handshake-host-stage-* exists
  flock,      \* holder of handshake-host-activation.lock
  change,     \* the commands at work: program counter, plan, candidate state
  writer,     \* the other writer of the listener's files at work
  unsettled,  \* history: why state and listener may differ, "no" if not
  troubles

listener == <<live, runs, stage, flock>>
hostVars == <<saved, window, listener, change, writer, unsettled, troubles>>

(* What may leave the listener behind or ahead of the state:               *)
(*   told      a command reported that it failed or that its outcome is    *)
(*             unknown, with the files moved                               *)
(*   killed    a command was killed, or the host rebooted, in the middle   *)
(*   conflict  another writer's save came between an activation and the    *)
(*             save of its state; the CLI reports a mere conflict          *)
(*   overlap   another writer prepared what it would write, or was still   *)
(*             to write it, after an activation last looked at the files   *)
Reasons == {"told", "killed", "conflict", "overlap"}

NoChange == [state |-> "none", prev |-> "none", next |-> "none",
             impact |-> {}, under |-> {}]

(* renderRestrictedRuntimePublication: both files follow from the state.   *)
Render(s) == [host |-> s.host, users |-> s.users]

NoFile == [host |-> "none", users |-> {}]
NoState == [gen |-> 0, host |-> "none", users |-> {}, change |-> NoChange]
NoCommand == [pc |-> "idle", kind |-> "none", base |-> NoState, cand |-> NoState,
              moved |-> FALSE]
NoWriter == [pc |-> "idle", kind |-> "none", file |-> NoFile,
             old |-> [config |-> NoFile, marker |-> NoFile], cand |-> NoState]

HostInit ==
  /\ saved = [NoState EXCEPT !.gen = 1, !.host = CHOOSE h \in HostNames : TRUE]
  /\ window = FALSE
  /\ live = [config |-> Render(saved), marker |-> Render(saved)]
  /\ runs = Render(saved)
  /\ stage = FALSE /\ flock = "none"
  /\ change = [p \in HostProcs |-> NoCommand] /\ writer = NoWriter
  /\ unsettled = "no" /\ troubles = 0

Trouble == troubles < MaxTroubles /\ troubles' = troubles + 1

In(p, pc) == change[p].pc = pc
Moves(p, pc) ==
  change' = [change EXCEPT ![p] = IF pc = "idle" THEN NoCommand
                                                 ELSE [@ EXCEPT !.pc = pc]]
Leave(p) == change' = [change EXCEPT ![p] = NoCommand]

(* The first reason is kept.                                               *)
Unsettle(why, when) ==
  unsettled' = IF when /\ unsettled = "no" THEN why ELSE unsettled

(* The process ends; its lock goes with it.                                *)
Leaves(p) == Leave(p) /\ flock' = IF flock = p THEN "none" ELSE flock

Published(f) == live.config = f /\ live.marker = f

-----------------------------------------------------------------------------
(* Plans: what the operator reviews                                        *)

(* handshakeHostImpact: every active owner of a restricted transport.      *)
Impact(s) == s.users

Plan(p, kind, cand) ==
  /\ change[p] = NoCommand /\ saved.gen < MaxSaves
  /\ change' = [change EXCEPT ![p] = [NoCommand EXCEPT !.pc = "planned", !.kind = kind,
                                         !.base = saved, !.cand = cand]]
  /\ UNCHANGED <<saved, window, listener, writer, unsettled, troubles>>

(* One change at a time; a committed one is superseded when its rollback   *)
(* window has closed.                                                      *)
MayPrepare == \/ saved.change = NoChange
              \/ saved.change.state = "committed" /\ ~window

PlanPrepare(p, h) ==
  /\ MayPrepare /\ h # saved.host
  /\ Plan(p, "prepare",
          [saved EXCEPT !.gen = @ + 1,
             !.change = [state |-> "prepared", prev |-> saved.host, next |-> h,
                         impact |-> Impact(saved), under |-> {}]])

(* Mutant: the impact is not compared with the one that was prepared.      *)
ImpactUnchecked == TRUE

ImpactUnchanged == Impact(saved) = saved.change.impact

PlanCommit(p) ==
  /\ saved.change.state = "prepared" /\ ImpactUnchanged
  /\ Plan(p, "commit",
          [saved EXCEPT !.gen = @ + 1, !.host = saved.change.next,
             !.change = [saved.change EXCEPT !.state = "committed", !.under = saved.users]])

PlanRollback(p) ==
  /\ saved.change.state = "committed" /\ window
  /\ Plan(p, "rollback",
          [saved EXCEPT !.gen = @ + 1, !.host = saved.change.prev, !.change = NoChange])

(* Twenty-four hours after the commit.                                     *)
WindowCloses ==
  /\ window /\ window' = FALSE
  /\ UNCHANGED <<saved, listener, change, writer, unsettled, troubles>>

-----------------------------------------------------------------------------
(* Prepare, and the beginning of commit and rollback                       *)

(* requirePlanState: the state is still the one that was reviewed.         *)
PlanCurrent(p) == saved = change[p].base

Confirmed(p) ==
  /\ In(p, "planned")
  /\ IF PlanCurrent(p) /\ (change[p].kind = "rollback" => window)
       THEN Moves(p, IF change[p].kind = "prepare" THEN "record" ELSE "lock")
       ELSE Leave(p)
  /\ UNCHANGED <<saved, window, listener, writer, unsettled, troubles>>

(* A save of the candidate: it takes effect, it fails (late is a failure   *)
(* that is reported although it took effect), or another writer was first. *)
Save(p, done, late, failed, conflict) ==
  IF saved.gen = change[p].base.gen
    THEN \/ /\ saved' = change[p].cand
            /\ window' = (change[p].kind = "commit")
            /\ \/ Moves(p, done) /\ UNCHANGED troubles
               \/ Moves(p, late) /\ Trouble
         \/ Moves(p, failed) /\ Trouble /\ UNCHANGED <<saved, window>>
    ELSE Moves(p, conflict) /\ UNCHANGED <<saved, window, troubles>>

PrepareSave(p) ==
  /\ In(p, "record")
  /\ Save(p, "idle", "idle", "idle", "idle")
  /\ UNCHANGED <<listener, writer, unsettled>>

-----------------------------------------------------------------------------
(* Activation of a listener generation                                     *)

(* The files have been moved and the state that goes with them is open.    *)
Midway(p) == change[p].moved /\ ~In(p, "finish")

(* An activation that has looked at the live files for the last time and   *)
(* is still to be made good or taken back.                                 *)
Exposed(p) == In(p, "swap") \/ Midway(p)
SomeExposed == \E p \in HostProcs : Exposed(p)

(* The other writer holds contents that it is still to write, or, being a  *)
(* join, to store or to take back.                                         *)
Holds == writer.kind = "join" \/ writer.pc \in {"publish", "marker"}

(* acquireHandshakeHostActivationLock, or its timeout.                     *)
Lock(p) ==
  /\ In(p, "lock")
  /\ \/ flock = "none" /\ flock' = p /\ Moves(p, "stage")
     \/ flock # "none" /\ Leave(p) /\ UNCHANGED flock
  /\ UNCHANGED <<saved, window, live, runs, stage, writer, unsettled, troubles>>

(* cleanupHandshakeHostStage may leave the directory behind.               *)
Cleanup == \/ stage' = FALSE /\ UNCHANGED troubles
           \/ Trouble /\ UNCHANGED stage

(* verifyRestrictedRuntimePublication of the current generation            *)
LiveIsPrevious(p) == Published(Render(change[p].base))

(* The candidate must follow the state that is there now and the live      *)
(* files must be that state's; a stage that was left behind refuses.       *)
Stage(p) ==
  /\ In(p, "stage")
  /\ \/ /\ ~stage /\ saved.gen = change[p].base.gen /\ LiveIsPrevious(p)
        /\ \/ stage' = TRUE /\ Moves(p, "verify") /\ UNCHANGED <<flock, troubles>>
           \/ Trouble /\ Leaves(p) /\ stage' \in BOOLEAN
     \/ /\ stage \/ saved.gen # change[p].base.gen \/ ~LiveIsPrevious(p)
        /\ Leaves(p) /\ UNCHANGED <<stage, troubles>>
  /\ UNCHANGED <<saved, window, live, runs, writer, unsettled>>

(* The staged file is validated and the live ones are looked at again.     *)
Verify(p) ==
  /\ In(p, "verify")
  /\ \/ LiveIsPrevious(p) /\ Moves(p, "rename") /\ UNCHANGED <<stage, flock, troubles>>
     \/ ~LiveIsPrevious(p) /\ Leaves(p) /\ Cleanup
     \/ Trouble /\ Leaves(p) /\ stage' = FALSE
  /\ UNCHANGED <<saved, window, live, runs, writer, unsettled>>

(* Activate looks once more; then it renames without looking.              *)
LastLook(p) ==
  /\ In(p, "rename")
  /\ \/ LiveIsPrevious(p) /\ Moves(p, "swap") /\ Unsettle("overlap", Holds)
     \/ ~LiveIsPrevious(p) /\ Moves(p, "undo") /\ UNCHANGED unsettled
  /\ UNCHANGED <<saved, window, listener, writer, troubles>>

RenameConfig(p) ==
  /\ In(p, "swap")
  /\ \/ /\ live' = [live EXCEPT !.config = Render(change[p].cand)]
        /\ change' = [change EXCEPT ![p].pc = "mark", ![p].moved = TRUE]
        /\ UNCHANGED troubles
     \/ Moves(p, "undo") /\ Trouble /\ UNCHANGED live
  /\ UNCHANGED <<saved, window, runs, stage, flock, writer, unsettled>>

RenameMarker(p) ==
  /\ In(p, "mark")
  /\ \/ /\ live' = [live EXCEPT !.marker = Render(change[p].cand)]
        /\ Moves(p, "restart") /\ UNCHANGED troubles
     \/ Moves(p, "undo") /\ Trouble /\ UNCHANGED live
  /\ UNCHANGED <<saved, window, runs, stage, flock, writer, unsettled>>

(* Both files are the candidate's, the listener is restarted and becomes   *)
(* healthy.                                                                *)
Restart(p) ==
  /\ In(p, "restart")
  /\ \/ /\ Published(Render(change[p].cand)) /\ runs' = live.config
        /\ Moves(p, "commit") /\ UNCHANGED troubles
     \/ Trouble /\ Moves(p, "undo") /\ runs' \in {runs, live.config}
     \/ ~Published(Render(change[p].cand)) /\ Moves(p, "undo") /\ UNCHANGED <<runs, troubles>>
  /\ UNCHANGED <<saved, window, live, stage, flock, writer, unsettled>>

CommitSave(p) ==
  /\ In(p, "commit")
  /\ Save(p, "finish", "look", "look", "look")
  /\ UNCHANGED <<listener, writer, unsettled>>

(* Mutant: a state that did not change is taken for a committed one.       *)
NeverUndone(p) == "finish"

(* reconcileStateWrite: the state after a failed save decides, unless it   *)
(* cannot be read.                                                         *)
AfterFailedSave(p) ==
  CASE saved = change[p].cand -> "finish"
    [] saved = change[p].base -> "undo"
    [] OTHER -> "uncertain"

Reconcile(p) ==
  /\ In(p, "look")
  /\ \/ Moves(p, AfterFailedSave(p)) /\ UNCHANGED troubles
     \/ Moves(p, "uncertain") /\ Trouble
  /\ UNCHANGED <<saved, window, listener, writer, unsettled>>

(* activation.Commit: only the stage remains to be removed.                *)
Finish(p) ==
  /\ In(p, "finish") /\ Leaves(p) /\ Cleanup
  /\ UNCHANGED <<saved, window, live, runs, writer, unsettled>>

(* Neither committed nor rolled back: the listener stays on the candidate  *)
(* and the stage on disk.  If the save met another writer's generation the *)
(* error is both uncertain and a conflict, and the CLI's classification    *)
(* takes it for a conflict.                                                *)
Uncertain(p) ==
  /\ In(p, "uncertain") /\ Leaves(p)
  /\ \E why \in {"told", "conflict"} :
       /\ why = "conflict" => saved.gen # change[p].base.gen
       /\ Unsettle(why, TRUE)
  /\ UNCHANGED <<saved, window, live, runs, stage, writer, troubles>>

(* activation.Rollback: files first, then the listener, then the stage.    *)
Undo(p) ==
  /\ In(p, "undo")
  /\ IF change[p].moved
       THEN \/ /\ live' = [config |-> Render(change[p].base), marker |-> Render(change[p].base)]
               /\ Moves(p, "undone") /\ UNCHANGED <<stage, flock, unsettled, troubles>>
            \/ /\ Trouble /\ Leaves(p) /\ Unsettle("told", TRUE)
               /\ live' \in [config : {live.config, Render(change[p].base)},
                             marker : {live.marker, Render(change[p].base)}]
               /\ UNCHANGED stage
       ELSE Leaves(p) /\ Cleanup /\ UNCHANGED <<live, unsettled>>
  /\ UNCHANGED <<saved, window, runs, writer>>

UndoRestart(p) ==
  /\ In(p, "undone") /\ Leaves(p)
  /\ \/ Published(Render(change[p].base)) /\ runs' = live.config /\ Cleanup /\ UNCHANGED unsettled
     \/ ~Published(Render(change[p].base)) /\ Unsettle("told", TRUE) /\ UNCHANGED <<runs, stage, troubles>>
     \/ Trouble /\ Unsettle("told", TRUE) /\ runs' \in {runs, live.config} /\ UNCHANGED stage
  /\ UNCHANGED <<saved, window, live, writer>>

HostStep(p) ==
  \/ \E h \in HostNames : PlanPrepare(p, h)
  \/ PlanCommit(p) \/ PlanRollback(p) \/ Confirmed(p) \/ PrepareSave(p)
  \/ Lock(p) \/ Stage(p) \/ Verify(p) \/ LastLook(p)
  \/ RenameConfig(p) \/ RenameMarker(p) \/ Restart(p)
  \/ CommitSave(p) \/ Reconcile(p) \/ Finish(p) \/ Uncertain(p) \/ Undo(p) \/ UndoRestart(p)

-----------------------------------------------------------------------------
(* The other writers of the listener's files, one at a time                *)

Toggled(u) == [saved EXCEPT !.gen = @ + 1,
                            !.users = IF u \in @ THEN @ \ {u} ELSE @ \cup {u}]

Starts(w) == writer = NoWriter /\ writer' = w

(* A client command stores its change and then publishes what it reads;    *)
(* a revocation publishes the state it has stored.                         *)
StateFirst(kind, u) ==
  /\ saved.gen < MaxSaves
  /\ kind = "revoke" => u \in saved.users
  /\ saved' = Toggled(u)
  /\ Starts([NoWriter EXCEPT !.kind = kind, !.file = Render(saved'),
                             !.pc = IF kind = "revoke" THEN "publish" ELSE "render"])
  /\ Unsettle("overlap", kind = "revoke" /\ SomeExposed)
  /\ UNCHANGED <<window, listener, change, troubles>>

(* Repair publishes the committed state.                                   *)
Repair ==
  /\ Starts([NoWriter EXCEPT !.kind = "repair", !.pc = "render"])
  /\ UNCHANGED <<saved, window, listener, change, unsettled, troubles>>

WriterRenders ==
  /\ writer.pc = "render"
  /\ writer' = [writer EXCEPT !.pc = "publish", !.file = Render(saved)]
  /\ Unsettle("overlap", SomeExposed)
  /\ UNCHANGED <<saved, window, listener, change, troubles>>

(* A join publishes its candidate before it is stored, over a snapshot.    *)
JoinPublishes(u) ==
  /\ saved.gen < MaxSaves /\ u \notin saved.users
  /\ Starts([NoWriter EXCEPT !.kind = "join", !.pc = "publish", !.cand = Toggled(u),
                             !.file = Render(Toggled(u)), !.old = live])
  /\ Unsettle("overlap", SomeExposed)
  /\ UNCHANGED <<saved, window, listener, change, troubles>>

(* A join restores its snapshot; the others report the failure.            *)
WriterFails ==
  IF writer.kind = "join"
    THEN writer' = [writer EXCEPT !.pc = "restore"] /\ UNCHANGED unsettled
    ELSE writer' = NoWriter /\ Unsettle("told", TRUE)

(* roles.Apply: the configuration, then its marker.                        *)
WriterPublishes ==
  /\ writer.pc = "publish"
  /\ \/ /\ live' = [live EXCEPT !.config = writer.file]
        /\ writer' = [writer EXCEPT !.pc = "marker"] /\ UNCHANGED <<unsettled, troubles>>
     \/ Trouble /\ live' \in {live, [live EXCEPT !.config = writer.file]} /\ WriterFails
  /\ UNCHANGED <<saved, window, runs, stage, flock, change>>

WriterMarks ==
  /\ writer.pc = "marker"
  /\ \/ /\ live' = [live EXCEPT !.marker = writer.file]
        /\ writer' = [writer EXCEPT !.pc = "restart"] /\ UNCHANGED <<unsettled, troubles>>
     \/ Trouble /\ live' \in {live, [live EXCEPT !.marker = writer.file]} /\ WriterFails
  /\ UNCHANGED <<saved, window, runs, stage, flock, change>>

(* The writer has published the stored state and nothing else is at work.  *)
Settles == flock = "none" /\ Published(Render(saved))

(* A client command, a revocation and a repair end with the restart.       *)
WriterRestarts ==
  /\ writer.pc = "restart"
  /\ \/ /\ runs' = live.config /\ UNCHANGED troubles
        /\ IF writer.kind = "join"
             THEN writer' = [writer EXCEPT !.pc = "save"] /\ UNCHANGED unsettled
             ELSE writer' = NoWriter /\ unsettled' = IF Settles THEN "no" ELSE unsettled
     \/ /\ Trouble /\ UNCHANGED runs
        /\ WriterFails
  /\ UNCHANGED <<saved, window, live, stage, flock, change>>

JoinSaves ==
  /\ writer.pc = "save"
  /\ \/ /\ writer.cand.gen = saved.gen + 1
        /\ saved' = writer.cand /\ writer' = NoWriter /\ UNCHANGED troubles
     \/ /\ writer.cand.gen # saved.gen + 1
        /\ writer' = [writer EXCEPT !.pc = "restore"] /\ UNCHANGED <<saved, troubles>>
     \/ Trouble /\ writer' = [writer EXCEPT !.pc = "restore"] /\ UNCHANGED saved
  /\ UNCHANGED <<window, listener, change, unsettled>>

(* The save fails and so does looking at its outcome: what was published   *)
(* is kept and the join reported as uncertain.                             *)
JoinUncertain ==
  /\ writer.pc = "save" /\ Trouble
  /\ saved' \in {saved} \cup {s \in {writer.cand} : s.gen = saved.gen + 1}
  /\ writer' = NoWriter /\ Unsettle("told", TRUE)
  /\ UNCHANGED <<window, listener, change>>

JoinRestores ==
  /\ writer.pc = "restore"
  /\ writer' = NoWriter
  /\ \/ live' = writer.old /\ runs' = writer.old.config /\ UNCHANGED <<unsettled, troubles>>
     \/ /\ Trouble /\ Unsettle("told", TRUE)
        /\ live' \in {live, writer.old} /\ runs' \in {runs, live'.config}
  /\ UNCHANGED <<saved, window, stage, flock, change>>

(* Any other change of the gateway's state.                                *)
OtherSave ==
  /\ saved.gen < MaxSaves
  /\ saved' = [saved EXCEPT !.gen = @ + 1]
  /\ UNCHANGED <<window, listener, change, writer, unsettled, troubles>>

OthersStep ==
  \/ \E u \in Peers : StateFirst("client", u) \/ StateFirst("revoke", u) \/ JoinPublishes(u)
  \/ Repair \/ WriterRenders \/ WriterPublishes \/ WriterMarks \/ WriterRestarts
  \/ JoinSaves \/ JoinUncertain \/ JoinRestores
  \/ OtherSave \/ WindowCloses

-----------------------------------------------------------------------------
HostKill(p) ==
  /\ change[p] # NoCommand /\ Trouble
  /\ Leaves(p)
  /\ Unsettle("killed", Midway(p))
  /\ UNCHANGED <<saved, window, live, runs, stage, writer>>

WriterKill ==
  /\ writer # NoWriter /\ Trouble
  /\ writer' = NoWriter /\ Unsettle("killed", TRUE)
  /\ UNCHANGED <<saved, window, listener, change>>

HostReboot ==
  /\ Trouble
  /\ change' = [p \in HostProcs |-> NoCommand] /\ flock' = "none" /\ writer' = NoWriter
  /\ runs' = live.config
  /\ Unsettle("killed", writer # NoWriter \/ \E p \in HostProcs : Midway(p))
  /\ UNCHANGED <<saved, window, live, stage>>

HostNext ==
  \/ \E p \in HostProcs : HostStep(p) \/ HostKill(p)
  \/ OthersStep \/ WriterKill \/ HostReboot

HostSpec == HostInit /\ [][HostNext]_hostVars

-----------------------------------------------------------------------------
(* While no activation and no other writer is at work, the two files and   *)
(* the running listener are those of the stored state - the same host, and *)
(* every user that is on record - unless one of the Reasons has occurred   *)
(* since a writer last settled the two: a failure was reported, a command  *)
(* was killed in the middle, an activation lost its save to another writer *)
(* (which nobody is told of), or another writer's contents crossed an      *)
(* activation after its last look at the files (nor of that).  Overlaps    *)
(* that end before that look are refused and are not exempt.               *)
ListenerFollowsState ==
  unsettled = "no" /\ flock = "none" /\ writer = NoWriter =>
    Published(Render(saved)) /\ runs = Render(saved)

(* The nodes and clients that a commit reports as needing the new host are *)
(* those that used the listener when the host changed: the impact that was *)
(* reviewed at prepare still held at commit.                               *)
CommitReviewed ==
  saved.change.state = "committed" => saved.change.impact = saved.change.under

HostSound == ListenerFollowsState /\ CommitReviewed

(* What transport_host_command.go:400 says of a command that failed: the   *)
(* active host was not changed unless reported as uncertain.  A conflict   *)
(* at the save is reported as a conflict although the listener has moved   *)
(* (README, section 4), so no run lists it.                                *)
RefusedUnchanged ==
  [][\A p \in HostProcs :
       In(p, "uncertain") /\ change'[p] = NoCommand => runs.host = saved.host]_hostVars
=============================================================================
