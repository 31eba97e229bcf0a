------------------------------ MODULE Watchdog ------------------------------
(***************************************************************************)
(* The gateway's lockout watchdog: the dead-man's switch that surrounds    *)
(* every firewall change on a gateway reached only over SSH.               *)
(*                                                                         *)
(*   internal/operations/watchdog.go          transaction store, confirm   *)
(*   internal/platform/linux/watchdog_*.go    timer/service units, restore *)
(*   internal/lifecycle/gateway_init.go       the `init` installer         *)
(*   internal/controller/gateway_repair.go    the `repair` installer       *)
(*                                                                         *)
(* Four actors interleave: the installer process (init, its retry, or      *)
(* repair), systemd (one timer and one oneshot service per transaction),   *)
(* the operator (new SSH sessions and `vpnctl confirm`), and the host      *)
(* (time, crashes, reboots).  The durable state of a transaction is its    *)
(* directory: the snapshot and three marker files, written under a flock.  *)
(***************************************************************************)
EXTENDS Integers, FiniteSets, Sequences

CONSTANTS
  Txns,          \* transaction IDs the random generator can return
  None,          \* "no transaction"
  Ports,         \* SSH listener ports
  AllowedPort,   \* WatchdogTransaction.AllowedSSHPort
  Window,        \* WatchdogSeconds (120 s), in ticks
  MaxTime,       \* bound: ticks of one boot
  MaxSessions,   \* bound: SSH sessions alive at once
  MaxFaults,     \* bound: failures injected in one behaviour
  FaultKinds     \* the failures a run injects, a subset of AllFaults

AllFaults == {"crash", "step", "systemctl", "restore", "reboot"}

ASSUME WatchdogAssumptions ==
  /\ Txns # {} /\ None \notin Txns
  /\ AllowedPort \in Ports
  /\ Window \in Nat \ {0} /\ MaxTime \in Nat
  /\ MaxSessions \in Nat /\ MaxFaults \in Nat
  /\ FaultKinds \subseteq AllFaults

(* What the kernel enforces, per class of resource that activateGateway    *)
(* writes: the inet/vpnctl nftables table, then the forwarding sysctls.    *)
Planes   == {"firewall", "sysctls"}
Configs  == {"prior", "candidate"}
Networks == [Planes -> Configs]
PriorNetwork     == [p \in Planes |-> "prior"]
CandidateNetwork == [p \in Planes |-> "candidate"]

Kinds == {"init", "repair"}
InstallerPCs ==
  {"idle", "mkdir", "start", "armed", "apply", "sysctls", "verify",
   "boundary", "mark", "finish", "fail", "await", "stop"}
ServicePCs == {"idle", "queued", "firewall", "sysctls", "failed"}

VARIABLES
  now,         \* monotonic ticks since boot
  boot,        \* boot ID
  net,         \* the network the kernel enforces now
  blocks,      \* does the candidate firewall lock new SSH sessions out?
  sessions,    \* live SSH sessions
  durable,     \* [Txns -> "absent" | "torn" | "ready"]: the directory
  created,     \* transactions in order of prepared_at
  snapshot,    \* snapshot.json: the network before the change
  activated,   \* activated.json exists
  actBoot,     \* ... its SessionBoundary.BootID
  actAt,       \* ... its SessionBoundary.MonotonicNanos
  committed,   \* committed.json exists
  rolledBack,  \* rolled-back.json exists
  proof,       \* the firewall the confirming session came in through
  timerOn,     \* vpnctl-watchdog@t.timer is active
  due,         \* ... and elapses at this tick
  svc,         \* vpnctl-watchdog@t.service
  svcErr,      \* its current Restore has met an error
  unstopped,   \* confirmed transactions whose StopTimer is still to come
  ipc,         \* the installer process: where it is,
  kind,        \*   which command it runs,
  cur,         \*   its transaction,
  bound,       \*   and the session boundary it has read
  ready,       \* GatewayBootstrapReadiness of packages and ingress
  mishaps,     \* history: which of Mishaps have happened
  faults       \* failures injected so far

clockVars     == <<now, boot>>
markerVars    == <<durable, created, snapshot, activated, actBoot, actAt,
                   committed, rolledBack, proof>>
systemdVars   == <<timerOn, due, svc, svcErr>>
installerVars == <<ipc, kind, cur, bound, ready>>
operatorVars  == <<sessions, unstopped>>
vars == <<now, boot, net, blocks, sessions, durable, created, snapshot,
          activated, actBoot, actAt, committed, rolledBack, proof, timerOn,
          due, svc, svcErr, unstopped, ipc, kind, cur, bound, ready, mishaps,
          faults>>

(* What neither the code nor the operator's manual prevents.  "late": an   *)
(* installer writes the candidate when its own timer has already elapsed.  *)
(* "overlap": init arms while an undecided transaction is alive.  "half":  *)
(* a restore fails for one class of resource.                              *)
Mishaps == {"late", "overlap", "half"}

SessionSet == [started : Nat, port : Ports, via : Configs]

TypeOK ==
  /\ now \in Nat /\ boot \in Nat
  /\ net \in Networks /\ blocks \in BOOLEAN
  /\ sessions \subseteq SessionSet
  /\ durable \in [Txns -> {"absent", "torn", "ready"}]
  /\ created \in Seq(Txns)
  /\ snapshot \in [Txns -> Networks]
  /\ activated \in [Txns -> BOOLEAN]
  /\ actBoot \in [Txns -> Nat] /\ actAt \in [Txns -> Nat]
  /\ committed \in [Txns -> BOOLEAN] /\ rolledBack \in [Txns -> BOOLEAN]
  /\ proof \in [Txns -> Configs]
  /\ timerOn \in [Txns -> BOOLEAN] /\ due \in [Txns -> Nat]
  /\ svc \in [Txns -> ServicePCs] /\ svcErr \in [Txns -> BOOLEAN]
  /\ unstopped \subseteq Txns
  /\ ipc \in InstallerPCs /\ kind \in Kinds
  /\ cur \in Txns \cup {None} /\ (ipc # "idle" => cur \in Txns)
  /\ bound \in Nat /\ ready \in BOOLEAN /\ faults \in Nat
  /\ mishaps \subseteq Mishaps

Init ==
  /\ now = 0 /\ boot = 0
  /\ net = PriorNetwork /\ blocks \in BOOLEAN
  /\ sessions = {[started |-> 0, port |-> AllowedPort, via |-> "prior"]}
  /\ durable = [t \in Txns |-> "absent"] /\ created = <<>>
  /\ snapshot = [t \in Txns |-> PriorNetwork]
  /\ activated = [t \in Txns |-> FALSE]
  /\ actBoot = [t \in Txns |-> 0] /\ actAt = [t \in Txns |-> 0]
  /\ committed = [t \in Txns |-> FALSE]
  /\ rolledBack = [t \in Txns |-> FALSE]
  /\ proof = [t \in Txns |-> "prior"]
  /\ timerOn = [t \in Txns |-> FALSE] /\ due = [t \in Txns |-> 0]
  /\ svc = [t \in Txns |-> "idle"] /\ svcErr = [t \in Txns |-> FALSE]
  /\ unstopped = {}
  /\ ipc = "idle" /\ kind = "init" /\ cur = None /\ bound = 0
  /\ ready = FALSE /\ mishaps = {} /\ faults = 0

(* One injected failure, out of the run's budget. *)
Fault(k) == k \in FaultKinds /\ faults < MaxFaults /\ faults' = faults + 1
NoFault == UNCHANGED faults

(* A history of what the code does not prevent. *)
Note(what, when) == mishaps' = IF when THEN mishaps \cup {what} ELSE mishaps

-----------------------------------------------------------------------------
(* The transaction store *)

(* withLock: the rollback service is the only long holder of a             *)
(* transaction's flock; MarkActivated, Commit and Status are short.        *)
LockFree(t) == durable[t] = "ready" /\ svc[t] \notin {"firewall", "sysctls"}

Status(t) ==
  IF committed[t] THEN "committed"
  ELSE IF rolledBack[t] THEN "rolled_back"
  ELSE IF activated[t] THEN "active" ELSE "armed"

(* TransactionIDs loads every directory, so one torn directory fails it. *)
TransactionIDsReadable == \A t \in Txns : durable[t] # "torn"

InitialNetworkSnapshot == snapshot[Head(created)]

(* networkRequirement: repair re-arms only when every retained transaction *)
(* was rolled back.                                                        *)
RepairMayArm ==
  /\ TransactionIDsReadable
  /\ created # <<>>
  /\ \A t \in Txns :
       durable[t] = "ready" => LockFree(t) /\ Status(t) = "rolled_back"

(* planExisting: a ready gateway makes init a no-op; no other transaction  *)
(* is looked at.                                                           *)
InitMayArm == ~ready

Live(t) == timerOn[t] \/ svc[t] # "idle"
Decided(t) == committed[t] \/ rolledBack[t]

-----------------------------------------------------------------------------
(* The installer process *)

(* Arm: Snapshot, then Create's Mkdir.  The directory is torn until the    *)
(* snapshot and the lock file are in it.                                   *)
Arm(k, t) ==
  /\ ipc = "idle"
  /\ durable[t] = "absent"
  /\ k = "init" => InitMayArm
  /\ k = "repair" => RepairMayArm
  /\ ipc' = "mkdir" /\ kind' = k /\ cur' = t
  /\ snapshot' = [snapshot EXCEPT ![t] = net]
  /\ durable' = [durable EXCEPT ![t] = "torn"]
  /\ created' = Append(created, t)
  /\ Note("overlap", \E u \in Txns : Live(u) /\ ~Decided(u))
  /\ NoFault
  /\ UNCHANGED <<clockVars, net, blocks, operatorVars, activated, actBoot,
                 actAt, committed, rolledBack, proof, systemdVars, bound,
                 ready>>

(* Create's exclusive write of snapshot.json and of the lock file. *)
CreateTransaction ==
  /\ ipc = "mkdir"
  /\ durable' = [durable EXCEPT ![cur] = "ready"]
  /\ ipc' = "start"
  /\ NoFault
  /\ UNCHANGED <<clockVars, net, blocks, mishaps, operatorVars, created, snapshot,
                 activated, actBoot, actAt, committed, rolledBack, proof,
                 systemdVars, kind, cur, bound, ready>>

StartTimer ==
  /\ ipc = "start"
  /\ now + Window <= MaxTime      \* bound: the timer can elapse
  /\ timerOn' = [timerOn EXCEPT ![cur] = TRUE]
  /\ due' = [due EXCEPT ![cur] = now + Window]
  /\ ipc' = "armed"
  /\ NoFault
  /\ UNCHANGED <<clockVars, net, blocks, mishaps, operatorVars, markerVars, svc,
                 svcErr, kind, cur, bound, ready>>

(* Arm returns an error: the caller undoes packages and identities and     *)
(* never reaches the network.                                              *)
ArmFails ==
  /\ ipc \in {"mkdir", "start"}
  /\ Fault("step")
  /\ ipc' = "idle"
  /\ UNCHANGED <<clockVars, net, blocks, mishaps, operatorVars, markerVars,
                 systemdVars, kind, cur, bound, ready>>

(* A repair goes on only from the network that was there before vpnctl.    *)
RepairSnapshotMatches ==
  kind = "repair" => snapshot[cur] = InitialNetworkSnapshot

(* What is left between Arm and the network.  Init still creates swap,     *)
(* transports, the state file, roles and ingress, which makes readiness    *)
(* healthy; repair did its part before Arm and only compares its snapshot  *)
(* with the initial one.                                                   *)
Provision ==
  /\ ipc = "armed"
  /\ ready' = (ready \/ RepairSnapshotMatches)
  /\ ipc' = IF RepairSnapshotMatches THEN "apply" ELSE "fail"
  /\ NoFault
  /\ UNCHANGED <<clockVars, net, blocks, mishaps, operatorVars, markerVars,
                 systemdVars, kind, cur, bound>>

(* activateGateway: the nftables batch is one atomic nft transaction. *)
ActivateFirewall ==
  /\ ipc = "apply"
  /\ net' = [net EXCEPT !["firewall"] = "candidate"]
  /\ Note("late", ~timerOn[cur])
  /\ ipc' = "sysctls"
  /\ NoFault
  /\ UNCHANGED <<clockVars, blocks, operatorVars, markerVars, systemdVars,
                 kind, cur, bound, ready>>

ActivateSysctls ==
  /\ ipc = "sysctls"
  /\ net' = [net EXCEPT !["sysctls"] = "candidate"]
  /\ Note("late", ~timerOn[cur])
  /\ ipc' = "verify"
  /\ NoFault
  /\ UNCHANGED <<clockVars, blocks, operatorVars, markerVars, systemdVars,
                 kind, cur, bound, ready>>

(* Readiness.Inspect and the convergence publication succeed. *)
VerifyAndPublish ==
  /\ ipc = "verify"
  /\ ipc' = "boundary"
  /\ NoFault
  /\ UNCHANGED <<clockVars, net, blocks, mishaps, operatorVars, markerVars,
                 systemdVars, kind, cur, bound, ready>>

(* Variant: a boundary backdated by the confirmation window. *)
ReadBackdatedBoundary ==
  /\ ipc = "boundary"
  /\ bound' = now - Window
  /\ ipc' = "mark"
  /\ NoFault
  /\ UNCHANGED <<clockVars, net, blocks, mishaps, operatorVars, markerVars,
                 systemdVars, kind, cur, ready>>

(* MarkActivated reads the session boundary before it takes the lock. *)
ReadBoundary ==
  /\ ipc = "boundary"
  /\ bound' = now
  /\ ipc' = "mark"
  /\ NoFault
  /\ UNCHANGED <<clockVars, net, blocks, mishaps, operatorVars, markerVars,
                 systemdVars, kind, cur, ready>>

MarkActivated ==
  /\ ipc = "mark" /\ LockFree(cur)
  /\ IF committed[cur] \/ rolledBack[cur] \/ activated[cur]
       THEN ipc' = "fail" /\ UNCHANGED <<activated, actBoot, actAt>>
       ELSE /\ activated' = [activated EXCEPT ![cur] = TRUE]
            /\ actBoot' = [actBoot EXCEPT ![cur] = boot]
            /\ actAt' = [actAt EXCEPT ![cur] = bound]
            /\ ipc' = "finish"
  /\ NoFault
  /\ UNCHANGED <<clockVars, net, blocks, mishaps, operatorVars, durable, created,
                 snapshot, committed, rolledBack, proof, systemdVars, kind,
                 cur, bound, ready>>

(* Packages.Commit and Ingress.Commit (bootstrap.Commit in repair). *)
FinishInstall ==
  /\ ipc = "finish"
  /\ ipc' = "idle"
  /\ NoFault
  /\ UNCHANGED <<clockVars, net, blocks, mishaps, operatorVars, markerVars,
                 systemdVars, kind, cur, bound, ready>>

(* Any of these steps returns an error: fail() / rollbackAll(). *)
StepFails ==
  /\ ipc \in {"armed", "apply", "sysctls", "verify", "boundary", "mark",
            "finish"}
  /\ Fault("step")
  /\ ipc' = "fail"
  /\ UNCHANGED <<clockVars, net, blocks, mishaps, operatorVars, markerVars,
                 systemdVars, kind, cur, bound, ready>>

(* fail() takes back packages and ingress, so init is unready again; the   *)
(* repair's bootstrap.Rollback goes back to whatever readiness there was.  *)
ReadyAfterRollback == IF kind = "init" THEN {FALSE} ELSE BOOLEAN

(* RollbackNow: `systemctl start` of the oneshot blocks until it has run.  *)
TriggerRollback ==
  /\ ipc = "fail"
  /\ svc' = [svc EXCEPT ![cur] = IF @ = "idle" THEN "queued" ELSE @]
  /\ ipc' = "await"
  /\ ready' \in ReadyAfterRollback
  /\ NoFault
  /\ UNCHANGED <<clockVars, net, blocks, mishaps, operatorVars, markerVars, timerOn,
                 due, svcErr, kind, cur, bound>>

(* Variant: RollbackNow stops the timer even if the trigger failed. *)
TriggerFailsAndStops ==
  /\ \/ ipc = "fail" /\ Fault("systemctl")
     \/ ipc = "await" /\ svc[cur] = "failed" /\ NoFault
  /\ ipc' = "idle"
  /\ ready' \in ReadyAfterRollback
  /\ timerOn' = [timerOn EXCEPT ![cur] = FALSE]
  /\ UNCHANGED <<clockVars, net, blocks, mishaps, operatorVars, markerVars, due, svc,
                 svcErr, kind, cur, bound>>

(* A failed trigger, or a failed first run, makes RollbackNow return       *)
(* without StopTimer.                                                      *)
TriggerFails ==
  /\ \/ ipc = "fail" /\ Fault("systemctl")
     \/ ipc = "await" /\ svc[cur] = "failed" /\ NoFault
  /\ ipc' = "idle"
  /\ ready' \in ReadyAfterRollback
  /\ UNCHANGED <<clockVars, net, blocks, mishaps, operatorVars, markerVars,
                 systemdVars, kind, cur, bound>>

RollbackReturned ==
  /\ ipc = "await" /\ svc[cur] = "idle"
  /\ ipc' = "stop"
  /\ NoFault
  /\ UNCHANGED <<clockVars, net, blocks, mishaps, operatorVars, markerVars,
                 systemdVars, kind, cur, bound, ready>>

StopTimerAfterRollback ==
  /\ ipc = "stop"
  /\ \/ timerOn' = [timerOn EXCEPT ![cur] = FALSE] /\ NoFault
     \/ UNCHANGED timerOn /\ Fault("systemctl")
  /\ ipc' = "idle"
  /\ UNCHANGED <<clockVars, net, blocks, mishaps, operatorVars, markerVars, due, svc,
                 svcErr, kind, cur, bound, ready>>

(* The installer is killed.  Whatever is durable stays. *)
CrashInstaller ==
  /\ ipc # "idle"
  /\ Fault("crash")
  /\ ipc' = "idle"
  /\ UNCHANGED <<clockVars, net, blocks, mishaps, operatorVars, markerVars,
                 systemdVars, kind, cur, bound, ready>>

-----------------------------------------------------------------------------
(* systemd: OnActiveSec timer, Type=oneshot service, Restart=on-failure *)

TimerElapses(t) ==
  /\ timerOn[t] /\ now >= due[t]
  /\ timerOn' = [timerOn EXCEPT ![t] = FALSE]
  /\ svc' = [svc EXCEPT ![t] = IF @ = "idle" THEN "queued" ELSE @]
  /\ NoFault
  /\ UNCHANGED <<clockVars, net, blocks, mishaps, operatorVars, markerVars, due,
                 svcErr, installerVars>>

(* Variant: the committed marker is not read. *)
BeginRollbackUnchecked(t) ==
  /\ svc[t] = "queued"
  /\ svc' = [svc EXCEPT ![t] = IF rolledBack[t] THEN "idle" ELSE "firewall"]
  /\ svcErr' = [svcErr EXCEPT ![t] = FALSE]
  /\ NoFault
  /\ UNCHANGED <<clockVars, net, blocks, mishaps, operatorVars, markerVars, timerOn,
                 due, installerVars>>

(* WatchdogStore.Rollback takes the lock and reads the terminal markers. *)
BeginRollback(t) ==
  /\ svc[t] = "queued"
  /\ svc' = [svc EXCEPT ![t] =
               IF committed[t] \/ rolledBack[t] THEN "idle" ELSE "firewall"]
  /\ svcErr' = [svcErr EXCEPT ![t] = FALSE]
  /\ NoFault
  /\ UNCHANGED <<clockVars, net, blocks, mishaps, operatorVars, markerVars, timerOn,
                 due, installerVars>>

(* Restore converges each class; a class that fails does not stop the next.*)
RestoreFirewall(t) ==
  /\ svc[t] = "firewall"
  /\ \/ /\ net' = [net EXCEPT !["firewall"] = snapshot[t]["firewall"]]
        /\ NoFault /\ UNCHANGED <<svcErr, mishaps>>
     \/ /\ Fault("restore") /\ UNCHANGED net /\ mishaps' = mishaps \cup {"half"}
        /\ svcErr' = [svcErr EXCEPT ![t] = TRUE]
  /\ svc' = [svc EXCEPT ![t] = "sysctls"]
  /\ UNCHANGED <<clockVars, blocks, operatorVars, markerVars, timerOn, due,
                 installerVars>>

(* Variant: only the last class's error counts. *)
RestoreAndMarkAnyway(t) ==
  /\ svc[t] = "sysctls"
  /\ net' = [net EXCEPT !["sysctls"] = snapshot[t]["sysctls"]]
  /\ svc' = [svc EXCEPT ![t] = "idle"]
  /\ rolledBack' = [rolledBack EXCEPT ![t] = TRUE]
  /\ NoFault
  /\ UNCHANGED <<clockVars, blocks, mishaps, operatorVars, durable, created, snapshot,
                 activated, actBoot, actAt, committed, proof, timerOn, due,
                 svcErr, installerVars>>

(* The last class, and the rolled-back marker if no class failed. *)
RestoreSysctlsAndMark(t) ==
  /\ svc[t] = "sysctls"
  /\ \/ /\ net' = [net EXCEPT !["sysctls"] = snapshot[t]["sysctls"]]
        /\ NoFault /\ UNCHANGED mishaps
        /\ IF svcErr[t]
             THEN /\ svc' = [svc EXCEPT ![t] = "failed"]
                  /\ UNCHANGED rolledBack
             ELSE /\ svc' = [svc EXCEPT ![t] = "idle"]
                  /\ rolledBack' = [rolledBack EXCEPT ![t] = TRUE]
     \/ /\ Fault("restore") /\ UNCHANGED <<net, rolledBack>> /\ mishaps' = mishaps \cup {"half"}
        /\ svc' = [svc EXCEPT ![t] = "failed"]
  /\ UNCHANGED <<clockVars, blocks, operatorVars, durable, created, snapshot,
                 activated, actBoot, actAt, committed, proof, timerOn, due,
                 svcErr, installerVars>>

(* Variant: systemd gives up on a unit that failed. *)
RestartServiceNever(t) ==
  /\ svc[t] = "failed"
  /\ svc' = [svc EXCEPT ![t] = "idle"]
  /\ NoFault
  /\ UNCHANGED <<clockVars, net, blocks, mishaps, operatorVars, markerVars, timerOn,
                 due, svcErr, installerVars>>

(* RestartSec=1s, StartLimitIntervalSec=0: the unit is retried for ever. *)
RestartService(t) ==
  /\ svc[t] = "failed"
  /\ svc' = [svc EXCEPT ![t] = "queued"]
  /\ NoFault
  /\ UNCHANGED <<clockVars, net, blocks, mishaps, operatorVars, markerVars, timerOn,
                 due, svcErr, installerVars>>

-----------------------------------------------------------------------------
(* The operator *)

(* A new SSH session gets in through the firewall in force.  The candidate *)
(* admits only the verified SSH listener, and not even that if it is wrong.*)
Login(p) ==
  /\ Cardinality(sessions) < MaxSessions
  /\ net["firewall"] = "candidate" => p = AllowedPort /\ ~blocks
  /\ sessions' = sessions \cup
       {[started |-> now, port |-> p, via |-> net["firewall"]]}
  /\ NoFault
  /\ UNCHANGED <<clockVars, net, blocks, mishaps, unstopped, markerVars, systemdVars,
                 installerVars>>

(* Variant: a session from before the activation is accepted. *)
AnySessionAccepted(t, s) ==
  /\ actBoot[t] = boot
  /\ now >= actAt[t] /\ now < actAt[t] + Window
  /\ s.port = AllowedPort

(* Confirm's proof, checked inside the lock. *)
ProofAccepted(t, s) ==
  /\ actBoot[t] = boot
  /\ now >= actAt[t] /\ now < actAt[t] + Window
  /\ s.started > actAt[t]
  /\ s.port = AllowedPort

Confirm(t, s) ==
  /\ LockFree(t)
  /\ ~rolledBack[t] /\ ~committed[t] /\ activated[t]
  /\ ProofAccepted(t, s)
  /\ committed' = [committed EXCEPT ![t] = TRUE]
  /\ proof' = [proof EXCEPT ![t] = s.via]
  /\ unstopped' = unstopped \cup {t}
  /\ NoFault
  /\ UNCHANGED <<clockVars, net, blocks, mishaps, sessions, durable, created,
                 snapshot, activated, actBoot, actAt, rolledBack,
                 systemdVars, installerVars>>

(* Confirm's StopTimer.  If it fails, or the process dies first, the timer *)
(* runs on and its rollback must find the committed marker.                *)
StopCommittedTimer(t) ==
  /\ t \in unstopped
  /\ \/ timerOn' = [timerOn EXCEPT ![t] = FALSE] /\ NoFault
     \/ UNCHANGED timerOn /\ Fault("systemctl")
  /\ unstopped' = unstopped \ {t}
  /\ UNCHANGED <<clockVars, net, blocks, mishaps, sessions, markerVars, due, svc,
                 svcErr, installerVars>>

-----------------------------------------------------------------------------
(* The host *)

Tick ==
  /\ now < MaxTime
  /\ now' = now + 1
  /\ NoFault
  /\ UNCHANGED <<boot, net, blocks, mishaps, operatorVars, markerVars, systemdVars,
                 installerVars>>

(* Nftables, sysctls, sessions and the (not enabled) timers are volatile;  *)
(* no unit reapplies the gateway firewall at boot.                         *)
Reboot ==
  /\ Fault("reboot")
  /\ boot' = boot + 1 /\ now' = 0
  /\ net' = PriorNetwork
  /\ sessions' = {} /\ unstopped' = {}
  /\ timerOn' = [t \in Txns |-> FALSE]
  /\ svc' = [t \in Txns |-> "idle"]
  /\ ipc' = "idle"
  /\ UNCHANGED <<blocks, mishaps, markerVars, due, svcErr, kind, cur, bound, ready>>

Next ==
  \/ \E k \in Kinds, t \in Txns : Arm(k, t)
  \/ CreateTransaction \/ StartTimer \/ ArmFails
  \/ Provision
  \/ ActivateFirewall \/ ActivateSysctls
  \/ VerifyAndPublish \/ ReadBoundary \/ MarkActivated \/ FinishInstall
  \/ StepFails \/ TriggerRollback \/ TriggerFails \/ RollbackReturned
  \/ StopTimerAfterRollback \/ CrashInstaller
  \/ \E t \in Txns :
       \/ TimerElapses(t) \/ BeginRollback(t) \/ RestoreFirewall(t)
       \/ RestoreSysctlsAndMark(t) \/ RestartService(t)
       \/ StopCommittedTimer(t)
       \/ \E s \in sessions : Confirm(t, s)
  \/ \E p \in Ports : Login(p)
  \/ Tick \/ Reboot

Spec == Init /\ [][Next]_vars

-----------------------------------------------------------------------------
(* Safety *)

Serial == "overlap" \notin mishaps
Calm == Serial /\ "late" \notin mishaps

(* The two terminal markers exclude each other, whatever races: Status     *)
(* reports both as a conflict nobody can resolve (watchdog.go Status).     *)
TerminalExclusive == \A t \in Txns : ~(committed[t] /\ rolledBack[t])

(* The dead-man's switch: while any part of an unconfirmed candidate       *)
(* network is in force, some live timer or rollback run will restore the   *)
(* network from before vpnctl (Arm's "callers must not apply any           *)
(* lockout-risk candidate until Arm succeeds").  Not once an installer has *)
(* written the candidate after its own timer had elapsed, or init was run  *)
(* beside an undecided transaction: nothing prevents either (README,       *)
(* section 4).                                                             *)
CandidateGuarded ==
  (Calm /\ net # PriorNetwork /\ \A t \in Txns : ~committed[t]) =>
    \E t \in Txns : /\ Live(t) /\ durable[t] = "ready" /\ ~rolledBack[t]
                    /\ snapshot[t] = PriorNetwork

(* A confirmed network stays: as long as the host has not rebooted, a      *)
(* committed transaction has its whole candidate network in force.         *)
CommittedNetworkInForce ==
  \A t \in Txns :
    committed[t] /\ actBoot[t] = boot => net = CandidateNetwork

(* "Only the new session proves connectivity": the session that confirmed  *)
(* a transaction had come in through the candidate firewall.               *)
ConfirmedThroughCandidate ==
  \A t \in Txns : committed[t] => proof[t] = "candidate"

(* The oldest retained snapshot is the network from before vpnctl: what    *)
(* uninstall and repair take InitialNetworkSnapshot to be.                 *)
InitialSnapshotIsPrior ==
  TransactionIDsReadable /\ created # <<>> =>
    InitialNetworkSnapshot = PriorNetwork

(* What a commit promises: the operator has proved the candidate network,  *)
(* keeps it, and finds the way back to the network from before vpnctl.     *)
(* The first two not once init was run beside an undecided transaction, or *)
(* a restore failed half-way (README, section 4); a late installer breaks  *)
(* none of them.                                                           *)
CommitSound ==
  /\ InitialSnapshotIsPrior
  /\ Serial /\ "half" \notin mishaps =>
       CommittedNetworkInForce /\ ConfirmedThroughCandidate

(* A step that writes rolled-back.json leaves the snapshot in force: the   *)
(* marker turns every later rollback into a no-op, so it must not be       *)
(* written over a partial restore, however many restores failed before.    *)
(* Not if the installer writes the candidate while the run restores, or    *)
(* two transactions are undecided at once.                                 *)
MarkerMeansRestored ==
  [][Calm' =>
       \A t \in Txns :
         rolledBack'[t] /\ ~rolledBack[t] => net' = snapshot[t]]_vars

-----------------------------------------------------------------------------
(* The inductive invariants behind these. *)

(* While a rollback run holds a transaction's lock, neither terminal       *)
(* marker exists: nobody else writes one without the lock.                 *)
Holding(t) == svc[t] \in {"firewall", "sysctls"}
LockHeldUndecided ==
  \A t \in Txns : Holding(t) => ~committed[t] /\ ~rolledBack[t]
MarkerInv == LockHeldUndecided /\ TerminalExclusive

InstallerBusy ==
  ipc \in {"armed", "apply", "sysctls", "verify", "boundary", "mark"}
NothingCommitted == \A t \in Txns : ~committed[t]
Fresh(t) ==
  /\ ~timerOn[t] /\ svc[t] = "idle"
  /\ ~activated[t] /\ ~committed[t] /\ ~rolledBack[t]

(* A directory that is not complete has no timer, no run and no marker. *)
UnreadyFresh == \A t \in Txns : durable[t] # "ready" => Fresh(t)
StartFresh ==
  /\ ipc = "mkdir" => durable[cur] = "torn"
  /\ ipc = "start" => durable[cur] = "ready" /\ Fresh(cur)
(* From Arm to MarkActivated the installer's own timer is pending, or it   *)
(* has elapsed and its run is under way or over.                           *)
BusyGuarded ==
  InstallerBusy =>
    /\ durable[cur] = "ready" /\ ~activated[cur] /\ ~committed[cur]
    /\ timerOn[cur] => svc[cur] = "idle" /\ ~rolledBack[cur]
    /\ ~timerOn[cur] => svc[cur] # "idle" \/ rolledBack[cur]
(* ... and every other live timer or run belongs to a decided transaction. *)
OthersDecided ==
  InstallerBusy \/ ipc \in {"mkdir", "start"} =>
    \A t \in Txns \ {cur} : Live(t) => Decided(t)
UnstoppedCommitted == \A t \in unstopped : committed[t]
(* RollbackNow reaches StopTimer only after the rollback took effect. *)
StopDecided ==
  /\ ipc \in {"finish", "fail", "await", "stop"} => durable[cur] = "ready"
  /\ ipc = "await" => svc[cur] # "idle" \/ Decided(cur)
  /\ ipc = "stop" => Decided(cur)
SerialInv ==
  /\ MarkerInv /\ UnreadyFresh /\ StartFresh /\ BusyGuarded
  /\ OthersDecided /\ UnstoppedCommitted /\ StopDecided

(* Until something is committed, every snapshot is of the prior network. *)
SnapshotsPrior ==
  NothingCommitted => \A t \in Txns : snapshot[t] = PriorNetwork
(* A run that restored the firewall without error still sees it prior. *)
FirewallRestored ==
  \A t \in Txns : NothingCommitted /\ svc[t] = "sysctls" /\ ~svcErr[t]
                    => net["firewall"] = "prior"
PriorInv == SnapshotsPrior /\ FirewallRestored /\ CandidateGuarded

GuardInv == (Serial => SerialInv) /\ (Calm => PriorInv)

-----------------------------------------------------------------------------
(* Liveness: systemd's timers and retries, the clock, and (an installer    *)
(* that is alive keeps going) the installer's own steps.                   *)
InstallerStep ==
  \/ CreateTransaction \/ StartTimer \/ Provision
  \/ ActivateFirewall \/ ActivateSysctls
  \/ VerifyAndPublish
  \/ ReadBoundary \/ MarkActivated \/ FinishInstall \/ TriggerRollback
  \/ TriggerFails \/ RollbackReturned \/ StopTimerAfterRollback
ServiceStep(t) ==
  \/ TimerElapses(t) \/ BeginRollback(t) \/ RestoreFirewall(t)
  \/ RestoreSysctlsAndMark(t) \/ RestartService(t)
Fairness ==
  /\ WF_vars(Tick) /\ WF_vars(InstallerStep)
  /\ \A t \in Txns : WF_vars(ServiceStep(t))
FairSpec == Spec /\ Fairness

(* A candidate that locks every new SSH session out does not last: the     *)
(* firewall from before the change comes back without the operator, unless *)
(* the installer wrote it after its timer had elapsed.                     *)
LockoutEnds ==
  (blocks /\ net["firewall"] = "candidate") ~>
    (net["firewall"] = "prior" \/ "late" \in mishaps)
=============================================================================
