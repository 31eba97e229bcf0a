# TLA+ models of vpnctl

vpnctl turns one public host into a *gateway* and any number of private hosts
into *nodes*: a WireGuard or restricted transport between them, routing and DNS
policies on the nodes, HTTPS ingress and reverse tunnels on the gateway, and a
control plane in which the gateway holds the authoritative fleet state. This
directory models the parts of it where order, failure and concurrency decide
whether it is correct.

## 1. Inventory

| Component (package) | State it keeps | Operations | Hard behaviour | What makes it correct |
|---|---|---|---|---|
| **Lockout watchdog** (`operations/watchdog.go`, `platform/linux/watchdog_*`, `lifecycle/gateway_init.go`) | transaction directories with marker files, systemd timer and service, kernel network | Arm, apply, MarkActivated, Confirm, Rollback | installer, systemd, operator and reboot interleave; restores fail half-way | an unconfirmed network is always taken back; a confirmed one never; only a new session proves access |
| **Cross-host saga** (`operations/cross_host_saga.go`) | revisioned record per operation | Begin, Resume | several coordinators, lost commands and acknowledgements, clocks | the record never claims what the hosts have not done; one operation per request; it ends |
| **State store** (`store/state.go`) | `state.json`, `state.previous.json` | Load, Save | crash between two renames, failed sync, no lock | compare-and-swap; acknowledged changes survive power loss |
| **Controller mutations** (`controller/process.go`, `mutation.go`, `mutation_lock.go`, `model/idempotency.go`) | state, runtime, mutex, flock, bounded request history | local mutation, node RPC, reconcile | two locks, duplicates, evicted records, save that fails after its rename | runtime matches state; a request takes effect at most once; answers are true |
| **Committed repair, client commands** (`cli/committed_gateway_repair.go`, `routing/client.go`) | state and secrets, from CLI processes | repair bootstrap, client add | run beside the daemon | see a stable state; lose nothing |
| **Enrollment, recovery, revocation** (`enrollment`, `cli/node_lifecycle_command.go`) | invites and recovery tokens, credentials on both sides, tunnel identity, runtime | issue, cancel, join, recover, revoke, delete | candidates built without a lock and put in force before they are committed; lost answers; a mutex released by another call | a token takes effect once; runtime, state and both sides' credentials agree; a rollback never takes what another session committed |
| **Transport switch, convergence** (`transport`, `operations/transport_switch_apply.go`, `operations/apply.go`, `repair.go`) | prepared switch, active provider and baseline on the node, selection and operations on the gateway | switch now or later, apply, repair, recover | three stores on two hosts change one after the other | both hosts agree once a command has ended; what runs is what is on record; a registered switch is applied |
| **Expose** (`operations/expose_*`, `tunnel`, `ingress`) | records on both hosts, ports, frpc configuration, nginx generations | create, defer, remove | route, record and mapping change without a common transaction; late and refused calls | public only while mapped; a route leads to its owner; acknowledged means served |
| **CA rotation, renewal** (`controller/ca_rotation.go`, `renewal.go`) | old and new CA, certificates of nodes and gateway, control identity in memory | start, distribute, commit, roll back, renew, restart | nodes move one by one, lost answers, join and revocation in between | every active node can be managed throughout; the stored identity can be loaded |
| **Update and rollback** (`lifecycle/update*.go`) | installed files, metadata, manifest in the state, snapshots with two pointers | update, rollback | files replaced one by one, kills, reboots, writes by others | a recorded outcome is true; the kept snapshot is usable; the controller comes back |
| **Backup, restore, uninstall** (`lifecycle`, `controller/gateway_restore.go`, `cli/uninstall_*`, `routing/client.go`) | configuration and state root, emergency snapshot, archives, units, firewall rules | backup create, restore, uninstall, purge; client add, rotate, revoke, delete beside them | two roots swapped one after the other; writers that survive a stop; kills and failures in between | what an archive holds can be restored; a restore ends old or new; nothing is removed that the operator has not agreed to or that still runs |
| Local component transactions (`operations/local_transaction.go`) | staged and active generation | Prepare, Activate, Commit, Rollback | one of several steps fails | never reports a rollback that did not happen |
| **Handshake host change** (`transport/handshake_host_lifecycle.go`, `controller/handshake_host_system.go`) | host and recorded change in the state, two files of the listener, stage, lock | prepare, commit, roll back; client, join, revoke and repair write the same files | listener first, state second; writers without the lock | state, files and listener agree; what was reviewed is what is committed |
| Platform, output, status, doctor, logging, CLI | none of their own | discovery, reports | — | — |

Interaction: CLI processes on the gateway call the daemon over a Unix socket
(local mutations) or, for some commands, work on the files themselves; nodes
call it by RPC; both paths meet in `store.StateStore.Save`. Runtime changes go
through systemd and nftables; those that can lock the operator out are wrapped
in a watchdog transaction. `PROJECT.json` lists every component with the reason
where it is not modelled, and the hazards at their lines.

## 2. Modules

```
Watchdog ───────────── MCWatchdog            WatchdogProofs
SagaAbstract ◁──refines── CrossHostSaga ── MCCrossHostSaga             CrossHostSagaProofs
AtomicRegister ◁─refines─ StateStore ── StoreCallers ── MCStateStore   ControllerProofs
                              └───────── Controller ─── MCController   ControllerProofs
Enrollment ── MCEnrollment   EnrollmentProofs
TransportSwitch ── MCTransportSwitch   TransportProofs
Expose ── MCExpose   ExposeProofs
CARotation ── MCCARotation   CARotationProofs
SoftwareUpdate ── MCSoftwareUpdate   StateProofs
GatewayData ── MCStateStore   StateProofs
HandshakeHost ── MCStateStore   StateProofs
```

Operators marked *Variant* or *Mutant* in a comment are deliberate bugs. No specification
uses them; each can stand in for the definition that follows it and then breaks
the property `PROJECT.json` pairs it with under "mutants", which shows that the
property depends on that line of the code.

**Watchdog.** `durable`, `snapshot`, `activated`, `committed` and `rolledBack`
are the files of a transaction directory; `timerOn`, `due` and `svc` the two
systemd units; `ipc` the installer's program counter; `net` the network the
kernel enforces, in the two classes that activation writes and restore rewrites
one after the other. `mishaps` is history: which of the three things that neither
the code nor the manual prevents have happened (an installer writes the candidate
after its timer has elapsed, init arms beside an undecided transaction, a restore
fails for one class). The flock of a transaction is held by a rollback run while
`svc` is "firewall" or "sysctls", and by the atomic steps `MarkActivated` and
`Confirm`. A reboot stops timers and services and restores the prior network
(nothing is persisted before confirmation).

**CrossHostSaga.** `rec` is the store, `proc` one coordinator process each
(its own copy of the record, its loop counter), `effects` and `inflight` what
the hosts have applied and what is still on its way. A command outlives the
coordinator that sent it. Store and adapter are interfaces in the code and are
modelled from the coordinator's use of them. `SagaAbstract` is the operation a
caller sees: phases take effect in order, a publication is withdrawn only after
its drain, and the outcome is final. The refinement follows one operation,
`Followed`, which may be any of them.

**StateStore.** A state is the sequence of changes it contains, its generation
their number. `Save` is five steps (check, rename previous, sync, rename state,
sync), each of which may fail and between which others run. `onDisk` is the set
of directory contents a power loss may leave: the last synced one and those
after each later rename, in order. `AtomicRegister` is its promise;
`StoreCallers` puts arbitrary callers on top, `Exclusive` or not.

**Controller.** The callers a gateway has: daemon goroutines for local
mutations (mutex, then flock, then load, runtime, save, look at the file after a
failed save, roll back) and for node RPCs (mutex only; replay, dispatch,
reconcile), `client add` (no lock; stages credentials, saves, cleans up) and the
bootstrap repair (flock only). The request history is a function of the state:
the youngest `MaxRecords` requests, and any number fewer, because records also
expire by age. `drift` records that the caller was told the runtime may differ,
or that a crash left nobody to tell.

**Enrollment.** The gateway's state (`inv`, `rec`, `nodes`, `gen`), its secrets
and tunnel identity, the runtime that is in force (`rt`), the mutex, the public
sessions (`ses`), a revocation at work (`rev`) and the joining machines
(`host`). A session authorises its token, builds a candidate from the state it
read *without* the mutex, puts it in force under the mutex, stages credentials
and commits or rolls back. Each of the gateway's saves may fail with or without
effect; the machine loses answers and gives up. Two history variables mark what
the code does not prevent: `overlap`, a revocation of the CLI (which does not take
the mutex) has published over a session in force or over a commit it does not
know; `denied`, the generations whose machine may hear a status that is not the
gateway's decision.

**TransportSwitch.** The node's record, active provider, baseline and prepared
switches; the gateway's selection and registered operations; commands in two
processes and the messages between the hosts. Immediate and deferred switches,
`apply`, `repair` and recovery of what a killed command left are actions of one
step per write.

**Expose.** `gw` and `node` are the two state files with the exposes in them,
`conf` and `reg` the installed frpc topology and what frps listens for, `nginx`
the linked generation, the routes served and the inactive generations on disk,
`h` the publication that the controller has begun under its lock, `late` the
requests whose caller has given up. A creation is reserve, map, save, observe,
publish, save; a removal is unpublish, save, drain, unmap, release, save.
Every answer but success stops the command where it is (`CallManagement` never
reports that a request was *not* delivered, so all of them are "uncertain").
`torn` records that a restart, a late error of a save or a failed rollback has
separated nginx from the state.

**CARotation.** `state` has the operations, the certificate records, the nodes'
lives and credential generations; `secrets` the references the secret store
holds; `listener` the TLS state of the running control listener. `job` is the
operation under mutationMu: it puts secrets, saves, swaps the listener's state
and deletes secrets, one step each. `writer` is a command that has loaded the
state and saves it later. `holds`, `inbox` and `acks` are the nodes' side. Stage,
distribution and acknowledgement, commit, rollback, renewal, restart, and the
joins, replacements, revocations and deletions in between. A joining or replaced
node has its certificate in the step of the save: that the answer may be lost
afterwards is Enrollment's subject, and a node that never got it is not one the
rotation can lose. The puts and deletes of one operation's secrets are one step
each, and revocation and deletion leave certificate secrets in place that the code
deletes; nothing reads them afterwards.

**SoftwareUpdate.** `file` per component, the two metadata files `bundle` and
`sums`, the manifest and the operations in `state`, the snapshots `dirs` with
their pointers `previous` and `pending`; `job` holds the local variables of a
command. `Apply` and `ApplyRollback` are one write per step, with their deferred
undo chains. Two history variables: `torn`, the operations whose undoing was not
complete, and `overlap`, a command was started while another one ran.

**GatewayData.** `conf` and `root` are the two trees of a gateway, tagged with
where they came from; `snap` the emergency snapshot, `archive` and `away` the
archives on the host and off it, `units`, `net` and `binary` what uninstall
removes, `cmd` and `cli` the program counters of the data command and of a
client command beside it. Backup, restore (snapshot, stage, stop, the two swaps,
start, commit or rollback), uninstall and purge are one action per write, and
the daemon saves whenever it runs. `flaws` records what the code does not claim
to mend: a client command that survived the stop ("stray"), a kill between the
two swaps ("half"), a failed commit or rollback. Managed swap, exports, presets
and the runtime directory are left out. A backup reads its secrets in one step
(`BackupRead`; the code reads them one by one, and a missing one ends the backup
in either case) and checks the state and links the archive in one
(`BackupLink`; a state that moves in between is refused by the save of the
record).

**HandshakeHost.** `saved` is the gateway's state as far as it concerns the
restricted listener: generation, host, users and the recorded change; `live` the
configuration and its ready marker, `runs` what the listener was started with,
`stage` and `flock` the staging directory and the activation lock. `change[p]`
is a `transport host` command from its plan through `Prepare`, the two renames,
the restart and the save to `reconcileStateWrite`; `writer` is the one client
command, join, revocation or repair that writes the same two files, one after the
other. `unsettled` is history, the first of four `Reasons` for which state and
listener may differ: "told" (a command reported a failure or an unknown outcome
with the files moved), "killed" (a process died in the middle), "conflict" (an
activation lost its save to another writer, which the CLI does not tell) and
"overlap" (another writer's contents crossed an activation after its last look at
the files, line 191, which nobody can tell). A client command, revocation or repair
that ends with nothing else at work and its files in place settles it again.

These two modules use the state store only as a register, so `MCStateStore`
checks them and the store side by side: `scope` says which of the three an
execution is about.

## 3. Runs

| Run | Instance (distinct states) | Shows |
|---|---|---|
| watchdog_serial | two transactions, also overlapping ones, installers of any speed, MaxTime 3, two failures (8.7 M) | an unconfirmed candidate is covered (`CandidateGuarded`), the final markers exclude each other (`TerminalExclusive`), a confirmed network stays, was proved through the candidate and the oldest snapshot is the pre-vpnctl network (`CommitSound`); `TypeOK`. Exempt, where the property's comment says so: what follows a late installer or an overlap. Restores that fail half-way are in watchdog_live and in the proofs |
| watchdog_live | one transaction, MaxTime 3, three failures of any kind, fair (1.17 M) | a marker means restored, a lockout ends (`MarkerMeansRestored`, `LockoutEnds`) |
| saga_race | two coordinators, one failure, clock may step back (329 k) | the record is well-formed and backed by effects (`RecordSound`), no effect is ahead of it and a failed operation touched nothing (`EffectsBehindRecord`), refinement of `SagaAbstract` (`ImplementsAbstract`) |
| saga_live | one coordinator, two operation IDs, two failures, clock skew, fair (57 k) | the drain deadline is fixed, the operation settles (`DeadlineStable`, `SagaSettles`) |
| store_crash | store: two exclusive writers, four changes, four failures; gateway data: one client, one archive, two commands, two writes, one mishap, starting from a gateway or from a clean host with an archive; handshake host: two processes, two hosts, one user, four generations (prepare, commit, roll back), one failure (2.9 M together) | no acknowledged change lost, previous file usable, refinement of `AtomicRegister` (`NoLostUpdate`, `PreviousIsPredecessor`, `ImplementsRegister`); archives, snapshot and trees are complete (`DataSound`), a restore that reports its outcome ended with exactly the archive's or the former trees (`RestoreExact`), data is removed only when consented to and nothing runs on it (`RemovalConsented`); files and listener follow the state except for the four `Reasons`, and a committed host change affects whom the review said (`HostSound`) |
| controller_main | local and RPC goroutine, a repair, two requests, two local changes, history of one, two failures (111 k) | runtime follows state (`RuntimeSound`), confirmed stays, refused stays out, nothing lost (`ConfirmedStays`, `RefusedStaysOut`, `NoLostUpdate`) |
| controller_live | the same with `client add`, one request, one failure or power loss, fair (73 k) | at most once and credentials complete (`CrashSound`), every request answered (`RequestsSettle`) |
| enrollment | two machines, two node IDs, two invites, one recovery token, two sessions, revocation by daemon and CLI, MaxGeneration 5, two failures, statuses of a proxy included (1.43 M) | tokens take effect once and as a whole (`TokensAdmitOnce`), a rollback leaves committed nodes their credentials and, with the mutex free, the runtime admits exactly the active nodes (`MembersServed`, unless `drift` or `overlap`), a machine keeps the keys of what the gateway committed (`SidesAgree`, generations in `denied` apart) |
| transport | two processes, MaxNode 3, MaxOther 2, one failure, fair (270 k) | the hosts agree once a command has ended, and what runs and the baseline are as recorded (`NodeSound`), the gateway selects only what was asked for (`SelectionFollowsIntent`), a registered switch is applied (`RegisteredIsApplied`) |
| expose | two nodes, three exposes of which two want one path, two ports, one command at a time on a node, one failure of six kinds (1.41 M) | a public route leads to its owner's mapping and nginx serves what is on record (`RoutesSound`), an acknowledged expose stays served (`AckedStaysServed`), a port is released only when unused (`ReleasedIsUnused`) |
| ca_rotation | one member and one joiner, one rotation, one renewal, one failure, fair (367 k) | every active node stays manageable (`NodesManageable`), the stored identity is consistent and loads, and memory follows the state (`IdentitySound`), a rotation becomes ready to commit (`RotationGetsReady`) |
| update | one command at a time, three releases of two components, two failures of any step but the last start of the controller, two kills or reboots, two writes by others, fair (1.58 M) | unless the operation is `torn`, a recorded outcome is true of the files and the kept snapshot usable, and no command builds on half a release (`ReleaseSound`), no stored state is lost (`NoWriteLost`), the controller comes back (`ManagementReturns`) |

Several properties are conjunctions of named parts (`RecordSound`, `SidesAgree`,
`ReleaseSound`, …): one question, whose parts are defined and explained beside
it in the module.

*Bounds.* Every counter has a named bound (`MaxTime`, `MaxSessions`,
`MaxFaults`, `MaxSkew`, `MaxRecords`, `MaxGeneration`, `MaxOther`, `MaxNode`,
`MaxGen`, `MaxRotations`, `MaxCrashes`, `MaxCommands`, `MaxWrites`,
`MaxMishaps`). Two transactions, coordinators or writers
are the smallest number that race. Watchdog, saga_live, store, controller_main,
enrollment and update allow a failure and a second one while the first is handled;
the other runs allow one. `MaxRecords = 1` makes the second request
evict the first. One goroutine per kind suffices in Controller because the mutex
admits one at a time; the variants that drop it are found with one of each.
MaxTime leaves room for a full window or drain after a start. Two
sessions, two invites and two machines let a join meet another join, a
revocation and a recovery of the same node; three releases let an update follow
a failed one; two exposes for one path and two ports make paths and ports
scarce, so that a removed one's are taken again. Larger instances of the same
models, without a difference in the result: CA rotation with two rotations
(0.8 M and 1.3 M states), expose with nothing published at the start (3.7 M),
with three ports (1.7 M) and with other writers on both nodes (2.9 M), gateway
data with two clients or three commands (5 M and 10 M). Deadlock
is not checked: every one of these programs may come to rest, and that they do
not rest too early is what the liveness properties say.

*Fairness.* Watchdog: time passes, a running process takes its next step, and
systemd runs and restarts its units; operators and failures are not fair. Saga:
someone keeps resuming, time passes, and a command that is not lost arrives.
Controller: running processes run on; a request that can be served again and
again is served (strong fairness), because nodes retry with the same request ID
until they have a definitive answer and `sync.Mutex` hands over to waiters that
have starved. Transport: the operator runs `apply` again while a switch is
registered, which is what its error message asks for. CA rotation: the
controller and the nodes take their next step, and nodes ask again; the caller
that would make them ask is not part of the repository yet, so this is an
assumption about it. Update: a running command runs on and systemd starts the
controller after a reboot. Enrollment, Expose and GatewayData have no fairness: their
runs are about safety. The number of failures is bounded, which is what "once failures
stop" means in these runs.

## 4. Findings

Every run passes. What a property exempts by a history variable, or a run rules
out by an assumption, is listed here with how it comes about. Five properties
stay defined although they do not hold: `OneSagaPerRequest` (CrossHostSaga),
`SessionsEnd` (Enrollment), `RetryApplies` (TransportSwitch),
`AttemptTakenOrUndone` (SoftwareUpdate) and `RefusedUnchanged` (HandshakeHost).

*Watchdog.*

* Mishap "late", exempt from `CandidateGuarded`, `MarkerMeansRestored` and
  `LockoutEnds`: the timer is armed before provisioning and not looked at again
  before the candidate is applied (`lifecycle/gateway_init.go:664`), so an
  installer slower than the window applies a network nothing will restore;
  docs/v2/OPERATIONS.md:81 says "Without confirmation, the independent watchdog
  restores the prior vpnctl network snapshot after 120 seconds."
* Mishap "overlap", exempt from `CandidateGuarded`, `MarkerMeansRestored` and two
  parts of `CommitSound`: `Arm` (`operations/watchdog.go:179`) does not look for a
  live transaction; the timer of a killed `init` undoes the network its rerun has
  confirmed.
* Mishap "half", exempt from two parts of `CommitSound`: after a restore that
  failed half-way a session through the restored firewall still confirms (`operations/watchdog.go:699`;
  OPERATIONS.md:81 "Only the new session proves connectivity.").

*Saga.*

* `OneSagaPerRequest` is violated by two coordinators and two operation IDs in four
  steps: both calls of Begin list the operations, then both create one. The comment
  of Begin (`operations/cross_host_saga.go:182`) promises a retry "without
  allocating another identity"; the store interface has no create that fails for a
  request that exists, and every later Begin of the request refuses the store for
  a duplicate identity.

*Controller.*

* `client add` beside a node RPC violates `NoLostUpdate`: it writes the state
  from its own process under no lock (`routing/client.go:330`), although the
  controller is specified as the sole writer.
* Node RPCs do not take the cross-process lock, so they commit while the
  bootstrap repair holds it, which docs/v2/REPAIR.md:31 excludes; the repair
  notices and reports an uncertain outcome.
* Two client processes and a failed directory sync violate
  `ClientHasCredentials`: a client that was overwritten is looked up as absent,
  its credentials are deleted, and the client comes back (`routing/client.go:335`).
* One client process, a failed directory sync and a power loss do the same
  (controller_live with `MaxFaults = 2`): a node RPC that checked earlier renames
  over the client's state, the client is looked up as absent and its credentials
  are deleted, and the power loss brings the unsynced state of the client back.
* A save of a node request that fails after its rename is answered "ok" on the
  retry; a power loss may still take the change back (`controller/mutation.go:125`).
  `ConfirmedStays` is therefore checked without power losses.
* Two saga coordinators may both execute a phase: execution is at least once,
  and the adapter has to be idempotent (docs/v2/CROSS_HOST_SAGAS.md).

*Enrollment.*

* `SessionsEnd` is violated under `FairSpec`: when the commit of a recovery
  fails for an expired token or a lost compare-and-swap, nobody releases
  mutationMu (`enrollment/recovery_public.go:339`), and every later session waits.
* `denied`, exempt from `CommittedKeyKept`: any status but 200 counts as proof that
  nothing was committed (`enrollment/join_http.go:114`), also a 502 of nginx or the
  gateway's own 404 for an uncertain join, and the machine deletes the keys of a
  node that was admitted (ENROLLMENT.md has it keep them when it "cannot prove the
  result"). A lost answer is not exempt: the keys are kept.
* `overlap`, exempt from `MembersServed`: `node revoke` in the CLI
  (`cli/node_lifecycle_command.go:18`) does not hold mutationMu. When it publishes
  while a session is in force, the session's rollback restores a snapshot that
  still admits the node; when a session has committed since the revocation was
  rendered, it shuts the new node out. Nobody is told. One that meets sessions
  which have only been built, or have ended, is not exempt.

*Transport.*

* `RetryApplies` is violated without any failure, although
  `cli/convergence_apply_command.go:157` says "retry apply to reconcile the
  retained operation": a repair between registration and apply
  (`cli/convergence_repair_system.go:164`), or two immediate switches, leave
  files and a baseline that no later apply accepts.
* After a node has committed and its baseline could not be promoted, a repair
  restores the old transport and the next apply only promotes.
* An immediate switch is never told to the gateway; a late finalization after a
  rollback leaves the gateway ahead of the node until the next apply; no lock
  orders two commands on a node.

*Expose.*

* `Serial = FALSE`, two processes on one node, two exposes, no failure: violates
  `PublishedIsMapped` in eleven steps. Each command installs the whole topology
  of the state it planned from; the slower one removes the mapping of the
  other's published route (OPERATIONS.md:177 "Other exposes remain serving").
* Every refusal is treated as an uncertain outcome: any other change of the
  gateway's state between reservation and publication leaves a pending expose on
  both hosts, and an abort refused for the same reason leaves the reservation
  (MANAGED_HTTPS_INGRESS.md has a known failure before publication remove it).
* A node save that fails after its write leaves a pending record whose port the
  gateway has released and assigned again; the node then refuses further exposes
  because two records share a port (`model/validate.go:316`).
* A failed `CommitRetained`, or a restart between activation and save, leaves an
  inactive generation that refuses every later publication
  (`ingress/nginx_activation.go:192`); after the restart the route of a pending
  expose is public. Nothing reconciles it. In the same way a left-over
  `.previous` file of frpc refuses every later tunnel change.
* Lost answers leave records that differ (ready and pending, disabled and ready,
  absent and disabled); the plan of a removal then refuses for ever, because it
  requires equal records (`operations/expose_remove.go:173`). A deferred create
  registers an operation that nothing applies.

*CA rotation.*

* `Faults <- LateErrors` violates `IdentitySound`: when the save of a renewal
  reports an error after its write, the cleanup deletes the secrets the stored
  state refers to (`controller/renewal.go:211`).
* A kill between storing a node's certificate and the save blocks further issues
  to that node (`HalfIssued`); a crash after the save of a commit leaves the old
  CA key undeleted. Apart from restoring the runtime at start, rotation and
  renewal have no caller in production.

*Update.*

* `AttemptTakenOrUndone` is violated without any failure, by one write of the
  controller (`Faults = {}`, `MaxCrashes = 0`, `Writers =
  {"controller"}`, `MaxOther = 1`): `Apply` starts the controller before it stores
  the completed operation (`lifecycle/update.go:395`). A state stored in between
  makes that save conflict; the files go back to the old release, the failure
  cannot be recorded either, and every later plan refuses because the installed
  bundle differs from the state. docs/v2/UPDATE.md:81 promises the old release.
* Torn operations, exempt from `ReleaseSound`. docs/v2/UPDATE.md:81-84: "A proven
  failure in the active attempt restores already changed component files and
  release metadata in reverse order, [...] records the failed operation". The
  operation is recorded as failed, but the release is a mixture, when
  - the directory sync after the rename of a component or of a metadata file fails
    (`lifecycle/release_update.go:203`, `:254`): `ActivateComponent` and
    `PublishMetadata` return an error before they note the file as replaced, so the
    undo (`lifecycle/update.go:361-364`, `:337-345`) passes it over, and line 256
    drops the error of its own undo;
  - a step of the undo itself fails: its error is collected and the failure is
    recorded all the same (`lifecycle/update.go:337-353`).
  The operation stays recorded as completed, over files of the old release, when
  Finalize or Promote fails after the save, or that save reports an error after it
  took effect and is overtaken by another write; a failed sync in Promote leaves a
  pointer to a snapshot that the undo removes. A rollback that starts from a torn
  update compares the files with its snapshot but not the checksums with the
  bundle, so undoing it does not end in one release either.
* Two commands beside each other, exempt as `overlap`: nothing keeps two of them
  apart, and each replaces files under the other's record.
* A killed update leaves a pending pointer that refuses later updates
  (`cli/update.go:554`); a failed start of the controller is not retried; a failed
  update makes the older snapshot unusable.

*Backup, restore, removal.* The first group are the cases `flaws` sets apart;
the others are consequences of the code that no property excludes.

* A kill between the two swaps leaves one new and one old root, which the next
  inspection refuses; nothing completes or undoes it. A failed commit has deleted
  part of the old trees, so the rollback after it is not exact. A client command
  that survived the stop writes into the swapped or the purged tree.
* The emergency snapshot is taken before the daemon stops, while clients and the
  daemon write: it may be torn, and nobody is told.
* Generations go back with a restore. A client command that read before it may
  find its generation again and its compare-and-swap succeeds: a client on record
  without credentials.
* After a restore there are no watchdog transactions, so uninstall and purge
  refuse; its commit deletes the former state root with the archives kept in it,
  which the restored records may still name. A purge that keeps backups leaves
  the state directory, and a later restore on that host is refused. Restore with
  `--replace` on an uninstalled gateway fails at the stop. An interrupted purge
  cannot be retried.
* A backup whose save reports an error after its write, followed by another
  writer's save, takes the record for absent and removes an archive that the
  state lists.

*Handshake host.*

* Another writer's save during a commit makes its save conflict after the
  listener has been restarted: the listener stays on the new host, the state on
  the old one. The command reports "conflict" and `changed: false`, because
  `classifyTransportHostMutationError` looks for `ErrStateConflict` before
  `ErrHandshakeHostCommitUncertain` (`cli/transport_host_command.go:390`), although
  its general message says that the active host was not changed unless reported
  as uncertain (line 400). `RefusedUnchanged` states that and does not hold;
  `ListenerFollowsState` exempts it as "conflict".
* Client commands, joins, revocations and repair publish without the activation
  lock. A revocation renders the state it stored itself, so one that is overtaken
  by a commit puts the old host back although both commands succeed; a join that
  fails restores the snapshot it took before the commit. Exempt as "overlap" from
  the last look of the activation on; before it the activation is refused.
* A kill or an uncertain commit leaves the stage directory; from then on every
  commit and rollback is refused with "requires repair", and no repair removes it
  (`controller/handshake_host_system.go:344`).

## 5. Proofs

All proofs are for every value of the constants.

*WatchdogProofs.* No theorem assumes anything of the environment: failures, kills,
reboots, slow and overlapping installers are all steps of the model, and what a
theorem exempts is said by the history `mishaps` in the property itself.
`TypeCorrect`; `TerminalMarkersExclusive` (the two final markers never coexist) by
`MarkerInv`: a rollback run that holds the flock is undecided, since it checked
under the lock; `DeadMansSwitch` by `GuardInv`. CandidateGuarded alone is not
inductive: a step of the timer needs to know that snapshots are of the prior
network until something is committed, that every live transaction but the
installer's own is decided, that an installer past Arm has a pending timer or one
that has elapsed and whose run is under way or over, and that a service between
its two restores has already restored the firewall. The first two and the shape of
the timers hold until an overlap (`SerialInv`), the rest until an overlap or a late
installer (`PriorInv`); mishaps only grow (`MishapsGrow`), so each half is proved
from itself. `RollbackRestores` (the marker of a rollback means that the network is
the prior one) and `CommitKept` (a confirmed network stays in force, was proved by a
new session through the candidate, and the oldest snapshot is of the network before
vpnctl, this last without exemption) add what each rollback run has restored so far
(`RestoreInv`), which network is in force for each decision (`NetInv`), through
which network the confirming session was opened (`SessionInv`) and whose snapshot
came first (`FirstSnapshot`).

*ControllerProofs (the state file).* With `Exclusive` callers: `AcknowledgedIsKept`,
`PreviousIsUsable` and `StoreImplementsRegister`. The invariant `IInv` adds to
the properties that at most one call is in progress, that its candidate extends
the state that is there *now* by a change not yet acknowledged, what has been
read and kept at each step, and `DiskBehind`: what a power loss may leave is the
current state or the one before, and then its last change is not acknowledged.
Each action has one lemma, because the controller's proofs cite them too;
`EveryStep` joins them and maps each to a register step or a stutter. The
unlocked writers of section 4 show that `Exclusive` is needed.

*CrossHostSagaProofs.* For any number of coordinators and operations:
`StoredRecordsSound` (every stored record is valid, and its receipts are of its
own phases), `HostsBehindRecord` (no effect is ahead of the durable record, a
failed operation has touched nothing), `DeadlineNeverMoves` (the drain deadline
is fixed once, a finished record is final) and `SagaRefinement` (every operation
implements `SagaAbstract`), with Begin calls that may overlap. Their common invariant `IInv` says of each process what its copy
is worth: it is the stored record, or an older revision that the compare-and-swap
will refuse; what it is about to save is a successor of that copy; a receipt it
holds is backed by an effect; a command that is on its way belongs to a phase the
record has reached. Without the clause about copies no save could be shown to
keep `RecordSound`, because two coordinators both compute from what they read.

*ControllerProofs (the controller).* The actions have four shapes (a handler ends, starts a save,
moves on, or its save takes a step); each invariant is shown once per shape and
the actions are brought into one. `RequestsTakeEffectOnce` needs no assumption:
`StampInv` says that in every state anybody holds, on disk, as a candidate or as
a base, a request can only be at the place its expected generation names, so no
interleaving of saves, not even of unlocked ones, and no power loss makes it
appear twice. (`AtMostOnce` alone says nothing of the states that are not
current.) `NothingAcknowledgedIsLost` and `RuntimeFollowsState` assume that no
client command runs, which writes under no lock: `MutexInv` (a goroutine without
the mutex is idle) makes the daemon the exclusive caller that the file's lemmas
ask for, `SerialInv` adds what the holder knows of the state at each of its steps,
above all after a failed save, and `RuntimeInv` what the runtime then consists
of. `ConfirmedForGood` and `RefusedForGood` also exclude power losses and rest on
`AnswerInv`: no request expects a generation ahead of the state, and a refused
one is behind it for good, since the state only grows. `ClientsKeepCredentials`
allows one client command beside the daemon, and no power loss, by `ClientInv`:
all clients of a state that may still become current have their credentials, and
the one being added is in a state the daemon holds only if it is in the current
one. Section 4 has the counterexample for each of the exclusions.

*EnrollmentProofs.* `AdmittedOnce` (a token takes effect at most once, and as a
whole) with no assumption, by `TypeInv` and `TokenInv`: what an authorised
session relies on is true as long as the generation is the one it read, and two
sessions never hold one node ID. `MaterialKeptAlways` (an active node has its
credential and the gateway its tunnel identity) by `MaterialInv`: the keys of a
session that may still roll back are nobody else's, and at most one session owns
the tunnel identity it made. `ServedMembers` (with the mutex free, exactly the
active nodes are admitted), for both ways to revoke, by `RuntimeInv`: as long as
neither `drift` nor `overlap` is set, a candidate is the rendering of the state
with one node added while the generation is unchanged, and what a rollback restores
is the rendering of the present state. `SidesAgreeAlways` (a machine keeps the keys
of what the gateway committed), whatever answers are lost and whoever answers, by
`SidesInv`: each machine's keys, answers and sessions belong to its own exchange,
and what it may have heard from somebody else is in `denied`.

*StateProofs (the listener).* `ListenerSound` with no assumption: any number of host
changes beside any sequence of the other writers. `LockInv` (who has files in
hand holds the activation lock) and `PlanInv` (a generation names one state, so a
command whose generation is current was planned for the current state) hold
always; `SettledInv` holds until one of the four `Reasons` occurs. Its clauses say
what the files are at each step: from the last look of an activation to its save,
the stored state still renders the files that a rollback puts back; at the save and
after a failed one, both files and the listener are the candidate's; a join's
snapshot is the stored state's files and what it published its candidate's. A
client command, a revocation or a repair may settle a doubt, so `SettledInv` is
also shown to come back when one does.

*ExposeProofs.* `RoutesAreSound`, `AckedIsServed` and `ReleasedPortsAreUnused`
for any number of nodes, exposes, ports, commands, late requests and failures,
assuming `Serial` (one expose command at a time on a node; section 4 has the
counterexample without it). About the constants they assume that what was
published at the start has a port each and no two of it a path, which is what the
state's validation demands of a loaded file. Their common invariant `ExposeInv`
says of each expose, in `ExposeOK`, what every place that mentions it is worth.
The three properties are about what nginx serves and the node maps now; a rollback
of nginx, a restart, a late request or the next installation of the tunnel's whole
topology brings back something older, so the invariant speaks of `Routes`,
everything nginx serves or would serve after an undo or a restart, and of `Seen`,
the node's record and the one a command has planned from. A route anywhere in
`Routes` needs a mapping that every plan under way keeps (`Mapped`); an
acknowledged expose is in all of the generations that may come back (`Firm`); a
finalization is only ever requested, on time or late, when route, mapping and
every live record of the expose are gone (`Retired`), because the removal disables
the record before it unmaps. Late requests are harmless (`LateOK`): a reservation
that arrives late is refused by its generation or still has its port free, an
abort finds nothing published, a late publication finds the mapping in place.

*StateProofs (the trees).* `DataAlwaysSound`, `RestoresAreExact` and
`RemovalsAreConsented` for any number of clients, archives, commands, writes,
failures, kills and reboots, with no assumption but that the bounds are natural
numbers. Their common invariant is `DataInv`. `DataSound` speaks of the live tree
and of the one moved aside; a client command that has read the first may find
itself writing to neither, to the new one or to the old one put back, since it
holds no lock. Hence `CliAgrees`: while a tree has the tag the command has read, a
generation names one document of it, so the save of a command whose generation is
still there replaces what it has read, its credentials are stored before they are
named, and what it will delete is not named. `TagInv` makes a tag the name of one
tree: a restore uses one that nobody has read. `Clean` says when that is claimed:
as long as nothing in `flaws` happened, and again once a restore has put its own
trees in place, because it heals what was wrong with the former ones; only a stray
write is beyond repair. `KeptInv` is what makes the rollback exact: at every step
of a restore the former trees are in place, or aside and as they were found;
`UnitsInv` adds that the services are down as long as the two trees do not belong
together. `RemovalInv` carries the state under review from the check after the
stop to the last deletion. `RestoreExact` and `RemovalConsented` are about the
step that reports an end, and `Endings` shows that there are only three.

*CARotationProofs.* `NodesStayManageable` and `IdentityIsSound` for any number of
nodes, rotations, renewals, member commands, crashes and faults, assuming
`Faults \cap LateErrors = {}`: no save of stage, finish or renewal reports an
error after its write (section 4 has the counterexample). About the constants
they assume nothing else but types. The common invariant is `RotationInv`.
`NodesManageable` is about the listener and the certificates in force now; a
commit puts another generation in force in one save and swaps the listener later,
so `NodesInv` says what each active node has of both generations (`Equipped`,
`Updated`), what an answer on its way to it may replace (`Awaits`), and that an
acknowledged certificate is held (`Acknowledged`): that is why `RotationReady` may
take the recorded steps for the nodes' word. Operations compute their next state
before their secrets are stored, so `AtPut` says of the job that what it will save
still follows from the stored state (`Follows`) as long as the generation has not
moved, and that the secrets it puts are nobody else's: a cleanup then deletes
nothing the state names. `AtActivate` covers the gap between save and swap: the
old listener accepts the CA now in force, and its leaf is of that CA or of one
that every active node still trusts and will not drop before the swap.
`StageState`, `UpdateState`, `AcknowledgeState`, `FinishState`, `RenewState`,
`IssueState` and `FewerMembers` show, without any step of the system, that each
operation and command makes a sound state of a sound one; `SaveStep` and
`SaveWriteStep` apply them.

*TransportProofs.* `NodeAlwaysSound` and `SelectionIsIntended` for any number of
commands beside each other, failures, kills, lost and late calls, with no
assumption but that the bounds are natural numbers. The invariant `TransportInv`
has two halves. `StaticInv` holds always. Its core is that every write moves the
node one generation from the state that is there (`Onward`), so a state that a
command has read (`Earlier`) is the present one whenever their generations agree,
and what is known of a generation stays known (`Known`). With it `AgreeInv`, the
two sides in step, becomes inductive: an operation that the gateway has completed
is retained or completed by the node, and while the node still retains it the
gateway's selection is its target; `MessageInv` says the same of requests nobody
waits for any more, which is why a late finalization cannot select anything but
the retained target. `SettledInv` holds while `dirty` is false: then commands ran
one at a time, each on the state that is there, and what is installed follows from
the command's step (`Working`): its target from activation on, the current
generation when a repair publishes, what is on record (`Recorded`) before the host
is touched. `RunsAsRecorded` alone says nothing while a command is at work. A
repair may end a doubt, so `SettledInv` is also shown to come back when one does.

*StateProofs (the release).* `WritesAreKept` needs no assumption: any number of
update commands beside each other and beside other writers, with every failure.
`NoWriteLost` is about one step, the save of a rollback, which stores a state kept
since before the update. `LineageInv` follows the states a command holds back to
their origin: the state it planned from and the one it saved last were stored, and
a generation names one state (`Stored`), its own states hold nothing but what the
first one held, and the snapshot of an update in progress is of that state
(`Descends`); so a save that passes the comparison of generations replaces a state
with nothing else in it. A command that reads the state again after an uncertain
save has two futures (`AsWritten`, `Refuted`), and the invariant is stated of both.

Only model-checked: `ReleaseSound` (with two failures, two kills and two writes of
others) and the liveness properties (fairness and ENABLED are outside the prover's
reach). Every other invariant and action property of the runs is proved.

## 6. Plan

Done: 1 Watchdog, 2 CrossHostSaga, 3 StateStore, 4 Controller, 5 Enrollment
(join, recovery, revocation), 6 TransportSwitch with convergence, 7 Expose with
tunnel and nginx generations, 8 CARotation with renewal, 9 SoftwareUpdate,
10 GatewayData (backup, restore, uninstall, purge, client commands),
11 HandshakeHost.

Next, in this order:

12. A proof of `ReleaseSound`.
13. **LocalTransaction** — "old or new" per component.
14. Node rotation, as a variation of recovery in Enrollment.

## 7. Not modelled

Rendering of configuration, parsing and discovery, cryptography, archive
formats, packaging, output, status and doctor reports: sequential, without
durable state, and covered by the repository's tests. The v1 code is frozen.

The models cover about an eighth of the implementation's lines. Most of the rest
is of the kind just named: of some 106 000 lines in 333 files, field validation
and codecs (`model/validate.go`, wire formats, transcripts), policy compilation
(`routing/policy.go`, `node_config.go`), host discovery and system file
handling (`platform/linux`), command-line dispatch and text output (`cli`,
`operations/status.go`) make up by far the largest part. They hold data and I/O
rather than control, and a model of them would repeat the code. What remains of
control is the plan above: local transactions and node rotation. Code without a caller in production at this commit is modelled
only where its protocol is the interesting part (the saga coordinator, CA
rotation, expose removal), and the notes in `PROJECT.json` say so.
