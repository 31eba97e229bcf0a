---------------------------- MODULE GatewayData ----------------------------
(***************************************************************************)
(* The data of a gateway and the commands that copy, replace and remove    *)
(* it: backup, restore, uninstall and purge, run beside the controller     *)
(* daemon and one local `client` command, neither of which takes a lock.   *)
(*                                                                         *)
(* /etc/vpnctl (conf) and /var/lib/vpnctl (root) are two trees that a      *)
(* restore swaps by four renames.  A tag says which init or restore made a *)
(* tree.  state.json is a document; a credential <<c, g>> is the secret of *)
(* client c in generation g.  Managed swap, exports, presets and the       *)
(* runtime directory are left out.                                         *)
(***************************************************************************)
EXTENDS Naturals, FiniteSets

CONSTANTS
  Clients,       \* identities of clients and nodes, each allocated once
  Archives,      \* names of backup archives
  MaxCommands,   \* backup, restore, uninstall and purge commands
  MaxWrites,     \* changes by the daemon and by client commands
  MaxMishaps     \* failing steps, kills and reboots

ASSUME DataAssumptions == {MaxCommands, MaxWrites, MaxMishaps} \subseteq Nat

VARIABLES
  conf, root,        \* the live trees
  oldConf, oldRoot,  \* the trees a restore has moved aside
  snap,              \* the emergency snapshot of the restore under way
  archive, away,     \* contents of archives; those kept outside root
  units,             \* systemd units: their files, enabled, running
  net,               \* tag of the firewall in force, 0: as before vpnctl
  binary,            \* vpnctl is installed
  cmd, outcome,      \* the command under way; how the last one ended
  cli,               \* a client command under way
  ids,               \* identities not yet allocated
  flaws,             \* what went wrong that the code does not claim to mend
  spent              \* what is used up of the three bounds

trees == <<conf, root, oldConf, oldRoot, snap>>
host == <<units, net, binary>>
others == <<cli, ids>>
dataVars == <<trees, archive, away, host, cmd, outcome, others, flaws, spent>>

NoDoc == [gen |-> 0, has |-> {}, revoked |-> {}, backups |-> {}]
NoConf == [tag |-> 0, made |-> FALSE]
NoRoot == [tag |-> 0, doc |-> NoDoc, secrets |-> {}, boxes |-> {}, base |-> FALSE]
NoSnapshot == [conf |-> NoConf, root |-> NoRoot]
NoArchive == [doc |-> NoDoc, secrets |-> {}]
NoView == [doc |-> NoDoc, conf |-> NoConf, files |-> FALSE, boxes |-> 0]
Idle == [pc |-> "idle", kind |-> "none", id |-> {}, opt |-> FALSE, view |-> NoView,
         load |-> NoArchive, tag |-> 0, net |-> 0, units |-> FALSE, done |-> {},
         prior |-> NoRoot, clean |-> TRUE]
NoCli == [pc |-> "idle", op |-> "none", who |-> {}, base |-> NoDoc, cand |-> NoDoc,
          put |-> {}, del |-> {}, tag |-> 0]

Credentials == Clients \X (1..MaxWrites)
Initialized == root.doc # NoDoc

Spend(what) ==
  /\ spent[what] < CASE what = "commands" -> MaxCommands
                     [] what = "writes"   -> MaxWrites
                     [] OTHER             -> MaxMishaps
  /\ spent' = [spent EXCEPT ![what] = @ + 1]

FirstDoc(first) == [NoDoc EXCEPT !.gen = 1 + Cardinality(first), !.has = first \X {1}]

(* A gateway with at most one client so far, or a clean host to which an   *)
(* archive of such a gateway has been brought.                             *)
DataInit ==
  /\ \E first \in {{}} \cup {{c} : c \in Clients} :
       /\ ids = Clients \ first
       /\ \/ /\ conf = [tag |-> 1, made |-> TRUE]
             /\ root = [tag |-> 1, doc |-> FirstDoc(first), secrets |-> first \X {1},
                        boxes |-> {}, base |-> TRUE]
             /\ units = [files |-> TRUE, on |-> TRUE, up |-> TRUE]
             /\ net = 1 /\ binary = TRUE
             /\ archive = [a \in Archives |-> NoArchive] /\ away = {}
          \/ /\ conf = NoConf /\ root = NoRoot
             /\ units = [files |-> FALSE, on |-> FALSE, up |-> FALSE]
             /\ net = 0 /\ binary = FALSE
             /\ \E a \in Archives :
                  /\ away = {a}
                  /\ archive = [b \in Archives |->
                       IF b = a THEN [doc |-> FirstDoc(first), secrets |-> first \X {1}]
                                ELSE NoArchive]
  /\ oldConf = NoConf /\ oldRoot = NoRoot /\ snap = NoSnapshot
  /\ cmd = Idle /\ outcome = "none" /\ cli = NoCli
  /\ flaws = {}
  /\ spent = [commands |-> 0, writes |-> 0, mishaps |-> 0]

----------------------------------------------------------------------------
(* The steps of a command                                                  *)

Reached(pc) == cmd.pc = pc
Step(pc) == cmd' = [cmd EXCEPT !.pc = pc] /\ UNCHANGED outcome
End(how) == cmd' = Idle /\ outcome' = how
Begin(c) == cmd = Idle /\ Spend("commands") /\ cmd' = c /\ outcome' = "none"

----------------------------------------------------------------------------
(* The daemon and the client commands                                      *)

(* The controller commits a change.  If it adds a node it stages the       *)
(* credential first.                                                       *)
DaemonSaves(new) ==
  /\ units.up /\ Initialized
  /\ Spend("writes")
  /\ ids' = ids \ new
  /\ root' = [root EXCEPT !.secrets = @ \cup (new \X {1}),
                          !.doc.has = @ \cup (new \X {1}), !.doc.gen = @ + 1]
  /\ UNCHANGED <<conf, oldConf, oldRoot, snap, archive, away, host, cmd, outcome,
                 cli, flaws>>

CliBegins(op, c, put, del, has, revoked) ==
  /\ cli = NoCli /\ binary /\ Initialized
  /\ Spend("writes")
  /\ cli' = [pc |-> IF put # {} THEN "put" ELSE "save", op |-> op, who |-> {c},
             base |-> root.doc,
             cand |-> [root.doc EXCEPT !.gen = @ + 1, !.has = has, !.revoked = revoked],
             put |-> put, del |-> del, tag |-> root.tag]
  /\ UNCHANGED <<trees, archive, away, host, cmd, outcome, flaws>>

ClientAdd(c) ==
  /\ c \in ids
  /\ CliBegins("add", c, {<<c, 1>>}, {}, root.doc.has \cup {<<c, 1>>}, root.doc.revoked)
  /\ ids' = ids \ {c}

ClientRotate(c, g) ==
  /\ <<c, g>> \in root.doc.has
  /\ <<c, g + 1>> \in Credentials
  /\ CliBegins("rotate", c, {<<c, g + 1>>}, {<<c, g>>},
               (root.doc.has \ {<<c, g>>}) \cup {<<c, g + 1>>}, root.doc.revoked)
  /\ UNCHANGED ids

ClientRevoke(c, g) ==
  /\ <<c, g>> \in root.doc.has
  /\ CliBegins("revoke", c, {}, {<<c, g>>}, root.doc.has \ {<<c, g>>},
               root.doc.revoked \cup {<<c, g>>})
  /\ UNCHANGED ids

(* Revoking once more deletes the credential without a save.               *)
ClientRevokeAgain(c, g) ==
  /\ cli = NoCli /\ binary
  /\ <<c, g>> \in root.doc.revoked
  /\ Spend("writes")
  /\ cli' = [NoCli EXCEPT !.pc = "clean", !.op = "revoke", !.del = {<<c, g>>}, !.tag = root.tag]
  /\ UNCHANGED <<trees, archive, away, host, cmd, outcome, ids, flaws>>

ClientDelete(c, g) ==
  /\ <<c, g>> \in root.doc.revoked
  /\ CliBegins("delete", c, {}, {<<c, g>>}, root.doc.has, root.doc.revoked \ {<<c, g>>})
  /\ UNCHANGED ids

(* The tree under the command is not the one it has loaded, or a removal   *)
(* has already made its last check: a write that nobody expects.           *)
Removing == cmd.pc \in {"net", "runtime", "data", "backups", "secrets", "doc", "binary"}
Strays == IF cli.tag # root.tag \/ Removing THEN {"stray"} ELSE {}

CliPut ==
  /\ cli.pc = "put"
  /\ IF root # NoRoot /\ cli.put \cap root.secrets = {}
       THEN /\ root' = [root EXCEPT !.secrets = @ \cup cli.put]
            /\ cli' = [cli EXCEPT !.pc = "save"]
            /\ flaws' = flaws \cup Strays
       ELSE UNCHANGED <<root, flaws>> /\ cli' = NoCli
  /\ UNCHANGED <<conf, oldConf, oldRoot, snap, archive, away, host, cmd, outcome,
                 ids, spent>>

CliSave ==
  /\ cli.pc = "save"
  /\ Initialized /\ root.doc.gen = cli.base.gen
  /\ root' = [root EXCEPT !.doc = cli.cand]
  /\ cli' = [cli EXCEPT !.pc = "clean"]
  /\ flaws' = flaws \cup Strays
  /\ UNCHANGED <<conf, oldConf, oldRoot, snap, archive, away, host, cmd, outcome,
                 ids, spent>>

(* The save is refused or fails.  The command reads the state: what it     *)
(* finds decides whether the staged credentials may go.                    *)
CliUnsaved ==
  /\ cli.pc = "save"
  /\ \/ (~Initialized \/ root.doc.gen # cli.base.gen) /\ UNCHANGED spent
     \/ Spend("mishaps")
  /\ LET known == IF cli.op = "add"
                    THEN Initialized /\ \A g \in 1..MaxWrites, c \in cli.who :
                                          <<c, g>> \notin root.doc.has
                    ELSE root.doc = cli.base
     IN  cli' = IF known /\ cli.put # {}
                  THEN [cli EXCEPT !.pc = "clean", !.del = cli.put] ELSE NoCli
  /\ UNCHANGED <<trees, archive, away, host, cmd, outcome, ids, flaws>>

CliClean ==
  /\ cli.pc = "clean"
  /\ root' = [root EXCEPT !.secrets = @ \ cli.del]
  /\ cli' = NoCli
  /\ flaws' = flaws \cup (IF cli.del \cap root.secrets = {} THEN {} ELSE Strays)
  /\ UNCHANGED <<conf, oldConf, oldRoot, snap, archive, away, host, cmd, outcome,
                 ids, spent>>

CliStep == CliPut \/ CliSave \/ CliUnsaved \/ CliClean

----------------------------------------------------------------------------
(* backup                                                                  *)

BackupPlan(a, outside) ==
  /\ binary /\ Initialized
  /\ archive[a] = NoArchive
  /\ Begin([Idle EXCEPT !.pc = "read", !.kind = "backup", !.id = {a}, !.opt = outside,
                        !.load.doc = root.doc])
  /\ UNCHANGED <<trees, archive, away, host, others, flaws>>

(* Mutant: a secret that is missing is left out of the archive.            *)
PayloadUnchecked == TRUE

(* Every secret the state refers to is read; one that is missing ends it.  *)
PayloadComplete == cmd.load.doc.has \subseteq root.secrets

BackupRead ==
  /\ Reached("read")
  /\ IF PayloadComplete
       THEN /\ cmd' = [cmd EXCEPT !.pc = "link",
                                  !.load.secrets = cmd.load.doc.has \cap root.secrets]
            /\ UNCHANGED outcome
       ELSE End("failed")
  /\ UNCHANGED <<trees, archive, away, host, others, flaws, spent>>

BackupLink ==
  /\ Reached("link")
  /\ IF root.doc = cmd.load.doc
       THEN /\ archive' = [a \in Archives |-> IF a \in cmd.id THEN cmd.load ELSE archive[a]]
            /\ IF cmd.opt THEN away' = away \cup cmd.id /\ UNCHANGED root
                          ELSE root' = [root EXCEPT !.boxes = @ \cup cmd.id] /\ UNCHANGED away
            /\ Step("record")
       ELSE End("conflict") /\ UNCHANGED <<archive, away, root>>
  /\ UNCHANGED <<conf, oldConf, oldRoot, snap, host, others, flaws, spent>>

Recorded == [cmd.load.doc EXCEPT !.gen = @ + 1, !.backups = @ \cup cmd.id]

(* The save takes effect and is reported, or it fails with or without      *)
(* effect.                                                                 *)
BackupRecord ==
  /\ Reached("record")
  /\ \/ /\ root.doc.gen = cmd.load.doc.gen
        /\ root' = [root EXCEPT !.doc = Recorded]
        /\ \/ End("backed up") /\ UNCHANGED spent
           \/ Step("observe") /\ Spend("mishaps")
     \/ /\ root.doc.gen # cmd.load.doc.gen
        /\ Step("observe") /\ UNCHANGED <<root, spent>>
     \/ Step("observe") /\ Spend("mishaps") /\ UNCHANGED root
  /\ UNCHANGED <<conf, oldConf, oldRoot, snap, archive, away, host, others, flaws>>

BackupObserve ==
  /\ Reached("observe")
  /\ IF root.doc = Recorded
       THEN End("backed up") /\ UNCHANGED <<root, away>>
       ELSE /\ End("failed")
            /\ root' = [root EXCEPT !.boxes = @ \ cmd.id] /\ away' = away \ cmd.id
  /\ UNCHANGED <<conf, oldConf, oldRoot, snap, archive, host, others, flaws, spent>>

BackupStep == BackupRead \/ BackupLink \/ BackupRecord \/ BackupObserve

----------------------------------------------------------------------------
(* restore                                                                 *)

View == [doc |-> root.doc, conf |-> conf, files |-> units.files,
         boxes |-> Cardinality(root.boxes)]
HostView == [View EXCEPT !.files = FALSE, !.boxes = 0]
Unchanged == cmd.view = HostView

(* An archive is exactly its state and the secrets that state names.       *)
ArchiveComplete(a) == archive[a].doc.has \subseteq archive[a].secrets

(* A new release, endpoint or port bumps the generation (here: once).      *)
Adapted(a, bump) == [archive[a] EXCEPT !.doc.gen = @ + bump]

(* An initialized host has both trees, a clean one neither.                *)
RestorePlan(a, bump) ==
  /\ a \in root.boxes \cup away
  /\ ArchiveComplete(a)
  /\ IF Initialized THEN conf # NoConf ELSE conf = NoConf /\ root = NoRoot
  /\ Begin([Idle EXCEPT !.pc = "check", !.kind = "restore", !.view = HostView,
                        !.load = Adapted(a, bump),
                        !.tag = spent.commands + 2])
  /\ UNCHANGED <<trees, archive, away, host, others, flaws>>

Replacing == cmd.view.doc # NoDoc

RestoreCheck ==
  /\ Reached("check") /\ cmd.kind = "restore"
  /\ IF Unchanged THEN Step(IF Replacing THEN "snapConf" ELSE "install") ELSE End("conflict")
  /\ UNCHANGED <<trees, archive, away, host, others, flaws, spent>>

(* The snapshot walks the trees in name order: secrets before state.json.  *)
SnapConf ==
  /\ Reached("snapConf")
  /\ IF Unchanged THEN Step("snapTree") /\ snap' = [snap EXCEPT !.conf = conf]
                  ELSE End("conflict") /\ UNCHANGED snap
  /\ UNCHANGED <<conf, root, oldConf, oldRoot, archive, away, host, others, flaws, spent>>

SnapTree ==
  /\ \/ /\ Reached("snapTree") /\ Step("snapDoc")
        /\ snap' = [snap EXCEPT !.root = [root EXCEPT !.doc = NoDoc]]
     \/ /\ Reached("snapDoc") /\ Step("install")
        /\ snap' = [snap EXCEPT !.root.doc = root.doc]
  /\ UNCHANGED <<conf, root, oldConf, oldRoot, archive, away, host, others, flaws, spent>>

RestoreInstall ==
  /\ Reached("install") /\ Step("stage")
  /\ binary' = TRUE
  /\ UNCHANGED <<trees, archive, away, units, net, others, flaws, spent>>

(* New trees are rendered beside the live ones, firewall and unit files    *)
(* are remembered.                                                         *)
ActivateStage ==
  /\ Reached("stage")
  /\ cmd' = [cmd EXCEPT !.pc = IF Replacing THEN "stop" ELSE "confIn",
                        !.net = net, !.units = units.files]
  /\ UNCHANGED <<outcome, trees, archive, away, host, others, flaws, spent>>

(* Stopping a unit that has no unit file is an error.                      *)
ActivateStop ==
  /\ Reached("stop")
  /\ \/ /\ units.files /\ Step("confOut")
        /\ units' = [units EXCEPT !.up = FALSE] /\ UNCHANGED spent
     \/ ~units.files /\ Step("rbStop") /\ UNCHANGED <<units, spent>>
     \/ /\ Spend("mishaps") /\ Step("rbStop")
        /\ \E up \in BOOLEAN : units' = [units EXCEPT !.up = up /\ @]
  /\ UNCHANGED <<trees, archive, away, net, binary, others, flaws>>

Did(step, pc) == cmd' = [cmd EXCEPT !.pc = pc, !.done = @ \cup {step}] /\ UNCHANGED outcome

SwapConf ==
  /\ \/ /\ Reached("confOut") /\ Did("conf", "confIn")
        /\ oldConf' = conf /\ conf' = NoConf
     \/ /\ Reached("confIn") /\ Did("conf", IF Replacing THEN "rootOut" ELSE "rootIn")
        /\ conf' = [tag |-> cmd.tag, made |-> TRUE] /\ UNCHANGED oldConf
  /\ UNCHANGED <<root, oldRoot, snap, archive, away, host, others, flaws, spent>>

(* Rendered from the archive: no backups, no watchdog transactions.        *)
StagedRoot ==
  [tag |-> cmd.tag, doc |-> cmd.load.doc, secrets |-> cmd.load.secrets,
   boxes |-> {}, base |-> FALSE]

SwapRoot ==
  /\ \/ /\ Reached("rootOut")
        /\ cmd' = [cmd EXCEPT !.pc = "rootIn", !.done = @ \cup {"root"}, !.prior = root]
        /\ oldRoot' = root /\ root' = NoRoot
     \/ /\ Reached("rootIn")
        /\ cmd' = [cmd EXCEPT !.pc = "start", !.done = @ \cup {"root"}]
        /\ root' = StagedRoot
        /\ UNCHANGED oldRoot
  /\ UNCHANGED <<outcome, conf, oldConf, snap, archive, away, host, others, flaws, spent>>

ActivateStart ==
  /\ Reached("start") /\ Step("netIn")
  /\ units' = [files |-> TRUE, on |-> TRUE, up |-> TRUE]
  /\ UNCHANGED <<trees, archive, away, net, binary, others, flaws, spent>>

ActivateNet ==
  /\ Reached("netIn") /\ Step("health")
  /\ net' = cmd.tag
  /\ UNCHANGED <<trees, archive, away, units, binary, others, flaws, spent>>

(* A rename, a unit or the firewall fails, perhaps with part of its effect.*)
ActivateFails ==
  /\ cmd.pc \in {"confOut", "confIn", "rootOut", "rootIn", "start", "netIn"}
  /\ Spend("mishaps") /\ Step("rbStop")
  /\ \/ UNCHANGED <<units, net>>
     \/ Reached("start") /\ UNCHANGED net /\ units' = [files |-> TRUE, on |-> TRUE, up |-> TRUE]
     \/ Reached("netIn") /\ UNCHANGED units /\ net' = cmd.tag
  /\ UNCHANGED <<trees, archive, away, binary, others, flaws>>

Health ==
  /\ Reached("health")
  /\ \/ /\ Step(IF root.doc = cmd.load.doc /\ units.up THEN "commitConf" ELSE "rbStop")
        /\ UNCHANGED spent
     \/ Spend("mishaps") /\ Step("rbStop")
  /\ UNCHANGED <<trees, archive, away, host, others, flaws>>

(* Commit tries to delete both old trees before it looks at the errors.    *)
CommitConf ==
  /\ Reached("commitConf")
  /\ \/ oldConf' = NoConf /\ Step("commitRoot") /\ UNCHANGED spent
     \/ /\ Spend("mishaps")
        /\ cmd' = [cmd EXCEPT !.pc = "commitRoot", !.clean = FALSE] /\ UNCHANGED outcome
        /\ oldConf' \in {oldConf, [oldConf EXCEPT !.made = FALSE]}
  /\ UNCHANGED <<conf, root, oldRoot, snap, archive, away, host, others, flaws>>

CommitRoot ==
  /\ Reached("commitRoot")
  /\ \/ /\ oldRoot' = NoRoot
        /\ IF cmd.clean THEN End("restored") /\ flaws' = flaws \cap {"stray"}
                     ELSE Step("rbStop") /\ flaws' = flaws \cup {"commit"}
        /\ UNCHANGED spent
     \/ /\ Spend("mishaps")
        /\ cmd' = [cmd EXCEPT !.pc = "rbStop", !.clean = FALSE] /\ UNCHANGED outcome
        /\ oldRoot' \in {oldRoot, [oldRoot EXCEPT !.secrets = {}]}
        /\ flaws' = flaws \cup {"commit"}
  /\ snap' = IF cmd' = Idle THEN NoSnapshot ELSE snap
  /\ UNCHANGED <<conf, root, oldConf, archive, away, host, others>>

ActivateStep ==
  \/ ActivateStage \/ ActivateStop \/ SwapConf \/ SwapRoot \/ ActivateStart
  \/ ActivateNet \/ ActivateFails
RestoreStep ==
  \/ RestoreCheck \/ SnapConf \/ SnapTree \/ RestoreInstall \/ ActivateStep
  \/ Health \/ CommitConf \/ CommitRoot

(* Rollback attempts every step whatever the ones before it return.        *)
Unclean(pc) == cmd' = [cmd EXCEPT !.pc = pc, !.clean = FALSE] /\ UNCHANGED outcome

RollbackStop ==
  /\ Reached("rbStop")
  /\ \/ /\ units.files /\ Step("rbNet")
        /\ units' = [units EXCEPT !.up = FALSE] /\ UNCHANGED <<flaws, spent>>
     \/ ~units.files /\ Unclean("rbNet") /\ UNCHANGED <<units, flaws, spent>>
     \/ /\ Spend("mishaps") /\ Unclean("rbNet")
        /\ flaws' = flaws \cup {"rollback"} /\ UNCHANGED units
  /\ UNCHANGED <<trees, archive, away, net, binary, others>>

RollbackNet ==
  /\ Reached("rbNet")
  /\ \/ net' = cmd.net /\ Step("rbConf") /\ UNCHANGED spent
     \/ Spend("mishaps") /\ Unclean("rbConf") /\ UNCHANGED net
  /\ UNCHANGED <<trees, archive, away, units, binary, others, flaws>>

(* Mutant: the tree moved aside is not looked for.                         *)
FormerOfSnapshot(old, none, copy) == copy

(* The tree moved aside, else the emergency snapshot's.                    *)
Former(old, none, copy) == IF old # none THEN old ELSE copy

RollbackConf ==
  /\ Reached("rbConf")
  /\ \/ /\ Step("rbRoot") /\ UNCHANGED <<flaws, spent>>
        /\ IF "conf" \in cmd.done
             THEN /\ conf' = IF Replacing THEN Former(oldConf, NoConf, snap.conf) ELSE NoConf
                  /\ oldConf' = NoConf
             ELSE UNCHANGED <<conf, oldConf>>
     \/ /\ Spend("mishaps") /\ Unclean("rbRoot")
        /\ "conf" \in cmd.done /\ flaws' = flaws \cup {"rollback"}
        /\ conf' \in {conf, NoConf} /\ UNCHANGED oldConf
  /\ UNCHANGED <<root, oldRoot, snap, archive, away, host, others>>

RollbackRoot ==
  /\ Reached("rbRoot")
  /\ \/ /\ Step("rbUnits") /\ UNCHANGED <<flaws, spent>>
        /\ IF "root" \in cmd.done
             THEN /\ root' = IF Replacing THEN Former(oldRoot, NoRoot, snap.root) ELSE NoRoot
                  /\ oldRoot' = NoRoot
             ELSE UNCHANGED <<root, oldRoot>>
     \/ /\ Spend("mishaps") /\ Unclean("rbUnits")
        /\ "root" \in cmd.done /\ flaws' = flaws \cup {"rollback"}
        /\ root' \in {root, NoRoot} /\ UNCHANGED oldRoot
  /\ UNCHANGED <<conf, oldConf, snap, archive, away, host, others>>

(* The unit files as they were; a replaced gateway is enabled and started. *)
RollbackUnits ==
  /\ Reached("rbUnits")
  /\ LET back == Replacing /\ cmd.units
         ok   == cmd.clean /\ (Replacing => cmd.units)
     IN  \/ /\ units' = [files |-> cmd.units, on |-> back \/ units.on,
                         up |-> back /\ conf.made /\ Initialized]
            /\ End(IF ok THEN "rolled back" ELSE "failed") /\ UNCHANGED spent
         \/ /\ Spend("mishaps") /\ End("failed")
            /\ units' = [files |-> cmd.units, on |-> units.on, up |-> FALSE]
  /\ snap' = NoSnapshot
  /\ UNCHANGED <<conf, root, oldConf, oldRoot, archive, away, net, binary, others, flaws>>

RollbackStep == RollbackStop \/ RollbackNet \/ RollbackConf \/ RollbackRoot \/ RollbackUnits

----------------------------------------------------------------------------
(* uninstall and purge                                                     *)

RemovalView(kind) == [View EXCEPT !.boxes = IF kind = "purge" THEN @ ELSE 0,
                                  !.conf = [conf EXCEPT !.tag = 0]]

NothingActive == root.doc.has = {}

(* Active resources block the command unless the operator forces it, and   *)
(* the network as it was before vpnctl must be on record.                  *)
RemovalPlan(kind, force, all) ==
  /\ binary /\ Initialized /\ root.base
  /\ force \/ NothingActive
  /\ all => kind = "purge"
  /\ Begin([Idle EXCEPT !.pc = "review", !.kind = kind, !.opt = all,
                        !.view = RemovalView(kind)])
  /\ UNCHANGED <<trees, archive, away, host, others, flaws>>

SameGeneration == Initialized /\ root.doc.gen = cmd.view.doc.gen

Continues(pc, if) == IF if THEN Step(pc) ELSE End("stale")

RemovalReview ==
  /\ Reached("review")
  /\ Continues("gate", root.base /\ cmd.view = RemovalView(cmd.kind))
  /\ UNCHANGED <<trees, archive, away, host, others, flaws, spent>>

(* StopServices checks the generation before and after it stops and        *)
(* disables the units.                                                     *)
StopGate ==
  /\ Reached("gate")
  /\ Continues("halt", SameGeneration /\ units.files = cmd.view.files)
  /\ UNCHANGED <<trees, archive, away, host, others, flaws, spent>>

StopHalt ==
  /\ Reached("halt")
  /\ \/ /\ Step("recheck") /\ UNCHANGED spent
        /\ units' = [units EXCEPT !.up = FALSE, !.on = FALSE]
     \/ /\ Spend("mishaps") /\ End("failed")
        /\ units' \in {[units EXCEPT !.up = FALSE], [units EXCEPT !.up = FALSE, !.on = FALSE]}
  /\ UNCHANGED <<trees, archive, away, net, binary, others, flaws>>

(* Mutant: the generation is not looked at again after the stop.           *)
StopRecheckSkipped ==
  /\ Reached("recheck")
  /\ Step("net")
  /\ UNCHANGED <<trees, archive, away, host, others, flaws, spent>>

StopRecheck ==
  /\ Reached("recheck")
  /\ Continues("net", SameGeneration)
  /\ UNCHANGED <<trees, archive, away, host, others, flaws, spent>>

RestoreNetwork ==
  /\ Reached("net")
  /\ Step("runtime")
  /\ net' = 0
  /\ UNCHANGED <<trees, archive, away, units, binary, others, flaws, spent>>

RemoveManagedRuntime ==
  /\ Reached("runtime")
  /\ \/ /\ Step(IF cmd.kind = "purge" THEN "data" ELSE "binary") /\ UNCHANGED spent
        /\ conf' = [conf EXCEPT !.made = FALSE]
     \/ /\ Spend("mishaps") /\ End("failed")
        /\ conf' \in {conf, [conf EXCEPT !.made = FALSE]}
  /\ units' = [units EXCEPT !.files = FALSE]
  /\ UNCHANGED <<root, oldConf, oldRoot, snap, archive, away, net, binary, others, flaws>>

(* The number of archives decides whether the backups are kept.            *)
PurgeConfig ==
  /\ Reached("data")
  /\ IF SameGeneration /\ Cardinality(root.boxes) = cmd.view.boxes
       THEN Step("backups") /\ conf' = NoConf
       ELSE End("stale") /\ UNCHANGED conf
  /\ UNCHANGED <<root, oldConf, oldRoot, snap, archive, away, host, others, flaws, spent>>

KeepBackups == ~cmd.opt /\ cmd.view.boxes > 0

(* The entries of the state directory go in name order, state.json last;   *)
(* the directory itself only if nothing was put there meanwhile.           *)
PurgeEntries ==
  /\ \/ /\ Reached("backups") /\ Step("secrets")
        /\ root' = [root EXCEPT !.boxes = IF KeepBackups THEN @ ELSE {}, !.base = FALSE]
     \/ /\ Reached("secrets") /\ Step("doc")
        /\ root' = [root EXCEPT !.secrets = {}]
     \/ /\ Reached("doc")
        /\ IF KeepBackups \/ root.secrets = {} THEN Step("binary") ELSE End("failed")
        /\ root' = IF KeepBackups \/ root.secrets # {}
                     THEN [root EXCEPT !.doc = NoDoc] ELSE NoRoot
  /\ UNCHANGED <<conf, oldConf, oldRoot, snap, archive, away, host, others, flaws, spent>>

RemoveBinary ==
  /\ Reached("binary")
  /\ End("removed")
  /\ binary' = FALSE
  /\ UNCHANGED <<trees, archive, away, units, net, others, flaws, spent>>

RemovalStep ==
  \/ RemovalReview \/ StopGate \/ StopHalt \/ StopRecheck \/ RestoreNetwork
  \/ RemoveManagedRuntime \/ PurgeConfig \/ PurgeEntries \/ RemoveBinary

----------------------------------------------------------------------------
(* Failures, kills and reboots                                             *)

(* Half of the data is gone or belongs to another tree.                    *)
Halfway ==
  IF cmd.pc \in {"confIn", "rootOut", "rootIn", "rbStop", "rbNet", "rbConf", "rbRoot",
                 "backups", "secrets", "doc"}
    THEN {"half"} ELSE {}

(* A step fails before it has an effect; nothing is rolled back.           *)
StepFails ==
  /\ cmd.pc \in {"read", "link", "check", "snapConf", "snapTree", "snapDoc", "install",
                 "stage", "review", "gate", "recheck", "net", "runtime", "data", "backups",
                 "secrets", "doc", "binary"}
  /\ Spend("mishaps")
  /\ End("failed")
  /\ flaws' = flaws \cup Halfway
  /\ UNCHANGED <<trees, archive, away, host, others>>

Kill ==
  /\ cmd # Idle
  /\ Spend("mishaps")
  /\ End("killed")
  /\ flaws' = flaws \cup Halfway
  /\ UNCHANGED <<trees, archive, away, host, others>>

CliKill ==
  /\ cli # NoCli
  /\ Spend("mishaps")
  /\ cli' = NoCli
  /\ UNCHANGED <<trees, archive, away, host, cmd, outcome, ids, flaws>>

Reboot ==
  /\ Spend("mishaps")
  /\ IF cmd = Idle THEN UNCHANGED <<cmd, outcome>> ELSE End("killed")
  /\ cli' = NoCli
  /\ flaws' = flaws \cup Halfway
  /\ units' = [units EXCEPT !.up = units.on /\ units.files /\ conf.made /\ Initialized]
  /\ net' \in {0, conf.tag}
  /\ UNCHANGED <<trees, archive, away, binary, ids>>

Mishap == StepFails \/ Kill \/ CliKill \/ Reboot

DataNext ==
  \/ \E c \in Clients : ClientAdd(c)
  \/ DaemonSaves({}) \/ \E c \in ids : DaemonSaves({c})
  \/ \E c \in Clients, g \in 1..MaxWrites :
       ClientRotate(c, g) \/ ClientRevoke(c, g) \/ ClientRevokeAgain(c, g) \/ ClientDelete(c, g)
  \/ \E a \in Archives : \/ \E outside \in BOOLEAN : BackupPlan(a, outside)
                         \/ \E bump \in 0..1 : RestorePlan(a, bump)
  \/ \E kind \in {"uninstall", "purge"}, force, all \in BOOLEAN : RemovalPlan(kind, force, all)
  \/ CliStep \/ BackupStep \/ RestoreStep \/ RollbackStep \/ RemovalStep
  \/ Mishap

DataSpec == DataInit /\ [][DataNext]_dataVars

----------------------------------------------------------------------------
(* What the commands promise                                               *)

PurgesData == cmd.pc \in {"backups", "secrets", "doc"}

(* The services run only on a configuration and a state of the same init   *)
(* or restore (the swap of restore happens between stop and start), and    *)
(* every credential the state calls active is in the secret store: now, in *)
(* the tree a restore has moved aside and in every archive that backup     *)
(* wrote while clients were added, rotated and revoked.  The trees, not    *)
(* the archives, are exempt while flaws is not empty: after a client       *)
(* command that survived the stop wrote to them ("stray"), an end between  *)
(* the two swaps or in the middle of a purge ("half"), or a commit or      *)
(* rollback of a restore that failed ("commit", "rollback").  The next     *)
(* restore clears all but the first.                                       *)
DataSound ==
  /\ flaws = {} =>
       /\ units.up => conf.tag = root.tag /\ Initialized
       /\ ~PurgesData => root.doc.has \subseteq root.secrets
       /\ Reached("start") => oldRoot.doc.has \subseteq oldRoot.secrets
  /\ \A a \in Archives : archive[a].doc.has \subseteq archive[a].secrets

Ends(how) == cmd # Idle /\ outcome' = how /\ cmd' = Idle

(* Nothing written to the tree is missing: it is the same, or a later      *)
(* state of it.                                                            *)
Continued(before, after) ==
  /\ after.tag = before.tag /\ after.boxes = before.boxes /\ after.base = before.base
  /\ after.doc.gen >= before.doc.gen
  /\ after.doc.gen = before.doc.gen => after.doc = before.doc

(* A restore that reports success has replaced both trees and the firewall *)
(* by the archive's and left nothing half done; one that rolls back        *)
(* without an error puts back the trees it found, with every change saved  *)
(* since the emergency snapshot, and the firewall and services with them.  *)
(* Not with a flaw; so a failure while the former trees are being deleted  *)
(* (flaw "commit") is exempt, one at any step before that is not.          *)
RestoreExact ==
  [][flaws' = {} =>
       /\ Ends("restored") =>
            /\ conf' = [tag |-> cmd.tag, made |-> TRUE]
            /\ root'.tag = cmd.tag /\ net' = cmd.tag /\ units'.up
            /\ root'.doc.gen >= cmd.load.doc.gen
            /\ root'.doc.gen = cmd.load.doc.gen => root'.doc = cmd.load.doc
            /\ oldConf' = NoConf /\ oldRoot' = NoRoot
       /\ Ends("rolled back") =>
            /\ net' = cmd.net
            /\ Replacing => conf' = cmd.view.conf /\ units'.up = conf.made
            /\ cmd.prior # NoRoot => Continued(cmd.prior, root')
            /\ ~Replacing => conf' = NoConf /\ root' = NoRoot]_dataVars

(* Uninstall and purge touch network, files and data only while the state  *)
(* is the one the operator has reviewed, so nothing that became active     *)
(* meanwhile goes without --force; they take backups only when told to;    *)
(* and a finished removal has left services stopped and disabled and the   *)
(* network as before vpnctl, and of the data what it says.  What a client  *)
(* command writes after the last check of the state is "stray" and exempt; *)
(* up to that check its writes are not.                                    *)
RemovalConsented ==
  [][cmd.kind \in {"uninstall", "purge"} /\ "stray" \notin flaws' =>
       /\ cmd.pc \in {"net", "runtime", "data", "backups"} /\ cmd' # Idle
            => root.doc = cmd.view.doc
       /\ root'.boxes # root.boxes => cmd.opt \/ root.boxes = {}
       /\ Ends("removed") =>
            /\ units' = [files |-> FALSE, on |-> FALSE, up |-> FALSE]
            /\ net' = 0 /\ ~conf'.made
            /\ cmd.kind = "uninstall" => root'.doc = cmd.view.doc
            /\ cmd.kind = "purge" => conf' = NoConf /\ root'.doc = NoDoc /\ root'.secrets = {}
     ]_dataVars
=============================================================================
