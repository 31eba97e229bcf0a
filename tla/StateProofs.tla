----------------------------- MODULE StateProofs -----------------------------
(***************************************************************************)
(* The data of a gateway and its release, for any clients, archives,       *)
(* versions, commands and failures.                                        *)
(*                                                                         *)
(* The trees, under backup, restore, uninstall, purge and client commands: *)
(* services run on trees that belong together, every active                *)
(* credential is in the secret store and in every archive, a restore       *)
(* replaces or puts back exactly what it says, and a removal acts on what  *)
(* the operator has reviewed.                                              *)
(*                                                                         *)
(* The REALITY listener, under changes of the handshake host by any number *)
(* of processes: unless somebody was told otherwise, files and listener    *)
(* are those of the stored state whenever nothing is at work, and a        *)
(* committed change affects whom its review named.                         *)
(*                                                                         *)
(* The release, under updates and rollbacks: no command undoes what        *)
(* another one has stored and, with one command at a time, whatever relies *)
(* on the host being of one release finds it so.                           *)
(***************************************************************************)
EXTENDS GatewayData, HandshakeHost, SoftwareUpdate, FiniteSetTheorems,
        WellFoundedInduction, TLAPS

(***************************************************************************)
(* The trees                                                               *)
(***************************************************************************)

(* Types.                                                                  *)
Secrets == Clients \X Nat
Docs == [gen : Nat, has : SUBSET Secrets, revoked : SUBSET Secrets, backups : SUBSET Archives]
Boxes == {S \in SUBSET Archives : IsFiniteSet(S)}
Confs == [tag : Nat, made : BOOLEAN]
Roots == [tag : Nat, doc : Docs, secrets : SUBSET Secrets, boxes : Boxes, base : BOOLEAN]
Contents == [doc : Docs, secrets : SUBSET Secrets]
Views == [doc : Docs, conf : Confs, files : BOOLEAN, boxes : Nat]

(* The steps of the commands, in the order they are taken.                 *)
Copying == {"read", "link", "record", "observe"}
Preparing == {"check", "snapConf", "snapTree", "snapDoc", "install", "stage", "stop", "confOut"}
Swapping == {"confIn", "rootOut", "rootIn"}
Activated == {"start", "netIn", "health", "commitConf", "commitRoot"}
RollingBack == {"rbStop", "rbNet", "rbConf", "rbRoot", "rbUnits"}
Reviewing == {"review", "gate", "halt", "recheck"}
Deleting == {"net", "runtime", "data", "backups", "secrets", "doc", "binary"}
Restoring == Preparing \cup Swapping \cup Activated \cup RollingBack
Kinds == {"none", "backup", "restore", "uninstall", "purge"}
Cmds == [pc : {"idle"} \cup Copying \cup Restoring \cup Reviewing \cup Deleting,
         kind : Kinds, id : Boxes, opt : BOOLEAN, view : Views, load : Contents, tag : Nat,
         net : Nat, units : BOOLEAN, done : SUBSET {"conf", "root"}, prior : Roots,
         clean : BOOLEAN]
Clis == [pc : {"idle", "put", "save", "clean"}, op : {"none", "add", "rotate", "revoke", "delete"},
         who : SUBSET Clients, base : Docs, cand : Docs, put : SUBSET Secrets,
         del : SUBSET Secrets, tag : Nat]

Outcomes == {"none", "backed up", "restored", "rolled back", "removed", "failed", "conflict",
             "stale", "killed"}

DataType ==
  /\ conf \in Confs /\ oldConf \in Confs /\ root \in Roots /\ oldRoot \in Roots
  /\ snap \in [conf : Confs, root : Roots]
  /\ archive \in [Archives -> Contents] /\ away \in SUBSET Archives
  /\ units \in [files : BOOLEAN, on : BOOLEAN, up : BOOLEAN] /\ net \in Nat
  /\ binary \in BOOLEAN /\ cmd \in Cmds /\ outcome \in Outcomes /\ cli \in Clis
  /\ ids \in SUBSET Clients /\ flaws \subseteq {"stray", "half", "commit", "rollback"}
  /\ spent \in [commands : Nat, writes : Nat, mishaps : Nat]

(* The kind of a command and its steps.                                    *)
CmdShape ==
  /\ cmd.pc = "idle" => cmd = Idle
  /\ cmd.kind = "backup" <=> cmd.pc \in Copying
  /\ cmd.kind = "restore" <=> cmd.pc \in Restoring
  /\ cmd.kind \in {"uninstall", "purge"} <=> cmd.pc \in Reviewing \cup Deleting
  /\ cmd.pc \in {"data", "backups", "secrets", "doc"} => cmd.kind = "purge"

----------------------------------------------------------------------------
(* Documents                                                               *)

(* A client is in a document once, with one generation of its credential,  *)
(* and only after its identity has been allocated.                         *)
DocOK(d, unused) ==
  /\ d = NoDoc \/ d.gen >= 1
  /\ \A x, y \in d.has \cup d.revoked : x[1] = y[1] => x = y
  /\ d.has \cap d.revoked = {}
  /\ \A x \in d.has \cup d.revoked : x[1] \notin unused
DocInv ==
  /\ DocOK(root.doc, ids) /\ DocOK(oldRoot.doc, ids) /\ DocOK(snap.root.doc, ids)
  /\ DocOK(cmd.load.doc, ids) /\ DocOK(cli.base, ids) /\ DocOK(cli.cand, ids)
  /\ \A a \in Archives : DocOK(archive[a].doc, ids)

(* Archives hold the secrets of their document, and what a command holds   *)
(* of an archive, too.                                                     *)
Boxed == away \cup root.boxes \cup oldRoot.boxes \cup snap.root.boxes
ArchiveInv ==
  /\ \A a \in Archives : ArchiveComplete(a)
  /\ \A a \in Boxed : archive[a].doc # NoDoc
  /\ cmd.kind \in {"backup", "restore"} => cmd.load.doc # NoDoc
  /\ cmd.pc \in (Copying \ {"read"}) \cup Restoring => cmd.load.doc.has \subseteq cmd.load.secrets

(* A tag is given to one tree only: the one of the latest restore is new.  *)
Top == spent.commands + 1
TagInv ==
  /\ root.tag <= Top /\ oldRoot.tag <= Top /\ snap.root.tag <= Top /\ cli.tag <= Top
  /\ cmd.kind = "restore" => cmd.tag = Top /\ oldRoot.tag < Top
  /\ cmd.pc \in Preparing \cup Swapping => root.tag < Top /\ cli.tag < Top /\ snap.root.tag < Top

(* What a client command has read, will write and will delete.             *)
CliShape ==
  /\ cli.pc = "idle" => cli = NoCli
  /\ \A x \in cli.put \cup cli.del : x[1] \notin ids
  /\ cli.pc \in {"put", "save"} =>
       /\ cli.base.gen >= 1 /\ cli.cand.gen = cli.base.gen + 1
       /\ cli.cand.has \subseteq cli.base.has \cup cli.put
       /\ cli.cand.has \cap cli.del = {} /\ cli.put \cap cli.base.has = {}

StaticInv == CmdShape /\ DocInv /\ ArchiveInv /\ TagInv /\ CliShape

----------------------------------------------------------------------------
(* The trees and the client command beside                                 *)

Whole(t) == t.doc.has \subseteq t.secrets
(* A generation names one document of a tree: if the tree is still at the  *)
(* generation that the command has read, it is the document it has read.   *)
CliAgrees(t) ==
  cli.tag = t.tag /\ t.doc # NoDoc =>
    /\ cli.pc \in {"put", "save"} =>
         /\ cli.base.gen <= t.doc.gen
         /\ cli.base.gen = t.doc.gen => t.doc = cli.base
         /\ cli.put \cap t.doc.has = {}
    /\ cli.pc = "save" => cli.put \subseteq t.secrets
    /\ cli.pc = "clean" => cli.del \cap t.doc.has = {}

(* A restore that has put a new tree in place heals what was wrong before. *)
Clean == "stray" \notin flaws /\ (flaws = {} \/ cmd.pc \in Activated)
TreeInv ==
  /\ Clean /\ ~PurgesData => Whole(root) /\ CliAgrees(root)
  /\ flaws = {} =>
       /\ Whole(oldRoot) /\ CliAgrees(oldRoot)
       /\ oldRoot # NoRoot /\ root # NoRoot => oldRoot.tag # root.tag

(* A backup records itself in the document that it has copied, or in none. *)
Later(d, e) == d.gen <= e.gen /\ (d.gen = e.gen => d = e)
CopyInv == cmd.pc = "record" => Later(cmd.load.doc, root.doc)

----------------------------------------------------------------------------
(* restore                                                                 *)

(* What has been moved, by the step of the command.                        *)
NewConf == [tag |-> cmd.tag, made |-> TRUE]
MoveInv ==
  /\ cmd.pc \in Preparing => cmd.done = {}
  /\ cmd.pc = "confIn" => cmd.done = IF Replacing THEN {"conf"} ELSE {}
  /\ cmd.pc = "rootOut" => cmd.done = {"conf"} /\ Replacing
  /\ cmd.pc = "rootIn" => cmd.done = IF Replacing THEN {"conf", "root"} ELSE {"conf"}
  /\ cmd.pc \in Activated => cmd.done = {"conf", "root"} /\ root.tag = cmd.tag /\ Initialized
  /\ cmd.pc \in Activated \cup {"rootOut", "rootIn"} => conf = NewConf
  /\ cmd.pc \in {"stop", "confOut"} => Replacing
  /\ cmd.kind = "restore" /\ "root" \in cmd.done => "conf" \in cmd.done

(* From the checks on, the new trees are in force.                         *)
ActiveInv ==
  /\ cmd.pc \in {"health", "commitConf", "commitRoot"} => net = cmd.tag
  /\ cmd.pc \in {"commitConf", "commitRoot"} => units.up /\ Later(cmd.load.doc, root.doc)
  /\ cmd.pc = "commitRoot" /\ cmd.clean => oldConf = NoConf

(* The former trees are in place, or aside and untouched.                  *)
Aside == Swapping \cup {"start", "netIn", "health", "commitConf", "rbStop", "rbNet"}
Rooted == root.tag = cmd.view.conf.tag /\ Initialized
KeptInv ==
  flaws = {} /\ cmd.kind = "restore" =>
    /\ "conf" \notin cmd.done => conf = cmd.view.conf
    /\ cmd.pc \in {"rbRoot", "rbUnits"} => conf = cmd.view.conf
    /\ ~Replacing =>
         /\ cmd.view.conf = NoConf /\ cmd.prior = NoRoot
         /\ "root" \notin cmd.done \/ cmd.pc = "rbUnits" => root = NoRoot
    /\ Replacing =>
         /\ cmd.view.conf # NoConf
         /\ "conf" \in cmd.done /\ cmd.pc \in Aside \cup {"rbConf"} => oldConf = cmd.view.conf
         /\ "root" \notin cmd.done => Rooted /\ cmd.prior = NoRoot
         /\ "root" \in cmd.done =>
              cmd.prior.tag = cmd.view.conf.tag /\ cmd.prior.doc # NoDoc
         /\ "root" \in cmd.done /\ cmd.pc \in Aside \cup {"rbConf", "rbRoot"} =>
              oldRoot = cmd.prior
         /\ "root" \in cmd.done /\ cmd.pc = "rbUnits" =>
              Rooted /\ Continued(cmd.prior, root)
    /\ cmd.pc \in {"rbConf", "rbRoot", "rbUnits"} /\ cmd.clean => net = cmd.net

----------------------------------------------------------------------------
(* The services                                                            *)

UnitsInv ==
  /\ units.up => units.files
  /\ cmd.pc \in Deleting \cup {"recheck"} => ~units.up /\ ~units.on
  /\ flaws = {} =>
       /\ units.up => conf.tag = root.tag /\ Initialized
       /\ cmd.kind # "restore" /\ ~PurgesData /\ Initialized => conf.tag = root.tag
       /\ cmd.pc \in {"confOut", "start"} \cup Swapping \cup (RollingBack \ {"rbStop"}) => ~units.up

----------------------------------------------------------------------------
(* uninstall and purge                                                     *)

RemovalInv ==
  /\ cmd.pc \in {"gate", "halt", "recheck"} => Later(cmd.view.doc, root.doc)
  /\ cmd.pc \in Deleting \ {"net"} => net = 0
  /\ cmd.pc \in Deleting \ {"net", "runtime"} => ~units.files /\ ~conf.made
  /\ cmd.pc \in Deleting \ {"net", "runtime", "data"} /\ cmd.kind = "purge" => conf = NoConf
  /\ cmd.pc = "backups" => cmd.view.boxes = Cardinality(root.boxes)
  /\ cmd.pc \in {"secrets", "doc"} /\ ~KeepBackups => root.boxes = {}
  /\ "stray" \notin flaws =>
       /\ cmd.pc \in Deleting \ {"binary"} => root.doc = cmd.view.doc
       /\ cmd.pc = "binary" => root.doc = IF cmd.kind = "purge" THEN NoDoc ELSE cmd.view.doc
       /\ cmd.pc = "doc" \/ (cmd.pc = "binary" /\ cmd.kind = "purge") => root.secrets = {}

DataInv ==
  /\ DataType /\ StaticInv /\ TreeInv /\ CopyInv /\ MoveInv /\ ActiveInv /\ KeptInv
  /\ UnitsInv /\ RemovalInv

----------------------------------------------------------------------------
(* Types                                                                   *)

(* The values that stand for nothing have their types.                     *)
LEMMA Nothing ==
  /\ NoDoc \in Docs /\ NoConf \in Confs /\ NoRoot \in Roots /\ NoArchive \in Contents
  /\ NoView \in Views /\ Idle \in Cmds /\ NoCli \in Clis
<1>1. {} \in Boxes
  BY FS_EmptySet DEF Boxes
<1>2. NoDoc \in Docs /\ NoConf \in Confs
  BY DEF NoDoc, NoConf, Docs, Confs
<1>3. NoRoot \in Roots /\ NoArchive \in Contents /\ NoView \in Views
  BY <1>1, <1>2 DEF NoRoot, NoArchive, NoView, Roots, Contents, Views
<1>4. Idle \in Cmds
  BY <1>1, <1>2, <1>3 DEF Idle, Cmds, Kinds
<1>5. NoCli \in Clis
  BY <1>2 DEF NoCli, Clis
<1> QED
  BY <1>2, <1>3, <1>4, <1>5

(* The archives in a directory are finitely many.                          *)
LEMMA BoxesFacts ==
  /\ {} \in Boxes
  /\ \A a \in Archives : {a} \in Boxes
  /\ \A S, T \in Boxes : S \cup T \in Boxes /\ S \ T \in Boxes
  /\ \A S \in Boxes : Cardinality(S) \in Nat /\ (Cardinality(S) = 0 <=> S = {})
<1>1. {} \in Boxes
  BY FS_EmptySet DEF Boxes
<1>2. ASSUME NEW a \in Archives PROVE {a} \in Boxes
  BY FS_Singleton DEF Boxes
<1>3. ASSUME NEW S \in Boxes, NEW T \in Boxes PROVE S \cup T \in Boxes
  BY FS_Union DEF Boxes
<1>4. ASSUME NEW S \in Boxes, NEW T \in Boxes PROVE S \ T \in Boxes
  BY FS_Difference DEF Boxes
<1>5. ASSUME NEW S \in Boxes PROVE Cardinality(S) \in Nat /\ (Cardinality(S) = 0 <=> S = {})
  BY FS_CardinalityType, FS_EmptySet DEF Boxes
<1> QED
  BY <1>1, <1>2, <1>3, <1>4, <1>5

Steps == {"idle"} \cup Copying \cup Restoring \cup Reviewing \cup Deleting

(* All of a command but its step, its progress and its success.            *)
Held ==
  /\ cmd'.kind = cmd.kind /\ cmd'.id = cmd.id /\ cmd'.opt = cmd.opt /\ cmd'.view = cmd.view
  /\ cmd'.load = cmd.load /\ cmd'.tag = cmd.tag

(* What the next step of a command keeps of it.                            *)
LEMMA StepFacts ==
  ASSUME DataType, NEW at \in Steps, Step(at)
  PROVE  /\ cmd'.pc = at /\ Held /\ cmd'.net = cmd.net /\ cmd'.units = cmd.units
         /\ cmd'.done = cmd.done /\ cmd'.prior = cmd.prior /\ cmd'.clean = cmd.clean
         /\ cmd' \in Cmds /\ outcome' = outcome
BY DEF DataType, Cmds, Step, Held, Steps

(* The same when the step before has failed.                               *)
LEMMA UncleanFacts ==
  ASSUME DataType, NEW at \in Steps, Unclean(at)
  PROVE  /\ cmd'.pc = at /\ Held /\ cmd'.net = cmd.net /\ cmd'.units = cmd.units
         /\ cmd'.done = cmd.done /\ cmd'.prior = cmd.prior /\ cmd'.clean = FALSE
         /\ cmd' \in Cmds /\ outcome' = outcome
BY DEF DataType, Cmds, Unclean, Held, Steps

(* The same when a tree has been moved.                                    *)
LEMMA DidFacts ==
  ASSUME DataType, NEW at \in Steps, NEW s \in {"conf", "root"}, Did(s, at)
  PROVE  /\ cmd'.pc = at /\ Held /\ cmd'.net = cmd.net /\ cmd'.units = cmd.units
         /\ cmd'.done = cmd.done \cup {s} /\ cmd'.prior = cmd.prior /\ cmd'.clean = cmd.clean
         /\ cmd' \in Cmds /\ outcome' = outcome
BY DEF DataType, Cmds, Did, Held, Steps

(* The fields of what stands for nothing.                                  *)
LEMMA IdleFacts ==
  /\ Idle.pc = "idle" /\ Idle.kind = "none" /\ Idle.load = NoArchive /\ Idle.done = {}
  /\ NoArchive.doc = NoDoc /\ NoArchive.secrets = {} /\ NoDoc.gen = 0 /\ NoDoc.has = {}
  /\ NoDoc.revoked = {} /\ NoRoot.doc = NoDoc /\ NoRoot.tag = 0 /\ NoRoot.secrets = {}
  /\ NoRoot.boxes = {} /\ NoRoot.base = FALSE /\ NoConf.tag = 0 /\ NoConf.made = FALSE
BY DEF Idle, NoArchive, NoDoc, NoRoot, NoConf

(* The fields of no client command.                                        *)
LEMMA NoCliFacts ==
  /\ NoCli.pc = "idle" /\ NoCli.base = NoDoc /\ NoCli.cand = NoDoc /\ NoCli.put = {}
  /\ NoCli.del = {} /\ NoCli.tag = 0
BY DEF NoCli

(* Bounds are used up one at a time.                                       *)
LEMMA SpendFacts ==
  ASSUME DataType, NEW w \in {"commands", "writes", "mishaps"}, Spend(w)
  PROVE  /\ spent' \in [commands : Nat, writes : Nat, mishaps : Nat]
         /\ w # "commands" => spent'.commands = spent.commands
         /\ w = "commands" => spent'.commands = spent.commands + 1
BY DEF DataType, Spend

----------------------------------------------------------------------------
(* The writers beside a command                                            *)

(* An identity once used stays used.                                       *)
LEMMA DocMono ==
  ASSUME NEW d, NEW I, NEW J \in SUBSET I, DocOK(d, I)
  PROVE  DocOK(d, J)
BY DEF DocOK

(* What the daemon or a client command may do to the live tree.            *)
Written ==
  /\ UNCHANGED <<conf, oldConf, oldRoot, snap, archive, away, units, net, binary, cmd, outcome>>
  /\ spent'.commands = spent.commands
  /\ root'.tag = root.tag /\ root'.boxes = root.boxes /\ root'.base = root.base
  /\ root = NoRoot => root' = NoRoot
  /\ root'.doc = root.doc \/ (root.doc # NoDoc /\ root'.doc.gen = root.doc.gen + 1)
  /\ flaws' \in {flaws, flaws \cup {"stray"}}
  /\ Removing /\ "stray" \notin flaws' =>
       root'.doc = root.doc /\ root'.secrets \subseteq root.secrets

(* A written document is one, and is later than the one before.            *)
LEMMA WrittenDoc ==
  ASSUME DataType, Written, root' \in Roots
  PROVE  /\ Initialized' <=> Initialized
         /\ root.doc.gen <= root'.doc.gen
         /\ root.doc.gen = root'.doc.gen => root.doc = root'.doc
<1>1. root.doc.gen \in Nat /\ root'.doc.gen \in Nat
  BY DEF DataType, Roots, Docs
<1>2. NoDoc.gen = 0
  BY IdleFacts
<1>3. root'.doc = root.doc \/ (root.doc # NoDoc /\ root'.doc.gen = root.doc.gen + 1)
  BY DEF Written
<1>4. root'.doc.gen = root.doc.gen + 1 => root'.doc # NoDoc /\ root'.doc.gen # root.doc.gen
  BY <1>1, <1>2
<1> QED
  BY <1>1, <1>3, <1>4 DEF Initialized

(* A document that has been written is a later one.                        *)
LEMMA WrittenLater ==
  ASSUME DataType, Written, root' \in Roots, NEW d \in Docs, Later(d, root.doc)
  PROVE  Later(d, root'.doc)
<1>1. root.doc.gen \in Nat /\ root'.doc.gen \in Nat /\ d.gen \in Nat
  BY DEF DataType, Roots, Docs
<1>2. d.gen <= root.doc.gen /\ (d.gen = root.doc.gen => d = root.doc)
  BY DEF Later
<1>3. root.doc.gen <= root'.doc.gen /\ (root.doc.gen = root'.doc.gen => root.doc = root'.doc)
  BY WrittenDoc
<1>4. d.gen <= root'.doc.gen
  BY <1>1, <1>2, <1>3
<1>5. ASSUME d.gen = root'.doc.gen PROVE d = root'.doc
  <2>1. d.gen = root.doc.gen /\ root.doc.gen = root'.doc.gen
    BY <1>1, <1>2, <1>3, <1>5
  <2> QED
    BY <2>1, <1>2, <1>3
<1> QED
  BY <1>4, <1>5 DEF Later

(* Everything that is not about the client command survives a write.       *)
LEMMA WriterKeeps ==
  ASSUME DataInv, Written, root' \in Roots
  PROVE  CmdShape' /\ ArchiveInv' /\ CopyInv' /\ MoveInv' /\ ActiveInv' /\ KeptInv'
         /\ UnitsInv' /\ RemovalInv'
<1> USE DEF DataInv, StaticInv
<1>1. DataType /\ Written /\ cmd' = cmd /\ units' = units /\ net' = net /\ conf' = conf
  BY DEF Written
<1>2. Initialized' <=> Initialized
  BY WrittenDoc
<1>3. cmd.load.doc \in Docs /\ cmd.view.doc \in Docs /\ cmd.prior.doc \in Docs
  BY DEF DataType, Cmds, Contents, Views, Roots
<1>4. CmdShape'
  BY <1>1 DEF CmdShape
<1>5. ArchiveInv'
  BY <1>1 DEF ArchiveInv, Boxed, ArchiveComplete, Written
<1>6. MoveInv'
  BY <1>1, <1>2 DEF MoveInv, NewConf, Replacing, Written
<1>7. ActiveInv'
  BY <1>1, <1>3, WrittenLater DEF ActiveInv, Written
<1>8. KeptInv'
  <2>1. Continued(cmd.prior, root) => Continued(cmd'.prior, root')
    <3>1. ASSUME Continued(cmd.prior, root) PROVE Later(cmd.prior.doc, root.doc)
      BY <3>1, <1>3 DEF Continued, Later, DataType, Roots, Docs
    <3>2. Continued(cmd.prior, root) => Later(cmd.prior.doc, root'.doc)
      BY <3>1, <1>3, WrittenLater
    <3> QED
      BY <1>1, <1>3, <3>2 DEF Continued, Later, Written, DataType, Roots, Docs
  <2>2. flaws' = {} => flaws = {}
    BY DEF Written
  <2>3. (Rooted => Rooted') /\ Replacing' = Replacing
    BY <1>1, <1>2 DEF Rooted, Replacing, Written
  <2> QED
    BY <1>1, <2>1, <2>2, <2>3 DEF KeptInv, Written
<1>9. UnitsInv'
  BY <1>1, <1>2 DEF UnitsInv, Written, PurgesData
<1>10. RemovalInv'
  <2>1. Later(cmd.view.doc, root.doc) => Later(cmd.view.doc, root'.doc)
    BY <1>3, WrittenLater
  <2>2. "stray" \notin flaws' => "stray" \notin flaws
    BY DEF Written
  <2>3. cmd.pc \in Deleting => Removing
    BY DEF Deleting, Removing
  <2>4. cmd.pc \in Deleting /\ "stray" \notin flaws' =>
          root'.doc = root.doc /\ root'.secrets \subseteq root.secrets
    BY <2>3 DEF Written
  <2>5. root'.boxes = root.boxes
    BY DEF Written
  <2>6. {"doc", "binary"} \subseteq Deleting
    BY DEF Deleting
  <2>7. /\ "stray" \notin flaws' =>
             /\ cmd.pc \in Deleting \ {"binary"} => root'.doc = cmd.view.doc
             /\ cmd.pc = "binary" => root'.doc = IF cmd.kind = "purge" THEN NoDoc ELSE cmd.view.doc
             /\ cmd.pc = "doc" \/ (cmd.pc = "binary" /\ cmd.kind = "purge") => root'.secrets = {}
    BY <2>2, <2>4, <2>6 DEF RemovalInv
  <2> QED
    BY <1>1, <2>1, <2>5, <2>7 DEF RemovalInv, KeepBackups
<1>11. CopyInv'
  BY <1>1, <1>3, WrittenLater DEF CopyInv
<1> QED
  BY <1>4, <1>5, <1>6, <1>7, <1>8, <1>9, <1>10, <1>11

(* What remains to be shown of a writer: it writes, and leaves types, its  *)
(* documents, its own record and the trees in order.                       *)
LEMMA WriterInv ==
  ASSUME DataInv, Written, DataType', DocInv', CliShape', TreeInv', cli'.tag \in {cli.tag, root.tag, 0}
  PROVE  DataInv'
<1> USE DEF DataInv, StaticInv
<1>1. root' \in Roots
  BY DEF DataType
<1>2. /\ CmdShape' /\ ArchiveInv' /\ CopyInv' /\ MoveInv' /\ ActiveInv' /\ KeptInv'
      /\ UnitsInv' /\ RemovalInv'
  BY <1>1, WriterKeeps
<1>3. TagInv'
  BY DEF TagInv, Top, Written, DataType, Roots, Clis, Confs
<1> QED
  BY <1>2, <1>3

(* A change the controller saves keeps the invariant.                      *)
LEMMA DaemonKeeps ==
  ASSUME DataInv, NEW new \in SUBSET ids, \A x, y \in new : x = y, DaemonSaves(new)
  PROVE  DataInv'
<1> USE DEF DataInv, StaticInv
<1> DEFINE more == new \X {1}
<1>1. more \in SUBSET Secrets
  BY DEF Secrets, DataType
<1>2. /\ root'.tag = root.tag /\ root'.boxes = root.boxes /\ root'.base = root.base
      /\ root'.secrets = root.secrets \cup more /\ root'.doc.has = root.doc.has \cup more
      /\ root'.doc.gen = root.doc.gen + 1 /\ root'.doc.revoked = root.doc.revoked
      /\ root' \in Roots
  <2>1. root \in Roots /\ root.doc \in Docs
    BY DEF DataType, Roots
  <2>2. root' = [root EXCEPT !.secrets = @ \cup more, !.doc.has = @ \cup more, !.doc.gen = @ + 1]
    BY DEF DaemonSaves
  <2> DEFINE d == [gen |-> root.doc.gen + 1, has |-> root.doc.has \cup more,
                  revoked |-> root.doc.revoked, backups |-> root.doc.backups]
  <2>3. d \in Docs /\ d.has = root.doc.has \cup more /\ d.gen = root.doc.gen + 1
        /\ d.revoked = root.doc.revoked
    BY <1>1, <2>1 DEF Docs
  <2>4. root'.doc = d
    BY <2>1, <2>2 DEF Roots, Docs
  <2>5. /\ root'.tag = root.tag /\ root'.boxes = root.boxes /\ root'.base = root.base
        /\ root'.secrets = root.secrets \cup more
    BY <2>1, <2>2 DEF Roots
  <2>6. root' = [tag |-> root.tag, doc |-> d, secrets |-> root.secrets \cup more,
                boxes |-> root.boxes, base |-> root.base]
    BY <2>1, <2>2, <2>4 DEF Roots
  <2>7. root' \in Roots
    BY <1>1, <2>1, <2>3, <2>6 DEF Roots
  <2> QED
    BY <2>3, <2>4, <2>5, <2>7
<1>3. /\ UNCHANGED <<conf, oldConf, oldRoot, snap, archive, away, units, net, binary, cmd,
                     outcome, cli, flaws>>
      /\ ids' = ids \ new /\ Spend("writes") /\ units.up /\ root.doc # NoDoc
  BY DEF DaemonSaves, host, Initialized
<1>4. spent' \in [commands : Nat, writes : Nat, mishaps : Nat] /\ spent'.commands = spent.commands
  BY <1>3, SpendFacts
<1>5. Written
  <2>1. root # NoRoot
    BY <1>3, IdleFacts
  <2>2. ~Removing
    BY <1>3 DEF UnitsInv, Removing, Deleting
  <2> QED
    BY <1>2, <1>3, <1>4, <2>1, <2>2 DEF Written
<1>6. DataType'
  BY <1>2, <1>3, <1>4 DEF DataType
<1>7. DocInv'
  <2>1. DocOK(root'.doc, ids')
    <3>1. DocOK(root.doc, ids)
      BY DEF DocInv
    <3>2. \A x \in more : x[1] \in new
      OBVIOUS
    <3>3. \A x, y \in more : x = y
      OBVIOUS
    <3>4. root'.doc.gen >= 1
      BY <1>2 DEF DataType, Roots, Docs
    <3>5. \A x \in root.doc.has \cup root.doc.revoked : x[1] \notin new
      BY <3>1 DEF DocOK
    <3>6. \A x, y \in root'.doc.has \cup root'.doc.revoked : x[1] = y[1] => x = y
      BY <1>2, <3>1, <3>2, <3>3, <3>5 DEF DocOK
    <3>7. root'.doc.has \cap root'.doc.revoked = {}
      BY <1>2, <3>1, <3>2, <3>5 DEF DocOK
    <3>8. \A x \in root'.doc.has \cup root'.doc.revoked : x[1] \notin ids'
      BY <1>2, <1>3, <3>1, <3>2 DEF DocOK
    <3> QED
      BY <3>4, <3>6, <3>7, <3>8 DEF DocOK
  <2>2. ids' \in SUBSET ids
    BY <1>3
  <2> QED
    BY <1>3, <2>1, <2>2, DocMono DEF DocInv
<1>8. CliShape'
  BY <1>3 DEF CliShape
<1>9. TreeInv'
  <2>1. cli.put \cap more = {} /\ cli.del \cap more = {}
    BY DEF CliShape
  <2>2. CliAgrees(root) => CliAgrees(root')
    <3>1. cli.base.gen \in Nat /\ root.doc.gen \in Nat
      BY DEF DataType, Clis, Roots, Docs
    <3> QED
      BY <1>2, <1>3, <2>1, <3>1 DEF CliAgrees
  <2>3. CliAgrees(root)' <=> CliAgrees(root')
    BY <1>3 DEF CliAgrees
  <2>4. CliAgrees(oldRoot)' <=> CliAgrees(oldRoot)
    BY <1>3 DEF CliAgrees
  <2>5. Whole(root) => Whole(root')
    BY <1>2 DEF Whole
  <2>6. root # NoRoot
    BY <1>3, IdleFacts
  <2> QED
    BY <1>2, <1>3, <2>2, <2>3, <2>4, <2>5, <2>6 DEF TreeInv, Clean, PurgesData, Whole
<1> QED
  BY <1>3, <1>5, <1>6, <1>7, <1>8, <1>9, WriterInv

(* A client command begins: what it has read and what it is going to do.   *)
LEMMA BeginKeeps ==
  ASSUME DataInv, NEW op \in {"add", "rotate", "revoke", "delete"}, NEW c \in Clients,
         NEW put \in SUBSET Secrets, NEW del \in SUBSET Secrets,
         NEW has \in SUBSET Secrets, NEW revoked \in SUBSET Secrets,
         CliBegins(op, c, put, del, has, revoked), ids' \in SUBSET ids,
         \A x \in put \cup del : x[1] \notin ids',
         has \subseteq root.doc.has \cup put, has \cap del = {}, put \cap root.doc.has = {},
         \A x, y \in has \cup revoked : x[1] = y[1] => x = y, has \cap revoked = {},
         \A x \in has \cup revoked : x[1] \notin ids'
  PROVE  DataInv'
<1> USE DEF DataInv, StaticInv
<1>1. /\ UNCHANGED <<conf, root, oldConf, oldRoot, snap, archive, away, units, net, binary, cmd,
                     outcome, flaws>>
      /\ Spend("writes") /\ root.doc # NoDoc
  BY DEF CliBegins, trees, host, Initialized
<1>2. spent' \in [commands : Nat, writes : Nat, mishaps : Nat] /\ spent'.commands = spent.commands
  BY <1>1, SpendFacts
<1>3. /\ cli' = [pc |-> IF put # {} THEN "put" ELSE "save", op |-> op, who |-> {c},
                 base |-> root.doc, cand |-> cli'.cand, put |-> put, del |-> del, tag |-> root.tag]
      /\ cli'.cand = [root.doc EXCEPT !.gen = @ + 1, !.has = has, !.revoked = revoked]
  BY DEF CliBegins
<1>4. /\ cli'.cand \in Docs /\ cli'.cand.gen = root.doc.gen + 1 /\ cli'.cand.has = has
      /\ cli'.cand.revoked = revoked
  <2>1. root.doc \in Docs
    BY DEF DataType, Roots
  <2>2. cli'.cand = [gen |-> root.doc.gen + 1, has |-> has, revoked |-> revoked,
                     backups |-> root.doc.backups]
    BY <1>3, <2>1 DEF Docs
  <2> QED
    BY <2>1, <2>2 DEF Docs
<1>5. /\ cli'.pc \in {"put", "save"} /\ cli'.base = root.doc /\ cli'.put = put /\ cli'.del = del
      /\ cli'.tag = root.tag /\ (cli'.pc = "save" => put = {}) /\ cli' \in Clis
  BY <1>3, <1>4 DEF Clis, DataType, Roots
<1>6. Written
  BY <1>1, <1>2 DEF Written
<1>7. DataType'
  BY <1>1, <1>2, <1>5 DEF DataType
<1>8. root.doc.gen \in Nat /\ root.doc.gen >= 1
  BY <1>1 DEF DocInv, DocOK, DataType, Roots, Docs
<1>9. DocInv'
  <2>1. DocOK(cli'.cand, ids')
    BY <1>4, <1>8 DEF DocOK
  <2> QED
    BY <1>1, <1>5, <2>1, DocMono DEF DocInv
<1>10. CliShape'
  BY <1>4, <1>5, <1>8 DEF CliShape
<1>11. TreeInv'
  <2>1. CliAgrees(root)'
    BY <1>1, <1>5, <1>8 DEF CliAgrees
  <2>2. oldRoot.tag # root.tag => CliAgrees(oldRoot)'
    BY <1>1, <1>5 DEF CliAgrees
  <2>3. oldRoot = NoRoot => CliAgrees(oldRoot)'
    BY <1>1, IdleFacts DEF CliAgrees
  <2>4. root # NoRoot
    BY <1>1, IdleFacts
  <2> QED
    BY <1>1, <2>1, <2>2, <2>3, <2>4 DEF TreeInv, Clean, PurgesData, Whole
<1> QED
  BY <1>5, <1>6, <1>7, <1>9, <1>10, <1>11, WriterInv

(* A credential of an allocated client is a secret.                        *)
LEMMA NewSecrets ==
  ASSUME DataType, NEW S \in SUBSET Secrets, root' = [root EXCEPT !.secrets = S]
  PROVE  /\ root'.tag = root.tag /\ root'.doc = root.doc /\ root'.boxes = root.boxes
         /\ root'.base = root.base /\ root'.secrets = S /\ root' \in Roots
BY DEF DataType, Roots

(* The document a client command will write.                               *)
LEMMA NewDoc ==
  ASSUME DataType, NEW d \in Docs, root' = [root EXCEPT !.doc = d]
  PROVE  /\ root'.tag = root.tag /\ root'.doc = d /\ root'.boxes = root.boxes
         /\ root'.base = root.base /\ root'.secrets = root.secrets /\ root' \in Roots
BY DEF DataType, Roots

(* client add: identity and credential are new to every document.          *)
LEMMA AddKeeps ==
  ASSUME DataInv, NEW c \in Clients, ClientAdd(c) PROVE DataInv'
<1> USE DEF DataInv, StaticInv
<1> DEFINE x == <<c, 1>>
<1>1. /\ c \in ids /\ ids' = ids \ {c}
      /\ CliBegins("add", c, {x}, {}, root.doc.has \cup {x}, root.doc.revoked)
  BY DEF ClientAdd
<1>2. DocOK(root.doc, ids) /\ root.doc.has \in SUBSET Secrets /\ root.doc.revoked \in SUBSET Secrets
  BY DEF DocInv, DataType, Roots, Docs
<1>3. \A y \in root.doc.has \cup root.doc.revoked : y[1] # c
  BY <1>1, <1>2 DEF DocOK
<1>4. x \in Secrets /\ x[1] = c
  BY DEF Secrets
<1>5. x \notin root.doc.has \cup root.doc.revoked
  BY <1>3, <1>4
<1>6. \A y, z \in (root.doc.has \cup {x}) \cup root.doc.revoked : y[1] = z[1] => y = z
  BY <1>2, <1>3, <1>4 DEF DocOK
<1>7. \A y \in (root.doc.has \cup {x}) \cup root.doc.revoked : y[1] \notin ids'
  BY <1>1, <1>2, <1>4 DEF DocOK
<1>8. (root.doc.has \cup {x}) \cap root.doc.revoked = {}
  BY <1>2, <1>5 DEF DocOK
<1> HIDE DEF x
<1>9. {x} \in SUBSET Secrets /\ root.doc.has \cup {x} \in SUBSET Secrets /\ ids' \in SUBSET ids
  BY <1>1, <1>2, <1>4
<1>10. {} \in SUBSET Secrets /\ \A y \in {x} \cup {} : y[1] \notin ids'
  BY <1>1, <1>4
<1>11. (root.doc.has \cup {x}) \cap {} = {} /\ {x} \cap root.doc.has = {}
       /\ root.doc.has \cup {x} \subseteq root.doc.has \cup {x}
  BY <1>5
<1> QED
  BY <1>1, <1>2, <1>6, <1>7, <1>8, <1>9, <1>10, <1>11, BeginKeeps

(* client rotate: one credential for another.                              *)
LEMMA RotateKeeps ==
  ASSUME DataInv, NEW c \in Clients, NEW g \in 1..MaxWrites, ClientRotate(c, g) PROVE DataInv'
<1> USE DEF DataInv, StaticInv
<1> DEFINE x == <<c, g>>  y == <<c, g + 1>>
<1> DEFINE has == (root.doc.has \ {x}) \cup {y}
<1>1. /\ x \in root.doc.has /\ ids' = ids
      /\ CliBegins("rotate", c, {y}, {x}, has, root.doc.revoked)
  BY DEF ClientRotate
<1>2. DocOK(root.doc, ids) /\ root.doc.has \in SUBSET Secrets /\ root.doc.revoked \in SUBSET Secrets
  BY DEF DocInv, DataType, Roots, Docs
<1>3. g \in Nat
  BY DataAssumptions
<1>4. x \in Secrets /\ x[1] = c /\ y \in Secrets /\ y[1] = c /\ x # y
  BY <1>3 DEF Secrets
<1>5. \A z \in root.doc.has \cup root.doc.revoked : z[1] = c => z = x
  BY <1>1, <1>2, <1>4 DEF DocOK
<1> HIDE DEF x, y
<1>6. y \notin root.doc.has \cup root.doc.revoked
  BY <1>4, <1>5
<1>7. \A z, w \in has \cup root.doc.revoked : z[1] = w[1] => z = w
  <2>1. \A z \in has \cup root.doc.revoked : z[1] = c => z = y
    BY <1>1, <1>2, <1>5 DEF DocOK
  <2> QED
    BY <1>2, <1>4, <2>1 DEF DocOK
<1>8. \A z \in has \cup root.doc.revoked : z[1] \notin ids'
  BY <1>1, <1>2, <1>4 DEF DocOK
<1>9. has \cap root.doc.revoked = {}
  BY <1>2, <1>6 DEF DocOK
<1>10. {x} \in SUBSET Secrets /\ {y} \in SUBSET Secrets /\ has \in SUBSET Secrets
  BY <1>2, <1>4
<1>11. has \subseteq root.doc.has \cup {y} /\ has \cap {x} = {} /\ {y} \cap root.doc.has = {}
  BY <1>4, <1>6
<1>12. \A z \in {y} \cup {x} : z[1] \notin ids'
  BY <1>1, <1>2, <1>4 DEF DocOK
<1>13. ids' \in SUBSET ids
  BY <1>1
<1> HIDE DEF has
<1> QED
  BY <1>1, <1>2, <1>7, <1>8, <1>9, <1>10, <1>11, <1>12, <1>13, BeginKeeps

(* client revoke: the credential is no longer active.                      *)
LEMMA RevokeKeeps ==
  ASSUME DataInv, NEW c \in Clients, NEW g \in 1..MaxWrites, ClientRevoke(c, g) PROVE DataInv'
<1> USE DEF DataInv, StaticInv
<1> DEFINE x == <<c, g>>
<1> DEFINE has == root.doc.has \ {x}  revoked == root.doc.revoked \cup {x}
<1>1. /\ x \in root.doc.has /\ ids' = ids
      /\ CliBegins("revoke", c, {}, {x}, has, revoked)
  BY DEF ClientRevoke
<1>2. DocOK(root.doc, ids) /\ root.doc.has \in SUBSET Secrets /\ root.doc.revoked \in SUBSET Secrets
  BY DEF DocInv, DataType, Roots, Docs
<1> HIDE DEF x
<1>3. has \cup revoked = root.doc.has \cup root.doc.revoked
  BY <1>1
<1>4. has \cap revoked = {} /\ x[1] \notin ids
  BY <1>1, <1>2 DEF DocOK
<1>5. \A z, w \in has \cup revoked : z[1] = w[1] => z = w
  BY <1>2, <1>3 DEF DocOK
<1>6. \A z \in has \cup revoked : z[1] \notin ids'
  BY <1>1, <1>2, <1>3 DEF DocOK
<1>7. {x} \in SUBSET Secrets /\ {} \in SUBSET Secrets /\ has \in SUBSET Secrets
      /\ revoked \in SUBSET Secrets
  BY <1>1, <1>2
<1>8. has \subseteq root.doc.has \cup {} /\ has \cap {x} = {} /\ {} \cap root.doc.has = {}
  OBVIOUS
<1>9. ids' \in SUBSET ids /\ \A z \in {} \cup {x} : z[1] \notin ids'
  BY <1>1, <1>4
<1> HIDE DEF has, revoked
<1> QED
  BY <1>1, <1>4, <1>5, <1>6, <1>7, <1>8, <1>9, BeginKeeps

(* client delete: the client is no longer on record.                       *)
LEMMA DeleteKeeps ==
  ASSUME DataInv, NEW c \in Clients, NEW g \in 1..MaxWrites, ClientDelete(c, g) PROVE DataInv'
<1> USE DEF DataInv, StaticInv
<1> DEFINE x == <<c, g>>
<1> DEFINE has == root.doc.has  revoked == root.doc.revoked \ {x}
<1>1. /\ x \in root.doc.revoked /\ ids' = ids
      /\ CliBegins("delete", c, {}, {x}, has, revoked)
  BY DEF ClientDelete
<1>2. DocOK(root.doc, ids) /\ root.doc.has \in SUBSET Secrets /\ root.doc.revoked \in SUBSET Secrets
  BY DEF DocInv, DataType, Roots, Docs
<1> HIDE DEF x
<1>4. has \cap revoked = {} /\ x[1] \notin ids /\ x \notin has
  BY <1>1, <1>2 DEF DocOK
<1>5. \A z, w \in has \cup revoked : z[1] = w[1] => z = w
  BY <1>2 DEF DocOK
<1>6. \A z \in has \cup revoked : z[1] \notin ids'
  BY <1>1, <1>2 DEF DocOK
<1>7. {x} \in SUBSET Secrets /\ {} \in SUBSET Secrets /\ has \in SUBSET Secrets
      /\ revoked \in SUBSET Secrets
  BY <1>1, <1>2
<1>8. has \subseteq root.doc.has \cup {} /\ has \cap {x} = {} /\ {} \cap root.doc.has = {}
  BY <1>4
<1>9. ids' \in SUBSET ids /\ \A z \in {} \cup {x} : z[1] \notin ids'
  BY <1>1, <1>4
<1> HIDE DEF has, revoked
<1> QED
  BY <1>1, <1>4, <1>5, <1>6, <1>7, <1>8, <1>9, BeginKeeps

(* The frame of a step of a client command.                                *)
CliFrame ==
  /\ UNCHANGED <<conf, oldConf, oldRoot, snap, archive, away, units, net, binary, cmd, outcome, ids>>
  /\ spent' \in [commands : Nat, writes : Nat, mishaps : Nat] /\ spent'.commands = spent.commands

(* With no client command there is nothing to agree with.                  *)
LEMMA NothingToAgree ==
  ASSUME cli' = NoCli, NEW t PROVE CliAgrees(t)' /\ CliShape'
BY NoCliFacts DEF CliAgrees, CliShape

(* A client command that gives up leaves nothing to agree with.            *)
LEMMA QuitKeeps ==
  ASSUME DataInv, CliFrame, UNCHANGED <<root, flaws>>, cli' = NoCli PROVE DataInv'
<1> USE DEF DataInv, StaticInv
<1>1. Written
  BY DEF Written, CliFrame
<1>2. DataType'
  BY Nothing DEF DataType, CliFrame
<1>3. DocOK(NoDoc, ids)
  BY IdleFacts DEF DocOK
<1>4. DocInv'
  BY <1>3, NoCliFacts DEF DocInv, CliFrame
<1>5. TreeInv'
  BY NothingToAgree DEF TreeInv, CliFrame, Clean, PurgesData, Whole
<1> QED
  BY <1>1, <1>2, <1>4, <1>5, NothingToAgree, NoCliFacts, WriterInv

(* Revoking once more: the document no longer names the credential.        *)
LEMMA RevokeAgainKeeps ==
  ASSUME DataInv, NEW c \in Clients, NEW g \in 1..MaxWrites, ClientRevokeAgain(c, g) PROVE DataInv'
<1> USE DEF DataInv, StaticInv
<1> DEFINE x == <<c, g>>
<1>1. /\ x \in root.doc.revoked /\ Spend("writes")
      /\ UNCHANGED <<conf, root, oldConf, oldRoot, snap, archive, away, units, net, binary, cmd,
                     outcome, ids, flaws>>
  BY DEF ClientRevokeAgain, trees, host
<1>2. cli' = [NoCli EXCEPT !.pc = "clean", !.op = "revoke", !.del = {x}, !.tag = root.tag]
  BY DEF ClientRevokeAgain
<1> HIDE DEF x
<1>3. CliFrame
  BY <1>1, SpendFacts DEF CliFrame
<1>4. DocOK(root.doc, ids) /\ root.doc.revoked \in SUBSET Secrets /\ root.tag \in Nat
  BY DEF DocInv, DataType, Roots, Docs
<1>5. cli' = [pc |-> "clean", op |-> "revoke", who |-> {}, base |-> NoDoc, cand |-> NoDoc,
              put |-> {}, del |-> {x}, tag |-> root.tag]
  BY <1>2 DEF NoCli
<1>6. x \in Secrets
  BY <1>1, <1>4
<1>7. cli' \in Clis
  BY <1>4, <1>5, <1>6, Nothing DEF Clis
<1>8. /\ cli'.pc = "clean" /\ cli'.base = NoDoc /\ cli'.cand = NoDoc /\ cli'.put = {}
       /\ cli'.del = {x} /\ cli'.tag = root.tag
  BY <1>5
<1>9. Written
  BY <1>1, <1>3 DEF Written, CliFrame
<1>10. DataType'
  BY <1>1, <1>3, <1>7 DEF DataType, CliFrame
<1>11. DocInv'
  <2>1. DocOK(NoDoc, ids)
    BY IdleFacts DEF DocOK
  <2> QED
    BY <1>1, <1>8, <2>1 DEF DocInv
<1>12. x \notin root.doc.has /\ x[1] \notin ids
  BY <1>1, <1>4 DEF DocOK
<1>13. CliShape'
  BY <1>1, <1>8, <1>12 DEF CliShape
<1>14. TreeInv'
  <2>1. CliAgrees(root)'
    BY <1>1, <1>8, <1>12 DEF CliAgrees
  <2>2. oldRoot.tag # root.tag \/ oldRoot = NoRoot => CliAgrees(oldRoot)'
    BY <1>1, <1>8, IdleFacts DEF CliAgrees
  <2>3. root # NoRoot
    BY <1>1, IdleFacts
  <2> QED
    BY <1>1, <2>1, <2>2, <2>3 DEF TreeInv, Clean, PurgesData, Whole
<1> QED
  BY <1>8, <1>9, <1>10, <1>11, <1>13, <1>14, WriterInv

(* A write that is not astray is one to the tree the command has read.     *)
LEMMA NotAstray ==
  ASSUME flaws' = flaws \cup Strays, "stray" \notin flaws'
  PROVE  cli.tag = root.tag /\ ~Removing /\ flaws' = flaws
BY DEF Strays

(* The credential is stored before a document names it.                    *)
LEMMA PutKeeps ==
  ASSUME DataInv, CliPut PROVE DataInv'
<1> USE DEF DataInv, StaticInv
<1>1. /\ cli.pc = "put" /\ CliFrame
      /\ \/ UNCHANGED <<root, flaws>> /\ cli' = NoCli
         \/ /\ root # NoRoot /\ root' = [root EXCEPT !.secrets = @ \cup cli.put]
            /\ cli' = [cli EXCEPT !.pc = "save"] /\ flaws' = flaws \cup Strays
  BY DEF CliPut, CliFrame, host, DataType
<1>2. SUFFICES ASSUME root # NoRoot, root' = [root EXCEPT !.secrets = @ \cup cli.put],
                      cli' = [cli EXCEPT !.pc = "save"], flaws' = flaws \cup Strays
               PROVE  DataInv'
  BY <1>1, QuitKeeps
<1>3. /\ cli'.pc = "save" /\ cli'.base = cli.base /\ cli'.cand = cli.cand /\ cli'.put = cli.put
      /\ cli'.del = cli.del /\ cli'.tag = cli.tag /\ cli' \in Clis
  BY <1>2 DEF DataType, Clis
<1>4. /\ root'.tag = root.tag /\ root'.doc = root.doc /\ root'.boxes = root.boxes
      /\ root'.base = root.base /\ root'.secrets = root.secrets \cup cli.put /\ root' \in Roots
  <2>1. root.secrets \cup cli.put \in SUBSET Secrets
    BY DEF DataType, Clis, Roots
  <2> QED
    BY <1>2, <2>1, NewSecrets
<1>5. flaws' \in {flaws, flaws \cup {"stray"}}
  BY <1>2 DEF Strays
<1>6. Written
  BY <1>1, <1>2, <1>4, <1>5, NotAstray DEF Written, CliFrame
<1>7. DataType'
  BY <1>1, <1>3, <1>4, <1>5 DEF DataType, CliFrame
<1>8. DocInv' /\ CliShape'
  BY <1>1, <1>3, <1>4 DEF DocInv, CliShape, CliFrame
<1>9. TreeInv'
  <2>1. ASSUME "stray" \notin flaws', CliAgrees(root) PROVE CliAgrees(root)'
    BY <1>1, <1>3, <1>4, <2>1 DEF CliAgrees
  <2>2. ASSUME "stray" \notin flaws', oldRoot = NoRoot \/ oldRoot.tag # root.tag
        PROVE  CliAgrees(oldRoot)'
    BY <1>1, <1>2, <1>3, <2>2, NotAstray, IdleFacts DEF CliAgrees, CliFrame
  <2>3. Whole(root) => Whole(root)'
    BY <1>4 DEF Whole
  <2>4. Clean' => Clean /\ "stray" \notin flaws'
    BY <1>1, <1>5 DEF Clean, CliFrame
  <2>5. flaws' = {} => flaws = {} /\ "stray" \notin flaws'
    BY <1>5
  <2> QED
    BY <1>1, <1>2, <1>4, <2>1, <2>2, <2>3, <2>4, <2>5 DEF TreeInv, PurgesData, CliFrame, Whole
<1> QED
  BY <1>3, <1>6, <1>7, <1>8, <1>9, WriterInv

(* The save writes the document that was read, one generation later.       *)
LEMMA SaveKeeps ==
  ASSUME DataInv, CliSave PROVE DataInv'
<1> USE DEF DataInv, StaticInv
<1>1. /\ cli.pc = "save" /\ CliFrame /\ root.doc # NoDoc /\ root.doc.gen = cli.base.gen
      /\ root' = [root EXCEPT !.doc = cli.cand]
      /\ cli' = [cli EXCEPT !.pc = "clean"] /\ flaws' = flaws \cup Strays
  BY DEF CliSave, CliFrame, host, DataType, Initialized
<1>2. root # NoRoot
  BY <1>1, IdleFacts
<1>3. /\ cli'.pc = "clean" /\ cli'.base = cli.base /\ cli'.cand = cli.cand /\ cli'.put = cli.put
      /\ cli'.del = cli.del /\ cli'.tag = cli.tag /\ cli' \in Clis
  BY <1>1 DEF DataType, Clis
<1>4. /\ root'.tag = root.tag /\ root'.doc = cli.cand /\ root'.boxes = root.boxes
      /\ root'.base = root.base /\ root'.secrets = root.secrets /\ root' \in Roots
  <2>1. cli.cand \in Docs
    BY DEF DataType, Clis
  <2> QED
    BY <1>1, <2>1, NewDoc
<1>5. flaws' \in {flaws, flaws \cup {"stray"}}
  BY <1>1 DEF Strays
<1>6. Written
  <2>1. root'.doc.gen = root.doc.gen + 1
    BY <1>1, <1>4 DEF CliShape
  <2> QED
    BY <1>1, <1>2, <1>4, <1>5, <2>1, NotAstray DEF Written, CliFrame
<1>7. DataType'
  BY <1>1, <1>3, <1>4, <1>5 DEF DataType, CliFrame
<1>8. DocInv' /\ CliShape'
  BY <1>1, <1>3, <1>4 DEF DocInv, CliShape, CliFrame
<1>9. TreeInv'
  <2>1. ASSUME "stray" \notin flaws', CliAgrees(root), Whole(root)
        PROVE  CliAgrees(root)' /\ Whole(root)'
    <3>1. root.doc = cli.base /\ cli.put \subseteq root.secrets
      BY <1>1, <2>1, NotAstray DEF CliAgrees
    <3> QED
      BY <1>1, <1>3, <1>4, <2>1, <3>1 DEF CliAgrees, CliShape, Whole
  <2>2. ASSUME "stray" \notin flaws', oldRoot = NoRoot \/ oldRoot.tag # root.tag
        PROVE  CliAgrees(oldRoot)'
    BY <1>1, <1>3, <2>2, NotAstray, IdleFacts DEF CliAgrees, CliFrame
  <2>4. Clean' => Clean /\ "stray" \notin flaws'
    BY <1>1, <1>5 DEF Clean, CliFrame
  <2>5. flaws' = {} => flaws = {} /\ "stray" \notin flaws'
    BY <1>5
  <2> QED
    BY <1>1, <1>2, <1>4, <2>1, <2>2, <2>4, <2>5 DEF TreeInv, PurgesData, CliFrame, Whole
<1> QED
  BY <1>3, <1>6, <1>7, <1>8, <1>9, WriterInv

(* A refused save deletes only what no document names.                     *)
LEMMA UnsavedKeeps ==
  ASSUME DataInv, CliUnsaved PROVE DataInv'
<1> USE DEF DataInv, StaticInv
<1>1. /\ cli.pc = "save" /\ UNCHANGED <<root, flaws>>
      /\ \/ cli' = NoCli
         \/ cli' = [cli EXCEPT !.pc = "clean", !.del = cli.put]
  BY DEF CliUnsaved, trees
<1>2. CliFrame
  <2>1. UNCHANGED spent \/ Spend("mishaps")
    BY DEF CliUnsaved
  <2>2. spent' \in [commands : Nat, writes : Nat, mishaps : Nat] /\ spent'.commands = spent.commands
    BY <2>1, SpendFacts DEF DataType
  <2> QED
    BY <2>2 DEF CliUnsaved, CliFrame, trees, host
<1>3. SUFFICES ASSUME cli' = [cli EXCEPT !.pc = "clean", !.del = cli.put] PROVE DataInv'
  BY <1>1, <1>2, QuitKeeps
<1>4. /\ cli'.pc = "clean" /\ cli'.base = cli.base /\ cli'.cand = cli.cand /\ cli'.put = cli.put
      /\ cli'.del = cli.put /\ cli'.tag = cli.tag /\ cli' \in Clis
  BY <1>3 DEF DataType, Clis
<1>5. Written /\ DataType' /\ DocInv' /\ CliShape'
  BY <1>1, <1>2, <1>4 DEF Written, DataType, DocInv, CliShape, CliFrame
<1>6. TreeInv'
  <2>1. CliAgrees(root) => CliAgrees(root)'
    BY <1>1, <1>4 DEF CliAgrees
  <2>2. CliAgrees(oldRoot) => CliAgrees(oldRoot)'
    BY <1>1, <1>2, <1>4 DEF CliAgrees, CliFrame
  <2> QED
    BY <1>1, <1>2, <2>1, <2>2 DEF TreeInv, Clean, PurgesData, Whole, CliFrame
<1> QED
  BY <1>4, <1>5, <1>6, WriterInv

(* The credentials to be deleted are not named by the tree they were read  *)
(* in.                                                                     *)
LEMMA CleanKeeps ==
  ASSUME DataInv, CliClean PROVE DataInv'
<1> USE DEF DataInv, StaticInv
<1>1. /\ cli.pc = "clean" /\ CliFrame /\ root' = [root EXCEPT !.secrets = @ \ cli.del]
      /\ cli' = NoCli
      /\ flaws' = flaws \cup (IF cli.del \cap root.secrets = {} THEN {} ELSE Strays)
  BY DEF CliClean, CliFrame, host, DataType
<1>2. /\ root'.tag = root.tag /\ root'.doc = root.doc /\ root'.boxes = root.boxes
      /\ root'.base = root.base /\ root'.secrets = root.secrets \ cli.del /\ root' \in Roots
  <2>1. root.secrets \ cli.del \in SUBSET Secrets
    BY DEF DataType, Clis, Roots
  <2> QED
    BY <1>1, <2>1, NewSecrets
<1>3. flaws' \in {flaws, flaws \cup {"stray"}}
  BY <1>1 DEF Strays
<1>4. root = NoRoot => root' = NoRoot
  BY <1>1, IdleFacts DEF NoRoot
<1>5. Written
  BY <1>1, <1>2, <1>3, <1>4 DEF Written, CliFrame
<1>6. DataType'
  BY <1>1, <1>2, <1>3, Nothing DEF DataType, CliFrame
<1>7. DocInv'
  <2>1. DocOK(NoDoc, ids)
    BY IdleFacts DEF DocOK
  <2> QED
    BY <1>1, <1>2, <2>1, NoCliFacts DEF DocInv, CliFrame
<1>8. TreeInv'
  <2>1. ASSUME "stray" \notin flaws', CliAgrees(root), Whole(root) PROVE Whole(root)'
    <3>1. CASE cli.del \cap root.secrets = {}
      BY <1>2, <2>1, <3>1 DEF Whole
    <3>2. CASE cli.del \cap root.secrets # {}
      <4>1. cli.tag = root.tag
        BY <1>1, <2>1, <3>2, NotAstray
      <4>2. root.doc # NoDoc => cli.del \cap root.doc.has = {}
        BY <1>1, <2>1, <4>1 DEF CliAgrees
      <4> QED
        BY <1>2, <2>1, <4>2, IdleFacts DEF Whole
    <3> QED
      BY <3>1, <3>2
  <2>2. Clean' => Clean /\ "stray" \notin flaws'
    BY <1>1, <1>3 DEF Clean, CliFrame
  <2>3. flaws' = {} => flaws = {}
    BY <1>3
  <2> QED
    BY <1>1, <1>2, <1>4, <2>1, <2>2, <2>3, NothingToAgree DEF TreeInv, PurgesData, CliFrame, Whole
<1> QED
  BY <1>1, <1>5, <1>6, <1>7, <1>8, NothingToAgree, NoCliFacts, WriterInv

(* A client command is killed.                                             *)
LEMMA CliKillKeeps ==
  ASSUME DataInv, CliKill PROVE DataInv'
<1>1. CliFrame /\ UNCHANGED <<root, flaws>> /\ cli' = NoCli
  BY SpendFacts DEF CliKill, CliFrame, trees, host, DataInv
<1> QED
  BY <1>1, QuitKeeps

----------------------------------------------------------------------------
(* Steps of a command: frames                                              *)

(* The client command and the identities stay as they are.                 *)
Alongside ==
  /\ UNCHANGED <<cli, ids>>
  /\ spent' \in [commands : Nat, writes : Nat, mishaps : Nat] /\ spent'.commands = spent.commands

(* Without a restore there is nothing to be said about one.                *)
LEMMA OffRestore ==
  ASSUME cmd'.pc \notin Restoring, cmd'.kind # "restore"
  PROVE  MoveInv' /\ ActiveInv' /\ KeptInv'
<1>1. cmd'.pc \notin Preparing \cup Swapping \cup Activated
  BY DEF Restoring
<1>2. MoveInv'
  BY <1>1 DEF MoveInv, Preparing, Swapping, Activated
<1>3. ActiveInv'
  BY <1>1 DEF ActiveInv, Activated
<1> QED
  BY <1>2, <1>3 DEF KeptInv

(* Without a removal there is nothing to be said about one.                *)
LEMMA OffRemoval ==
  ASSUME cmd'.pc \notin Reviewing \cup Deleting
  PROVE  RemovalInv'
BY DEF RemovalInv, Reviewing, Deleting

(* Without a command there is nothing to be said about one.                *)
LEMMA IdleOff ==
  ASSUME cmd' = Idle
  PROVE  /\ CmdShape' /\ CopyInv' /\ MoveInv' /\ ActiveInv' /\ KeptInv' /\ RemovalInv'
         /\ ~PurgesData'
         /\ cmd'.pc \notin Restoring /\ cmd'.pc \notin Copying /\ cmd'.kind = "none"
         /\ cmd'.pc \notin Reviewing \cup Deleting
<1> USE DEF Restoring, Preparing, Swapping, Activated, RollingBack, Copying, Reviewing, Deleting
<1>1. cmd'.pc = "idle" /\ cmd'.kind = "none"
  BY IdleFacts
<1>2. CmdShape' /\ CopyInv' /\ ~PurgesData'
  BY <1>1 DEF CmdShape, CopyInv, PurgesData
<1> QED
  BY <1>1, <1>2, OffRestore, OffRemoval

(* A step that touches neither tree nor client command.                    *)
LEMMA TreesKept ==
  ASSUME TreeInv, UNCHANGED <<cli, root, oldRoot, flaws>>,
         cmd'.pc \in Activated => cmd.pc \in Activated, PurgesData => PurgesData'
  PROVE  TreeInv'
BY DEF TreeInv, Clean, CliAgrees, Whole

(* Where nothing is half done, the two trees belong together.              *)
HalfSteps == Swapping \cup {"rbStop", "rbNet", "rbConf", "rbRoot", "backups", "secrets", "doc"}

(* The configuration belongs to the state unless a command is half done.   *)
LEMMA AgreeNow ==
  ASSUME DataInv, flaws = {}, cmd.pc \notin HalfSteps, Initialized
  PROVE  conf.tag = root.tag
<1> USE DEF DataInv, StaticInv
<1>1. CASE cmd.kind # "restore"
  BY <1>1 DEF UnitsInv, PurgesData, HalfSteps
<1>2. CASE cmd.kind = "restore" /\ cmd.pc \in Activated
  BY <1>2 DEF MoveInv, NewConf
<1>3. CASE cmd.kind = "restore" /\ cmd.pc \in Preparing
  <2>1. root # NoRoot
    BY IdleFacts DEF Initialized
  <2> QED
    BY <1>3, <2>1 DEF MoveInv, KeptInv, Rooted
<1>4. CASE cmd.kind = "restore" /\ cmd.pc = "rbUnits"
  <2>1. root # NoRoot
    BY IdleFacts DEF Initialized
  <2> QED
    BY <1>4, <2>1 DEF MoveInv, KeptInv, Rooted
<1>5. cmd.kind = "restore" => cmd.pc \in Activated \cup Preparing \cup {"rbUnits"}
  BY DEF CmdShape, Restoring, RollingBack, HalfSteps
<1> QED
  BY <1>1, <1>2, <1>3, <1>4, <1>5

(* A command ends.  Of the trees it has kept all, unless a flaw excuses it.*)
LEMMA EndsKeep ==
  ASSUME DataInv, cmd' = Idle, outcome' \in Outcomes,
         conf' \in Confs, conf'.tag = conf.tag, snap' \in {snap, NoSnapshot},
         root' \in Roots, root'.tag = root.tag, root'.boxes \subseteq root.boxes,
         root'.doc \in {root.doc, NoDoc}, flaws' = {} => root' = root,
         UNCHANGED <<oldConf, oldRoot, archive, away, ids>>,
         cli' = cli \/ cli' = NoCli,
         spent' \in [commands : Nat, writes : Nat, mishaps : Nat], spent'.commands = spent.commands,
         units' \in [files : BOOLEAN, on : BOOLEAN, up : BOOLEAN], net' \in Nat, binary' \in BOOLEAN,
         units'.up => units'.files /\ (units.up \/ Initialized),
         flaws' \in {flaws, flaws \cup {"half"}}, flaws' = {} => cmd.pc \notin HalfSteps
  PROVE  DataInv'
<1> USE DEF DataInv, StaticInv
<1>1. /\ snap' \in [conf : Confs, root : Roots] /\ snap'.root.doc \in {snap.root.doc, NoDoc}
      /\ snap'.root.boxes \subseteq snap.root.boxes /\ snap'.root.tag \in {snap.root.tag, 0}
  BY Nothing, IdleFacts DEF DataType, NoSnapshot
<1>2. DataType'
  BY <1>1, Nothing DEF DataType
<1>3. DocOK(NoDoc, ids)
  BY IdleFacts DEF DocOK
<1>4. DocInv'
  BY <1>1, <1>3, IdleFacts, NoCliFacts DEF DocInv
<1>5. /\ CmdShape' /\ CopyInv' /\ MoveInv' /\ ActiveInv' /\ KeptInv' /\ RemovalInv'
      /\ ~PurgesData'
      /\ cmd'.pc \notin Restoring /\ cmd'.pc \notin Copying /\ cmd'.kind = "none"
      /\ cmd'.pc \notin Reviewing \cup Deleting
  BY IdleOff
<1>6. ArchiveInv'
  <2>1. Boxed' \subseteq Boxed
    BY <1>1 DEF Boxed
  <2> QED
    BY <1>5, <2>1, IdleFacts DEF ArchiveInv, ArchiveComplete
<1>7. TagInv'
  BY <1>1, <1>5, NoCliFacts DEF TagInv, Top, DataType, Restoring
<1>8. CliShape'
  BY NothingToAgree DEF CliShape
<1>9. flaws' = {} => flaws = {} /\ cmd.pc \notin HalfSteps
  OBVIOUS
<1>10. TreeInv'
  <2>1. Clean' => flaws' = {}
    BY <1>5 DEF Clean, Restoring
  <2>2. flaws' = {} /\ CliAgrees(root) => CliAgrees(root)'
    BY NothingToAgree DEF CliAgrees
  <2>3. CliAgrees(oldRoot) => CliAgrees(oldRoot)'
    BY NothingToAgree DEF CliAgrees
  <2>4. cmd.pc \notin HalfSteps => ~PurgesData
    BY DEF HalfSteps, PurgesData
  <2>5. flaws = {} => Clean
    BY DEF Clean
  <2> QED
    BY <1>9, <2>1, <2>2, <2>3, <2>4, <2>5 DEF TreeInv, Whole
<1>11. UnitsInv'
  <2>1. ASSUME flaws' = {}, Initialized PROVE conf.tag = root.tag
    BY <2>1, <1>9, AgreeNow
  <2>2. flaws' = {} /\ units.up => Initialized
    BY <1>9 DEF UnitsInv
  <2>3. flaws' = {} => (Initialized' <=> Initialized)
    BY DEF Initialized
  <2>4. cmd'.pc \notin Deleting \cup {"recheck"}
    BY <1>5 DEF Reviewing
  <2>5. cmd'.pc \notin {"confOut", "start"} \cup Swapping \cup (RollingBack \ {"rbStop"})
    BY <1>5 DEF Restoring, Preparing, Activated
  <2> QED
    BY <2>1, <2>2, <2>3, <2>4, <2>5 DEF UnitsInv
<1> QED
  BY <1>2, <1>4, <1>5, <1>6, <1>7, <1>8, <1>10, <1>11

(* A command ends without having touched the trees in this step.           *)
LEMMA EndKeeps ==
  ASSUME DataInv, cmd' = Idle, outcome' \in Outcomes,
         UNCHANGED <<conf, oldConf, root, oldRoot, snap, archive, away, ids>>,
         cli' = cli \/ cli' = NoCli,
         spent' \in [commands : Nat, writes : Nat, mishaps : Nat], spent'.commands = spent.commands,
         units' \in [files : BOOLEAN, on : BOOLEAN, up : BOOLEAN], net' \in Nat, binary' \in BOOLEAN,
         units'.up => units'.files /\ (units.up \/ Initialized),
         flaws' \in {flaws, flaws \cup {"half"}}, flaws' = {} => cmd.pc \notin HalfSteps
  PROVE  DataInv'
<1>1. conf \in Confs /\ root \in Roots
  BY DEF DataInv, DataType
<1> QED
  BY <1>1, EndsKeep

----------------------------------------------------------------------------
(* Plans                                                                   *)

(* A command begins and has touched nothing.                               *)
LEMMA PlanKeeps ==
  ASSUME DataInv, NEW c \in Cmds, Begin(c),
         UNCHANGED <<conf, root, oldConf, oldRoot, snap, archive, away, units, net, binary, cli,
                     ids, flaws>>,
         c.pc \in {"read", "check", "review"}, c.load.doc = NoDoc \/ c.kind \in {"backup", "restore"},
         DocOK(c.load.doc, ids), c.kind \in {"backup", "restore"} => c.load.doc # NoDoc,
         c.kind = "restore" => c.tag = spent.commands + 2 /\ c.load.doc.has \subseteq c.load.secrets,
         CmdShape', MoveInv', KeptInv'
  PROVE  DataInv'
<1> USE DEF DataInv, StaticInv
<1>1. cmd = Idle /\ cmd' = c /\ outcome' = "none" /\ Spend("commands")
  BY DEF Begin
<1>2. spent' \in [commands : Nat, writes : Nat, mishaps : Nat] /\ spent'.commands = spent.commands + 1
  BY <1>1, SpendFacts
<1>3. DataType'
  <2>1. cmd' \in Cmds /\ outcome' \in Outcomes
    BY <1>1 DEF Outcomes
  <2> QED
    BY <1>2, <2>1 DEF DataType
<1>4. DocInv'
  BY <1>1 DEF DocInv
<1>5. ArchiveInv'
  <2>1. c.pc \in (Copying \ {"read"}) \cup Restoring => c.kind = "restore"
    BY <1>1 DEF CmdShape, Copying
  <2> QED
    BY <1>1, <2>1 DEF ArchiveInv, Boxed, ArchiveComplete
<1>6. TagInv'
  <2>1. Top \in Nat /\ Top' = Top + 1 /\ spent.commands + 2 = Top'
    BY <1>2 DEF Top, DataType
  <2>2. /\ conf.tag \in Nat /\ root.tag \in Nat /\ oldConf.tag \in Nat /\ oldRoot.tag \in Nat
        /\ snap.root.tag \in Nat /\ cli.tag \in Nat
    BY DEF DataType, Confs, Roots, Clis
  <2> QED
    BY <1>1, <2>1, <2>2 DEF TagInv
<1>7. CliShape'
  BY DEF CliShape
<1>8. TreeInv'
  <2>1. cmd'.pc \notin Activated /\ ~PurgesData
    BY <1>1, IdleFacts DEF Activated, PurgesData
  <2> QED
    BY <1>1, <2>1, TreesKept
<1>9. ActiveInv' /\ CopyInv'
  BY <1>1 DEF ActiveInv, CopyInv
<1>10. UnitsInv'
  <2>1. cmd.kind # "restore" /\ ~PurgesData
    BY <1>1, IdleFacts DEF PurgesData
  <2> QED
    BY <1>1, <2>1 DEF UnitsInv, Initialized, Deleting, Swapping, RollingBack
<1>11. RemovalInv'
  BY <1>1 DEF RemovalInv, Deleting
<1> QED
  BY <1>3, <1>4, <1>5, <1>6, <1>7, <1>8, <1>9, <1>10, <1>11

(* What a plan remembers of the host.                                      *)
LEMMA ViewFacts ==
  ASSUME DataType
  PROVE  /\ View \in Views /\ HostView \in Views /\ HostView.doc = root.doc /\ HostView.conf = conf
         /\ \A k \in {"uninstall", "purge"} :
              RemovalView(k) \in Views /\ RemovalView(k).doc = root.doc
<1>1. Cardinality(root.boxes) \in Nat
  BY BoxesFacts DEF DataType, Roots
<1>2. View \in Views /\ View.doc = root.doc /\ View.conf = conf
  BY <1>1 DEF View, Views, DataType, Roots
<1>3. HostView \in Views /\ HostView.doc = root.doc /\ HostView.conf = conf
  BY <1>2 DEF HostView, Views
<1>4. ASSUME NEW k \in {"uninstall", "purge"}
      PROVE  RemovalView(k) \in Views /\ RemovalView(k).doc = root.doc
  <2>1. [conf EXCEPT !.tag = 0] \in Confs
    BY DEF DataType, Confs
  <2> QED
    BY <1>2, <2>1 DEF RemovalView, Views
<1> QED
  BY <1>2, <1>3, <1>4

(* backup begins with the document it has read.                            *)
LEMMA BackupPlanKeeps ==
  ASSUME DataInv, NEW a \in Archives, NEW outside \in BOOLEAN, BackupPlan(a, outside)
  PROVE  DataInv'
<1> USE DEF DataInv, StaticInv
<1> DEFINE c == [Idle EXCEPT !.pc = "read", !.kind = "backup", !.id = {a}, !.opt = outside,
                             !.load.doc = root.doc]
<1>1. Begin(c) /\ root.doc # NoDoc
  BY DEF BackupPlan, Initialized
<1>2. UNCHANGED <<conf, root, oldConf, oldRoot, snap, archive, away, units, net, binary, cli,
                  ids, flaws>>
  BY DEF BackupPlan, trees, host, others
<1>3. c.pc = "read" /\ c.kind = "backup" /\ c.load.doc = root.doc
  BY DEF Idle, NoArchive
<1>4. c \in Cmds
  <2>1. {a} \in Boxes /\ root.doc \in Docs /\ "read" \in Steps /\ "backup" \in Kinds
    BY BoxesFacts DEF DataType, Roots, Steps, Copying, Kinds
  <2>2. Idle.load \in Contents /\ Idle \in Cmds
    BY Nothing DEF Cmds
  <2>3. [Idle.load EXCEPT !.doc = root.doc] \in Contents
    BY <2>1, <2>2 DEF Contents
  <2> QED
    BY <2>1, <2>2, <2>3 DEF Cmds, Steps
<1> HIDE DEF c
<1>5. cmd' = c
  BY <1>1 DEF Begin
<1>6. CmdShape' /\ MoveInv' /\ KeptInv'
  <2>1. cmd'.pc \notin Restoring
    BY <1>3, <1>5 DEF Restoring, Preparing, Swapping, Activated, RollingBack
  <2>2. MoveInv' /\ KeptInv'
    BY <1>3, <1>5, <2>1, OffRestore
  <2>3. CmdShape'
    BY <1>3, <1>5, <2>1 DEF CmdShape, Copying, Reviewing, Deleting
  <2> QED
    BY <2>2, <2>3
<1>7. DocOK(root.doc, ids)
  BY DEF DocInv
<1> QED
  BY <1>1, <1>2, <1>3, <1>4, <1>6, <1>7, PlanKeeps

(* restore begins with a complete archive and a tag of its own.            *)
LEMMA RestorePlanKeeps ==
  ASSUME DataInv, NEW a \in Archives, NEW bump \in 0..1, RestorePlan(a, bump)
  PROVE  DataInv'
<1> USE DEF DataInv, StaticInv
<1> DEFINE c == [Idle EXCEPT !.pc = "check", !.kind = "restore", !.view = HostView,
                             !.load = Adapted(a, bump), !.tag = spent.commands + 2]
<1>1. /\ Begin(c) /\ a \in root.boxes \cup away /\ ArchiveComplete(a)
      /\ IF Initialized THEN conf # NoConf ELSE conf = NoConf /\ root = NoRoot
  BY DEF RestorePlan
<1>2. UNCHANGED <<conf, root, oldConf, oldRoot, snap, archive, away, units, net, binary, cli,
                  ids, flaws>>
  BY DEF RestorePlan, trees, host, others
<1>3. archive[a] \in Contents /\ archive[a].doc \in Docs /\ archive[a].doc # NoDoc
      /\ DocOK(archive[a].doc, ids)
  BY <1>1 DEF DataType, Contents, ArchiveInv, Boxed, DocInv
<1> DEFINE l == Adapted(a, bump)
<1>4. /\ l \in Contents /\ l.secrets = archive[a].secrets /\ l.doc \in Docs
      /\ l.doc.gen = archive[a].doc.gen + bump /\ l.doc.has = archive[a].doc.has
      /\ l.doc.revoked = archive[a].doc.revoked
  <2>1. l = [doc |-> [gen |-> archive[a].doc.gen + bump, has |-> archive[a].doc.has,
                      revoked |-> archive[a].doc.revoked, backups |-> archive[a].doc.backups],
             secrets |-> archive[a].secrets]
    BY <1>3 DEF Adapted, Contents, Docs
  <2>2. archive[a].doc.gen + bump \in Nat
    BY <1>3 DEF Docs
  <2> HIDE DEF l
  <2> QED
    BY <1>3, <2>1, <2>2 DEF Contents, Docs
<1>5. DocOK(l.doc, ids) /\ l.doc # NoDoc /\ l.doc.has \subseteq l.secrets
  <2>1. archive[a].doc.gen \in Nat /\ archive[a].doc.gen >= 1
    BY <1>3 DEF DocOK, Docs
  <2>2. l.doc.gen >= 1
    BY <1>4, <2>1
  <2> QED
    BY <1>1, <1>3, <1>4, <2>2, IdleFacts DEF DocOK, ArchiveComplete
<1> HIDE DEF l
<1>6. /\ c.pc = "check" /\ c.kind = "restore" /\ c.load = l /\ c.tag = spent.commands + 2
      /\ c.view = HostView /\ c.done = {} /\ c.prior = NoRoot /\ c.clean = TRUE
  BY DEF Idle, l
<1>7. c \in Cmds
  <2>1. "check" \in Steps /\ "restore" \in Kinds /\ HostView \in Views
        /\ spent.commands + 2 \in Nat /\ Idle \in Cmds
    BY ViewFacts, Nothing DEF Steps, Restoring, Preparing, Kinds, DataType
  <2>2. Adapted(a, bump) \in Contents
    BY <1>4 DEF l
  <2> QED
    BY <2>1, <2>2 DEF Cmds, Steps
<1> HIDE DEF c
<1>8. cmd' = c /\ cmd = Idle
  BY <1>1 DEF Begin
<1>9. CmdShape'
  BY <1>6, <1>8 DEF CmdShape, Copying, Reviewing, Deleting, Restoring, Preparing
<1>10. MoveInv'
  BY <1>6, <1>8 DEF MoveInv, Activated
<1>11. KeptInv'
  <2>1. HostView.doc = root.doc /\ HostView.conf = conf
    BY ViewFacts
  <2>2. Replacing' <=> Initialized
    BY <1>6, <1>8, <2>1 DEF Replacing, Initialized
  <2>3. ASSUME flaws = {}, Initialized PROVE Rooted'
    <3>1. cmd.pc \notin HalfSteps
      BY <1>8, IdleFacts DEF HalfSteps, Swapping
    <3>2. conf.tag = root.tag
      BY <2>3, <3>1, AgreeNow
    <3> QED
      BY <1>2, <1>6, <1>8, <2>1, <2>3, <3>2 DEF Rooted, Initialized
  <2> QED
    BY <1>1, <1>2, <1>6, <1>8, <2>1, <2>2, <2>3 DEF KeptInv
<1> QED
  BY <1>1, <1>2, <1>5, <1>6, <1>7, <1>9, <1>10, <1>11, PlanKeeps

(* uninstall and purge begin with the state under review.                  *)
LEMMA RemovalPlanKeeps ==
  ASSUME DataInv, NEW kind \in {"uninstall", "purge"}, NEW force \in BOOLEAN, NEW all \in BOOLEAN,
         RemovalPlan(kind, force, all)
  PROVE  DataInv'
<1> USE DEF DataInv, StaticInv
<1> DEFINE c == [Idle EXCEPT !.pc = "review", !.kind = kind, !.opt = all,
                             !.view = RemovalView(kind)]
<1>1. Begin(c)
  BY DEF RemovalPlan
<1>2. UNCHANGED <<conf, root, oldConf, oldRoot, snap, archive, away, units, net, binary, cli,
                  ids, flaws>>
  BY DEF RemovalPlan, trees, host, others
<1>3. c.pc = "review" /\ c.kind = kind /\ c.load.doc = NoDoc
  BY DEF Idle, NoArchive
<1>4. c \in Cmds
  <2>1. "review" \in Steps /\ kind \in Kinds /\ RemovalView(kind) \in Views /\ Idle \in Cmds
    BY ViewFacts, Nothing DEF Steps, Reviewing, Kinds
  <2> QED
    BY <2>1 DEF Cmds, Steps
<1> HIDE DEF c
<1>5. cmd' = c
  BY <1>1 DEF Begin
<1>6. CmdShape' /\ MoveInv' /\ KeptInv'
  <2>1. cmd'.pc \notin Restoring
    BY <1>3, <1>5 DEF Restoring, Preparing, Swapping, Activated, RollingBack
  <2>2. MoveInv' /\ KeptInv'
    BY <1>3, <1>5, <2>1, OffRestore
  <2>3. CmdShape'
    BY <1>3, <1>5, <2>1 DEF CmdShape, Copying, Reviewing, Deleting
  <2> QED
    BY <2>2, <2>3
<1>7. DocOK(NoDoc, ids)
  BY IdleFacts DEF DocOK
<1> QED
  BY <1>1, <1>2, <1>3, <1>4, <1>6, <1>7, PlanKeeps

----------------------------------------------------------------------------
(* backup                                                                  *)

(* Every step of a backup: the command goes on or ends, and the live tree  *)
(* gets at most a new generation of the same contents.                     *)
LEMMA CopyKeeps ==
  ASSUME DataInv, cmd.kind = "backup", Alongside, DataType',
         UNCHANGED <<conf, oldConf, oldRoot, snap, units, net, binary, flaws>>,
         \/ cmd' = Idle
         \/ /\ cmd'.pc \in Copying \ {"read"} /\ cmd'.kind = "backup"
            /\ cmd'.load.doc = cmd.load.doc /\ cmd'.load.doc.has \subseteq cmd'.load.secrets,
         cmd'.pc = "record" => root'.doc = cmd.load.doc,
         root'.tag = root.tag, root'.secrets = root.secrets, root = NoRoot => root' = NoRoot,
         \/ root'.doc = root.doc
         \/ /\ root.doc # NoDoc /\ root'.doc.gen = root.doc.gen + 1 /\ root'.doc.has = root.doc.has
            /\ DocOK(root'.doc, ids),
         \A b \in Archives : archive'[b] = archive[b] \/
           (archive'[b] = cmd.load /\ cmd.load.doc.has \subseteq cmd.load.secrets),
         \A b \in away' \cup root'.boxes : b \in Boxed \/ archive'[b] = cmd.load
  PROVE  DataInv'
<1> USE DEF DataInv, StaticInv
<1>1. cmd.pc \in Copying
  BY DEF CmdShape
<1>2. cmd' = Idle \/ (cmd'.pc \in Copying /\ cmd'.kind = "backup")
  OBVIOUS
<1>3. CmdShape'
  <2>1. cmd'.pc \in Copying /\ cmd'.kind = "backup" => CmdShape'
    BY DEF CmdShape, Copying, Restoring, Preparing, Swapping, Activated, RollingBack, Reviewing, Deleting
  <2> QED
    BY <1>2, <2>1, IdleOff
<1>4. cmd'.pc \notin Restoring /\ cmd'.kind # "restore" /\ cmd'.pc \notin Reviewing \cup Deleting
  <2>1. Copying \cap (Restoring \cup Reviewing \cup Deleting) = {}
    BY DEF Copying, Restoring, Preparing, Swapping, Activated, RollingBack, Reviewing, Deleting
  <2> QED
    BY <1>2, <2>1, IdleOff
<1>5. MoveInv' /\ ActiveInv' /\ KeptInv' /\ RemovalInv'
  BY <1>4, OffRestore, OffRemoval
<1>6. CopyInv'
  <2>1. cmd'.pc = "record" => cmd'.load.doc = cmd.load.doc /\ cmd.load.doc.gen \in Nat
    BY IdleFacts DEF DataType, Cmds, Contents, Docs
  <2> QED
    BY <2>1 DEF CopyInv, Later
<1>7. DocInv'
  <2>1. cmd'.load.doc \in {NoDoc, cmd.load.doc} /\ DocOK(NoDoc, ids)
    BY IdleFacts DEF DocOK
  <2> QED
    BY <2>1 DEF DocInv, Alongside
<1>8. ArchiveInv'
  <2>1. cmd.load.doc # NoDoc
    BY DEF ArchiveInv
  <2>2. cmd'.kind \in {"backup", "restore"} => cmd'.load.doc # NoDoc
    BY <2>1, IdleFacts
  <2>3. cmd'.pc \in (Copying \ {"read"}) \cup Restoring => cmd'.load.doc.has \subseteq cmd'.load.secrets
    BY <1>4, IdleOff
  <2>4. \A b \in Archives : archive[b].doc # NoDoc => archive'[b].doc # NoDoc
    BY <2>1
  <2>5. Boxed \subseteq Archives /\ Boxed' \subseteq Archives
    BY DEF Boxed, DataType, Roots, Boxes
  <2>6. \A b \in Boxed' : b \in Boxed \/ archive'[b] = cmd.load
    BY DEF Boxed
  <2>7. \A b \in Boxed' : archive'[b].doc # NoDoc
    BY <2>1, <2>4, <2>5, <2>6 DEF ArchiveInv
  <2>8. \A b \in Archives : ArchiveComplete(b)'
    BY DEF ArchiveInv, ArchiveComplete
  <2> QED
    BY <2>2, <2>3, <2>7, <2>8 DEF ArchiveInv
<1>9. TagInv' /\ CliShape'
  BY <1>4 DEF TagInv, Top, Alongside, CliShape, Restoring
<1>10. TreeInv'
  <2>1. cmd'.pc \notin Activated /\ ~PurgesData
    BY <1>1, <1>4 DEF Restoring, PurgesData, Copying
  <2>2. CliAgrees(root) => CliAgrees(root)'
    <3>1. cli.base.gen \in Nat /\ root.doc.gen \in Nat
      BY DEF DataType, Clis, Roots, Docs
    <3> QED
      BY <3>1 DEF CliAgrees, Alongside
  <2>3. CliAgrees(oldRoot) => CliAgrees(oldRoot)'
    BY DEF CliAgrees, Alongside
  <2>4. Whole(root) => Whole(root)'
    BY DEF Whole
  <2>5. Clean' => Clean
    BY <2>1 DEF Clean
  <2> QED
    BY <2>1, <2>2, <2>3, <2>4, <2>5 DEF TreeInv, Whole
<1>11. UnitsInv'
  <2>1. Initialized' <=> Initialized
    BY IdleFacts DEF Initialized, DataType, Roots, Docs
  <2>2. cmd.kind # "restore" /\ ~PurgesData
    BY <1>1 DEF PurgesData, Copying
  <2> QED
    BY <1>4, <2>1, <2>2 DEF UnitsInv, Restoring, Preparing, Activated, Reviewing
<1> QED
  BY <1>3, <1>5, <1>6, <1>7, <1>8, <1>9, <1>10, <1>11

(* What the end of a command says.                                         *)
LEMMA EndFacts ==
  ASSUME NEW how \in Outcomes, End(how)
  PROVE  cmd' = Idle /\ outcome' = how /\ cmd' \in Cmds /\ outcome' \in Outcomes
BY Nothing DEF End

(* The payload is read: every secret of the document, or the end.          *)
LEMMA BackupReadKeeps == ASSUME DataInv, BackupRead PROVE DataInv'
<1> USE DEF DataInv, StaticInv
<1>1. /\ cmd.pc = "read" /\ UNCHANGED <<conf, root, oldConf, oldRoot, snap, archive, away, units,
                                        net, binary, cli, ids, flaws, spent>>
      /\ \/ End("failed")
         \/ /\ PayloadComplete /\ UNCHANGED outcome
            /\ cmd' = [cmd EXCEPT !.pc = "link", !.load.secrets = cmd.load.doc.has \cap root.secrets]
  BY DEF BackupRead, Reached, trees, host, others
<1>2. cmd.kind = "backup" /\ Alongside
  BY <1>1 DEF CmdShape, Copying, Alongside, DataType
<1>3. CASE End("failed")
  BY <1>1, <1>2, <1>3, EndFacts, EndKeeps, AgreeNow DEF Outcomes, HalfSteps, Swapping, Alongside,
     DataType, UnitsInv
<1>4. CASE ~End("failed")
  <2>1. /\ cmd' = [cmd EXCEPT !.pc = "link", !.load.secrets = cmd.load.doc.has \cap root.secrets]
        /\ cmd.load.doc.has \subseteq root.secrets
    BY <1>1, <1>4 DEF PayloadComplete
  <2>2. cmd.load.doc.has \cap root.secrets \in SUBSET Secrets /\ cmd \in Cmds /\ cmd.load \in Contents
    BY DEF DataType, Roots, Cmds
  <2>3. [cmd.load EXCEPT !.secrets = cmd.load.doc.has \cap root.secrets] \in Contents
    BY <2>2 DEF Contents
  <2>4. /\ cmd'.pc = "link" /\ cmd'.kind = cmd.kind /\ cmd' \in Cmds
        /\ cmd'.load = [cmd.load EXCEPT !.secrets = cmd.load.doc.has \cap root.secrets]
    BY <2>1, <2>2, <2>3 DEF Cmds, Copying
  <2>5. cmd'.load.doc = cmd.load.doc /\ cmd'.load.doc.has \subseteq cmd'.load.secrets
    BY <2>1, <2>2, <2>4 DEF Contents
  <2>6. DataType'
    BY <1>1, <1>4, <2>4 DEF DataType
  <2>7. Boxed' = Boxed /\ \A b \in away' \cup root'.boxes : b \in Boxed
    BY <1>1 DEF Boxed
  <2> QED
    BY <1>1, <1>2, <2>4, <2>5, <2>6, <2>7, CopyKeeps DEF Copying
<1> QED
  BY <1>3, <1>4

(* The archive is linked into place: it is complete.                       *)
LEMMA BackupLinkKeeps == ASSUME DataInv, BackupLink PROVE DataInv'
<1> USE DEF DataInv, StaticInv
<1>1. /\ cmd.pc = "link" /\ UNCHANGED <<conf, oldConf, oldRoot, snap, units, net, binary, cli, ids,
                                        flaws, spent>>
      /\ \/ End("conflict") /\ UNCHANGED <<archive, away, root>>
         \/ /\ root.doc = cmd.load.doc /\ Step("record")
            /\ archive' = [a \in Archives |-> IF a \in cmd.id THEN cmd.load ELSE archive[a]]
            /\ \/ away' = away \cup cmd.id /\ UNCHANGED root
               \/ root' = [root EXCEPT !.boxes = @ \cup cmd.id] /\ UNCHANGED away
  BY DEF BackupLink, Reached, host, others
<1>2. cmd.kind = "backup" /\ Alongside
  BY <1>1 DEF CmdShape, Copying, Alongside, DataType
<1>3. CASE End("conflict") /\ UNCHANGED <<archive, away, root>>
  BY <1>1, <1>2, <1>3, EndFacts, EndKeeps DEF Outcomes, HalfSteps, Swapping, Alongside, DataType, UnitsInv
<1>4. CASE ~(End("conflict") /\ UNCHANGED <<archive, away, root>>)
  <2>1. /\ root.doc = cmd.load.doc /\ Step("record")
        /\ archive' = [a \in Archives |-> IF a \in cmd.id THEN cmd.load ELSE archive[a]]
        /\ \/ away' = away \cup cmd.id /\ UNCHANGED root
           \/ root' = [root EXCEPT !.boxes = @ \cup cmd.id] /\ UNCHANGED away
    BY <1>1, <1>4
  <2>2. /\ cmd'.pc = "record" /\ cmd'.kind = "backup" /\ cmd'.load = cmd.load /\ cmd' \in Cmds
        /\ outcome' = outcome
    BY <1>2, <2>1, StepFacts DEF Steps, Copying, Held
  <2>3. /\ root'.tag = root.tag /\ root'.doc = root.doc /\ root'.secrets = root.secrets
        /\ root'.boxes \subseteq root.boxes \cup cmd.id /\ root' \in Roots
    <3>1. root \in Roots /\ root.boxes \cup cmd.id \in Boxes
      BY BoxesFacts DEF DataType, Roots, Cmds
    <3> QED
      BY <2>1, <3>1 DEF Roots
  <2>4. cmd.load \in Contents /\ cmd.id \subseteq Archives
    BY DEF DataType, Cmds, Boxes
  <2>5. archive' \in [Archives -> Contents] /\ away' \in SUBSET Archives
    BY <2>1, <2>4 DEF DataType
  <2>6. DataType'
    BY <1>1, <2>2, <2>3, <2>5 DEF DataType
  <2>7. cmd.load.doc # NoDoc /\ cmd.load.doc.has \subseteq cmd.load.secrets
    BY <1>1, <1>2 DEF ArchiveInv, Copying
  <2>8. root # NoRoot
    BY <2>1, <2>7, IdleFacts
  <2>9. \A b \in Archives : archive'[b] = archive[b] \/ archive'[b] = cmd.load
    BY <2>1
  <2>10. \A b \in away' \cup root'.boxes : b \in Boxed \/ archive'[b] = cmd.load
    <3>1. \A b \in away' \cup root'.boxes : b \in away \cup root.boxes \cup cmd.id
      BY <2>1, <2>3
    <3>2. \A b \in cmd.id : archive'[b] = cmd.load
      BY <2>1, <2>4
    <3> QED
      BY <3>1, <3>2 DEF Boxed
  <2> QED
    BY <1>1, <1>2, <2>1, <2>2, <2>3, <2>6, <2>7, <2>8, <2>9, <2>10, CopyKeeps DEF Copying
<1> QED
  BY <1>3, <1>4

(* The archive is recorded, or the save fails with or without effect.      *)
LEMMA BackupRecordKeeps == ASSUME DataInv, BackupRecord PROVE DataInv'
<1> USE DEF DataInv, StaticInv
<1>1. /\ cmd.pc = "record" /\ UNCHANGED <<conf, oldConf, oldRoot, snap, archive, away, units, net,
                                          binary, cli, ids, flaws>>
      /\ UNCHANGED spent \/ Spend("mishaps")
      /\ End("backed up") \/ Step("observe")
      /\ \/ UNCHANGED root
         \/ root.doc.gen = cmd.load.doc.gen /\ root' = [root EXCEPT !.doc = Recorded]
  BY DEF BackupRecord, Reached, host, others
<1>2. cmd.kind = "backup" /\ Alongside
  BY <1>1, SpendFacts DEF CmdShape, Copying, Alongside, DataType
<1>3. /\ cmd.load.doc # NoDoc /\ cmd.load.doc \in Docs /\ DocOK(cmd.load.doc, ids)
      /\ cmd.load.doc.has \subseteq cmd.load.secrets
  BY <1>1, <1>2 DEF ArchiveInv, Copying, DataType, Cmds, Contents, DocInv
<1>4. /\ Recorded \in Docs /\ Recorded.gen = cmd.load.doc.gen + 1
      /\ Recorded.has = cmd.load.doc.has /\ Recorded.revoked = cmd.load.doc.revoked
  <2>1. Recorded = [gen |-> cmd.load.doc.gen + 1, has |-> cmd.load.doc.has,
                    revoked |-> cmd.load.doc.revoked, backups |-> cmd.load.doc.backups \cup cmd.id]
    <3>1. ASSUME NEW d \in Docs, NEW g, NEW b, NEW e, e = [d EXCEPT !.gen = g, !.backups = b]
          PROVE  e = [gen |-> g, has |-> d.has, revoked |-> d.revoked, backups |-> b]
      BY <3>1 DEF Docs
    <3> QED
      BY <1>3, <3>1 DEF Recorded
  <2>2. cmd.id \subseteq Archives
    BY DEF DataType, Cmds, Boxes
  <2> QED
    BY <1>3, <2>1, <2>2 DEF Docs
<1>5. DocOK(Recorded, ids)
  BY <1>3, <1>4 DEF DocOK, Docs
<1>6. /\ root'.tag = root.tag /\ root'.secrets = root.secrets /\ root'.boxes = root.boxes
      /\ root' \in Roots
      /\ \/ root' = root
         \/ /\ root.doc # NoDoc /\ root'.doc.gen = root.doc.gen + 1 /\ root'.doc.has = root.doc.has
            /\ DocOK(root'.doc, ids)
  <2>1. CASE UNCHANGED root
    BY <2>1 DEF DataType
  <2>2. CASE root.doc.gen = cmd.load.doc.gen /\ root' = [root EXCEPT !.doc = Recorded]
    <3>1. root.doc = cmd.load.doc
      BY <1>1, <2>2 DEF CopyInv, Later
    <3> QED
      BY <1>3, <1>4, <1>5, <2>2, <3>1, NewDoc
  <2> QED
    BY <1>1, <2>1, <2>2
<1>7. root = NoRoot => root' = NoRoot
  BY <1>6, IdleFacts
<1>8. \/ cmd' = Idle /\ cmd' \in Cmds /\ outcome' \in Outcomes
      \/ /\ cmd'.pc = "observe" /\ cmd'.kind = "backup" /\ cmd'.load = cmd.load /\ cmd' \in Cmds
         /\ outcome' \in Outcomes
  <2>1. CASE End("backed up")
    BY <2>1, EndFacts DEF Outcomes
  <2>2. CASE Step("observe")
    BY <1>2, <2>2, StepFacts DEF Steps, Copying, Held, DataType
  <2> QED
    BY <1>1, <2>1, <2>2
<1>9. DataType'
  BY <1>1, <1>2, <1>6, <1>8 DEF DataType, Alongside
<1>10. cmd'.pc # "record"
  BY <1>8, IdleFacts
<1>11. \A b \in away' \cup root'.boxes : b \in Boxed
  BY <1>1, <1>6 DEF Boxed
<1> QED
  BY <1>1, <1>2, <1>3, <1>6, <1>7, <1>8, <1>9, <1>10, <1>11, CopyKeeps DEF Copying

(* The outcome of the save is read back.                                   *)
LEMMA BackupObserveKeeps == ASSUME DataInv, BackupObserve PROVE DataInv'
<1> USE DEF DataInv, StaticInv
<1>1. /\ cmd.pc = "observe" /\ UNCHANGED <<conf, oldConf, oldRoot, snap, archive, units, net,
                                           binary, cli, ids, flaws, spent>>
      /\ \/ End("backed up") /\ UNCHANGED <<root, away>>
         \/ /\ End("failed") /\ away' = away \ cmd.id
            /\ root' = [root EXCEPT !.boxes = @ \ cmd.id]
  BY DEF BackupObserve, Reached, host, others
<1>2. cmd.kind = "backup" /\ Alongside
  BY <1>1 DEF CmdShape, Copying, Alongside, DataType
<1>3. cmd' = Idle /\ cmd' \in Cmds /\ outcome' \in Outcomes
  BY <1>1, EndFacts DEF Outcomes
<1>4. /\ root'.tag = root.tag /\ root'.doc = root.doc /\ root'.secrets = root.secrets
      /\ root'.boxes \subseteq root.boxes /\ root' \in Roots /\ away' \subseteq away
  <2>1. root \in Roots /\ root.boxes \ cmd.id \in Boxes
    BY BoxesFacts DEF DataType, Roots, Cmds
  <2> QED
    BY <1>1, <2>1 DEF Roots
<1>5. root = NoRoot => root' = NoRoot
  <2>1. ASSUME root = NoRoot PROVE [root EXCEPT !.boxes = @ \ cmd.id] = NoRoot
    <3>1. NoRoot.boxes \ cmd.id = {}
      BY IdleFacts
    <3>2. ASSUME NEW e, e = [NoRoot EXCEPT !.boxes = {}] PROVE e = NoRoot
      BY <3>2 DEF NoRoot
    <3> QED
      BY <2>1, <3>1, <3>2
  <2> QED
    BY <1>1, <2>1
<1>6. DataType'
  BY <1>1, <1>3, <1>4 DEF DataType
<1>7. cmd'.pc # "record"
  BY <1>3, IdleFacts
<1>8. \A b \in away' \cup root'.boxes : b \in Boxed
  BY <1>4 DEF Boxed
<1> QED
  BY <1>1, <1>2, <1>3, <1>4, <1>5, <1>6, <1>7, <1>8, CopyKeeps

----------------------------------------------------------------------------
(* Failures, kills and reboots                                             *)

(* Where a failing command leaves something half done.                     *)
LEMMA HalfwayFacts ==
  /\ Halfway \in {{}, {"half"}}
  /\ Halfway = {} <=> cmd.pc \notin HalfSteps
BY DEF Halfway, HalfSteps, Swapping

(* A step fails, or the command is killed.                                 *)
LEMMA StepFailsKeeps == ASSUME DataInv, StepFails \/ Kill PROVE DataInv'
<1> USE DEF DataInv, StaticInv
<1>1. /\ (End("failed") \/ End("killed")) /\ Spend("mishaps") /\ flaws' = flaws \cup Halfway
      /\ UNCHANGED <<conf, root, oldConf, oldRoot, snap, archive, away, units, net, binary, cli, ids>>
  BY DEF StepFails, Kill, trees, host, others
<1>2. cmd' = Idle /\ outcome' \in Outcomes
  BY <1>1, EndFacts DEF Outcomes
<1>3. spent' \in [commands : Nat, writes : Nat, mishaps : Nat] /\ spent'.commands = spent.commands
  BY <1>1, SpendFacts
<1>4. flaws' \in {flaws, flaws \cup {"half"}} /\ (flaws' = {} => cmd.pc \notin HalfSteps)
  BY <1>1, HalfwayFacts
<1>5. /\ units' \in [files : BOOLEAN, on : BOOLEAN, up : BOOLEAN] /\ net' \in Nat
      /\ binary' \in BOOLEAN /\ (units'.up => units'.files /\ units.up)
  BY <1>1 DEF DataType, UnitsInv
<1> QED
  BY <1>1, <1>2, <1>3, <1>4, <1>5, EndKeeps

UnitTypes == [files : BOOLEAN, on : BOOLEAN, up : BOOLEAN]

(* The units but for whether they run.                                     *)
LEMMA UnitsUp ==
  ASSUME units \in UnitTypes, NEW u \in BOOLEAN, units' = [units EXCEPT !.up = u]
  PROVE  units' \in UnitTypes /\ units'.up = u /\ units'.files = units.files /\ units'.on = units.on
BY DEF UnitTypes

(* A reboot starts the services if both trees are there.                   *)
LEMMA RebootKeeps == ASSUME DataInv, Reboot PROVE DataInv'
<1> USE DEF DataInv, StaticInv
<1>1. /\ IF cmd = Idle THEN UNCHANGED <<cmd, outcome>> ELSE End("killed")
      /\ Spend("mishaps") /\ flaws' = flaws \cup Halfway /\ cli' = NoCli
      /\ units' = [units EXCEPT !.up = units.on /\ units.files /\ conf.made /\ Initialized]
      /\ net' \in {0, conf.tag}
      /\ UNCHANGED <<conf, root, oldConf, oldRoot, snap, archive, away, binary, ids>>
  BY DEF Reboot, trees
<1>2. cmd' = Idle /\ outcome' \in Outcomes
  BY <1>1, EndFacts DEF Outcomes, DataType
<1>3. spent' \in [commands : Nat, writes : Nat, mishaps : Nat] /\ spent'.commands = spent.commands
  BY <1>1, SpendFacts
<1>4. flaws' \in {flaws, flaws \cup {"half"}} /\ (flaws' = {} => cmd.pc \notin HalfSteps)
  BY <1>1, HalfwayFacts
<1>5. /\ units' \in [files : BOOLEAN, on : BOOLEAN, up : BOOLEAN] /\ net' \in Nat
      /\ binary' \in BOOLEAN /\ (units'.up => units'.files /\ Initialized)
  <2>1. (units.on /\ units.files /\ conf.made /\ Initialized) \in BOOLEAN
    BY DEF DataType, Confs
  <2>2. units \in UnitTypes
    BY DEF DataType, UnitTypes
  <2>3. /\ units' \in UnitTypes /\ units'.files = units.files
        /\ units'.up = (units.on /\ units.files /\ conf.made /\ Initialized)
    BY <1>1, <2>1, <2>2, UnitsUp
  <2>4. units'.up => units'.files /\ Initialized
    BY <2>3
  <2>5. net' \in Nat /\ binary' \in BOOLEAN
    BY <1>1 DEF DataType, Confs
  <2> QED
    BY <2>3, <2>4, <2>5 DEF UnitTypes
<1> QED
  BY <1>1, <1>2, <1>3, <1>4, <1>5, EndKeeps

----------------------------------------------------------------------------
(* restore                                                                 *)

(* A step within a restore moves documents and archives between the trees  *)
(* and makes none.                                                         *)
Documents == {root.doc, oldRoot.doc, snap.root.doc, cmd.load.doc, NoDoc}

(* What is left to show of a step within a restore.                        *)
LEMMA RestoreKeeps ==
  ASSUME DataInv, cmd.kind = "restore", cmd'.pc \in Restoring, Held, Alongside,
         UNCHANGED <<archive, away>>, DataType',
         {root'.doc, oldRoot'.doc, snap'.root.doc} \subseteq Documents, Boxed' \subseteq Boxed,
         TagInv', TreeInv', MoveInv', ActiveInv', KeptInv', UnitsInv'
  PROVE  DataInv'
<1> USE DEF DataInv, StaticInv
<1>1. cmd'.pc \notin Copying /\ cmd'.pc \notin Reviewing \cup Deleting /\ cmd'.pc # "idle"
  <2>1. Restoring \cap (Copying \cup Reviewing \cup Deleting \cup {"idle"}) = {}
    BY DEF Copying, Restoring, Preparing, Swapping, Activated, RollingBack, Reviewing, Deleting
  <2> QED
    BY <2>1
<1>2. CmdShape'
  BY <1>1 DEF CmdShape, Held, Deleting
<1>3. DocInv'
  <2>1. \A d \in Documents : DocOK(d, ids)
    BY IdleFacts DEF Documents, DocInv, DocOK
  <2> QED
    BY <2>1 DEF DocInv, Held, Alongside
<1>4. ArchiveInv'
  BY DEF ArchiveInv, Held, ArchiveComplete, CmdShape
<1>5. CliShape' /\ CopyInv'
  BY <1>1 DEF CliShape, Alongside, CopyInv, Copying
<1>6. RemovalInv'
  BY <1>1, OffRemoval
<1> QED
  BY <1>2, <1>3, <1>4, <1>5, <1>6

(* The tags when a step makes no new tree.                                 *)
LEMMA TagsKept ==
  ASSUME DataInv, cmd.kind = "restore", Held, Alongside,
         cmd'.pc \in Preparing \cup Swapping => cmd.pc \in Preparing \cup Swapping,
         root'.tag \in {root.tag, oldRoot.tag, 0} \/ root' = snap.root,
         oldRoot'.tag \in {oldRoot.tag, 0},
         snap'.root.tag \in {snap.root.tag, 0} \/ (snap'.root.tag = root.tag /\ cmd.pc \in Preparing),
         cmd'.pc \in Preparing \cup Swapping => root'.tag \in {root.tag, 0}
  PROVE  TagInv'
<1> USE DEF DataInv, StaticInv
<1>1. Top' = Top /\ Top \in Nat /\ Top >= 1
  BY DEF Top, Alongside, DataType
<1>2. cmd'.tag = cmd.tag /\ cmd'.kind = cmd.kind /\ cli' = cli
  BY DEF Held, Alongside
<1> QED
  BY <1>1, <1>2 DEF TagInv

(* A step that leaves the trees where they are.                            *)
LEMMA SameTrees ==
  ASSUME DataInv, cmd.kind = "restore", cmd'.pc \in Restoring, Held, Alongside, DataType',
         UNCHANGED <<conf, oldConf, root, oldRoot, archive, away>>, flaws \subseteq flaws',
         snap'.root.doc \in Documents, snap'.root.boxes \subseteq Boxed,
         snap'.root.tag = snap.root.tag \/ (snap'.root.tag = root.tag /\ cmd.pc \in Preparing),
         cmd'.done = cmd.done, cmd'.prior = cmd.prior,
         cmd'.pc \in Preparing \cup Swapping => cmd.pc \in Preparing \cup Swapping,
         cmd'.pc \in Activated => cmd.pc \in Activated, cmd'.pc \notin {"rbRoot", "rbUnits"},
         cmd'.pc \in Aside \cup {"rbConf"} =>
           cmd.pc \in Aside \cup {"rbConf"} \/ cmd.done = {},
         cmd'.pc = "rbConf" /\ cmd'.clean => net' = cmd'.net,
         MoveInv', ActiveInv', UnitsInv'
  PROVE  DataInv'
<1> USE DEF DataInv, StaticInv
<1>1. TagInv'
  BY TagsKept DEF TagInv
<1>2. {root'.doc, oldRoot'.doc, snap'.root.doc} \subseteq Documents /\ Boxed' \subseteq Boxed
  BY DEF Documents, Boxed
<1>3. TreeInv'
  <2>1. cmd.pc \in Restoring
    BY DEF CmdShape
  <2>2. ~PurgesData
    BY <2>1 DEF PurgesData, Restoring, Preparing, Swapping, Activated, RollingBack
  <2>3. (Clean' => Clean) /\ (flaws' = {} => flaws = {})
    BY DEF Clean
  <2>4. (CliAgrees(root) => CliAgrees(root)') /\ (CliAgrees(oldRoot) => CliAgrees(oldRoot)')
    BY DEF CliAgrees, Alongside
  <2> QED
    BY <2>2, <2>3, <2>4 DEF TreeInv, Whole
<1>4. KeptInv'
  <2>1. flaws' = {} => flaws = {}
    OBVIOUS
  <2>2. (Replacing' <=> Replacing) /\ (Rooted' <=> Rooted) /\ cmd'.view = cmd.view
        /\ cmd'.kind = cmd.kind
    BY DEF Replacing, Rooted, Initialized, Held
  <2> QED
    BY <2>1, <2>2 DEF KeptInv
<1> QED
  BY <1>1, <1>2, <1>3, <1>4, RestoreKeeps

(* Checks, snapshot and installation of the binary.                        *)
LEMMA PrepareKeeps ==
  ASSUME DataInv, cmd.pc \in Preparing,
         NEW p \in {"snapConf", "snapTree", "snapDoc", "install", "stage"}, Step(p),
         UNCHANGED <<conf, root, oldConf, oldRoot, archive, away, units, net, cli, ids, flaws, spent>>,
         binary' \in BOOLEAN, snap' \in [conf : Confs, root : Roots],
         snap'.root.doc \in Documents, snap'.root.boxes \subseteq Boxed,
         snap'.root.tag = snap.root.tag \/ snap'.root.tag = root.tag
  PROVE  DataInv'
<1> USE DEF DataInv, StaticInv
<1>1. /\ cmd'.pc = p /\ Held /\ cmd'.done = cmd.done /\ cmd'.prior = cmd.prior
      /\ cmd'.clean = cmd.clean /\ cmd' \in Cmds /\ outcome' = outcome
  BY StepFacts DEF Steps, Restoring, Preparing
<1>2. Alongside /\ DataType' /\ cmd.kind = "restore"
  BY <1>1 DEF Alongside, DataType, CmdShape, Restoring
<1>3. cmd'.pc \in Restoring /\ cmd'.pc \notin Swapping \cup Activated \cup RollingBack
      /\ cmd'.pc \notin Deleting \cup {"recheck"} /\ cmd'.pc \notin Aside \cup {"confOut", "start"}
  BY <1>1 DEF Restoring, Preparing, Swapping, Activated, RollingBack, Deleting, Aside
<1>4. MoveInv' /\ ActiveInv'
  BY <1>1, <1>3 DEF MoveInv, ActiveInv, Swapping, Activated, Held
<1>5. UnitsInv'
  BY <1>1, <1>2, <1>3 DEF UnitsInv, Held, Initialized
<1>6. cmd'.pc \notin {"rbRoot", "rbUnits", "rbConf"}
  BY <1>1
<1> QED
  BY <1>1, <1>2, <1>3, <1>4, <1>5, <1>6, SameTrees

(* The host is compared with the plan.                                     *)
LEMMA RestoreCheckKeeps == ASSUME DataInv, RestoreCheck PROVE DataInv'
<1> USE DEF DataInv, StaticInv
<1>1. /\ cmd.pc = "check"
      /\ UNCHANGED <<conf, root, oldConf, oldRoot, snap, archive, away, units, net, binary, cli,
                     ids, flaws, spent>>
      /\ Step("snapConf") \/ Step("install") \/ End("conflict")
  BY DEF RestoreCheck, Reached, trees, host, others
<1>2. CASE End("conflict")
  BY <1>1, <1>2, EndFacts, EndKeeps DEF Outcomes, HalfSteps, Swapping, DataType, UnitsInv
<1>3. CASE Step("snapConf") \/ Step("install")
  <2>1. cmd.pc \in Preparing /\ snap'.root.doc \in Documents /\ snap'.root.boxes \subseteq Boxed
    BY <1>1 DEF Preparing, Documents, Boxed
  <2>2. binary' \in BOOLEAN /\ snap' \in [conf : Confs, root : Roots]
    BY <1>1 DEF DataType
  <2> QED
    BY <1>1, <1>3, <2>1, <2>2, PrepareKeeps
<1> QED
  BY <1>1, <1>2, <1>3

(* The emergency snapshot of the configuration.                            *)
LEMMA SnapConfKeeps == ASSUME DataInv, SnapConf PROVE DataInv'
<1> USE DEF DataInv, StaticInv
<1>1. /\ cmd.pc = "snapConf"
      /\ UNCHANGED <<conf, root, oldConf, oldRoot, archive, away, units, net, binary, cli, ids,
                     flaws, spent>>
      /\ \/ Step("snapTree") /\ snap' = [snap EXCEPT !.conf = conf]
         \/ End("conflict") /\ UNCHANGED snap
  BY DEF SnapConf, Reached, host, others
<1>2. CASE End("conflict") /\ UNCHANGED snap
  BY <1>1, <1>2, EndFacts, EndKeeps DEF Outcomes, HalfSteps, Swapping, DataType, UnitsInv
<1>3. CASE Step("snapTree") /\ snap' = [snap EXCEPT !.conf = conf]
  <2>1. snap'.root = snap.root /\ snap' \in [conf : Confs, root : Roots]
    BY <1>3 DEF DataType
  <2>2. cmd.pc \in Preparing /\ snap'.root.doc \in Documents /\ snap'.root.boxes \subseteq Boxed
    BY <1>1, <2>1 DEF Preparing, Documents, Boxed
  <2>3. binary' \in BOOLEAN
    BY <1>1 DEF DataType
  <2> QED
    BY <1>1, <1>3, <2>1, <2>2, <2>3, PrepareKeeps
<1> QED
  BY <1>1, <1>2, <1>3

(* The emergency snapshot of the state.                                    *)
LEMMA SnapTreeKeeps == ASSUME DataInv, SnapTree PROVE DataInv'
<1> USE DEF DataInv, StaticInv
<1>1. /\ UNCHANGED <<conf, root, oldConf, oldRoot, archive, away, units, net, binary, cli, ids,
                     flaws, spent>>
      /\ \/ /\ cmd.pc = "snapTree" /\ Step("snapDoc")
            /\ snap' = [snap EXCEPT !.root = [root EXCEPT !.doc = NoDoc]]
         \/ /\ cmd.pc = "snapDoc" /\ Step("install")
            /\ snap' = [snap EXCEPT !.root.doc = root.doc]
  BY DEF SnapTree, Reached, host, others
<1>2. binary' \in BOOLEAN /\ cmd.pc \in Preparing
  BY <1>1 DEF DataType, Preparing
<1>3. snap \in [conf : Confs, root : Roots] /\ root \in Roots /\ NoDoc \in Docs
      /\ snap.root \in Roots /\ root.doc \in Docs
  BY Nothing DEF DataType, Roots
<1>4. CASE Step("snapDoc") /\ snap' = [snap EXCEPT !.root = [root EXCEPT !.doc = NoDoc]]
  <2>1. snap' \in [conf : Confs, root : Roots] /\ snap'.root.doc = NoDoc
        /\ snap'.root.boxes = root.boxes /\ snap'.root.tag = root.tag
    BY <1>3, <1>4 DEF Roots
  <2>2. snap'.root.doc \in Documents /\ snap'.root.boxes \subseteq Boxed
    BY <2>1 DEF Documents, Boxed
  <2> QED
    BY <1>1, <1>2, <1>4, <2>1, <2>2, PrepareKeeps
<1>5. CASE Step("install") /\ snap' = [snap EXCEPT !.root.doc = root.doc]
  <2>1. snap'.root = [snap.root EXCEPT !.doc = root.doc] /\ snap'.conf = snap.conf
    BY <1>3, <1>5
  <2>2. snap'.root \in Roots /\ snap'.root.doc = root.doc
        /\ snap'.root.boxes = snap.root.boxes /\ snap'.root.tag = snap.root.tag
    BY <1>3, <2>1 DEF Roots
  <2>3. snap' \in [conf : Confs, root : Roots]
    BY <1>3, <1>5, <2>2
  <2>4. snap'.root.doc \in Documents /\ snap'.root.boxes \subseteq Boxed
    BY <2>2 DEF Documents, Boxed
  <2> QED
    BY <1>1, <1>2, <1>5, <2>2, <2>3, <2>4, PrepareKeeps
<1> QED
  BY <1>1, <1>4, <1>5

(* The binary is installed.                                                *)
LEMMA RestoreInstallKeeps == ASSUME DataInv, RestoreInstall PROVE DataInv'
<1>1. /\ cmd.pc = "install" /\ Step("stage") /\ binary' = TRUE
      /\ UNCHANGED <<conf, root, oldConf, oldRoot, snap, archive, away, units, net, cli, ids,
                     flaws, spent>>
  BY DEF RestoreInstall, Reached, trees, others
<1>2. cmd.pc \in Preparing /\ snap'.root.doc \in Documents /\ snap'.root.boxes \subseteq Boxed
  BY <1>1 DEF Preparing, Documents, Boxed
<1>3. snap' \in [conf : Confs, root : Roots]
  BY <1>1 DEF DataInv, DataType
<1> QED
  BY <1>1, <1>2, <1>3, PrepareKeeps

(* The new trees are rendered beside the live ones.                        *)
LEMMA ActivateStageKeeps == ASSUME DataInv, ActivateStage PROVE DataInv'
<1> USE DEF DataInv, StaticInv
<1>1. /\ cmd.pc = "stage"
      /\ cmd' = [cmd EXCEPT !.pc = IF Replacing THEN "stop" ELSE "confIn",
                            !.net = net, !.units = units.files]
      /\ UNCHANGED <<conf, root, oldConf, oldRoot, snap, archive, away, units, net, binary, cli,
                     ids, flaws, spent, outcome>>
  BY DEF ActivateStage, Reached, trees, host, others
<1>2. /\ cmd'.pc = (IF Replacing THEN "stop" ELSE "confIn") /\ Held /\ cmd'.done = cmd.done
      /\ cmd'.prior = cmd.prior /\ cmd'.clean = cmd.clean /\ cmd' \in Cmds
  <2>1. net \in Nat /\ units.files \in BOOLEAN /\ cmd \in Cmds
    BY DEF DataType
  <2>2. (IF Replacing THEN "stop" ELSE "confIn") \in Steps
    BY DEF Steps, Restoring, Preparing, Swapping
  <2> QED
    BY <1>1, <2>1, <2>2 DEF Cmds, Held, Steps
<1>3. Alongside /\ DataType' /\ cmd.kind = "restore" /\ cmd.done = {}
  BY <1>1, <1>2 DEF Alongside, DataType, CmdShape, Restoring, Preparing, MoveInv
<1>4. cmd'.pc \in Restoring /\ cmd'.pc \notin Activated \cup RollingBack
      /\ cmd'.pc \notin Deleting \cup {"recheck"} /\ cmd.pc \in Preparing
      /\ cmd'.pc \notin {"rbRoot", "rbUnits", "rbConf"}
  BY <1>1, <1>2 DEF Restoring, Preparing, Swapping, Activated, RollingBack, Deleting
<1>5. MoveInv' /\ ActiveInv'
  BY <1>2, <1>3, <1>4 DEF MoveInv, ActiveInv, Activated, Held, Replacing
<1>6. UnitsInv'
  <2>1. ASSUME ~Replacing, flaws = {} PROVE ~units.up
    <3>1. root = NoRoot
      BY <2>1, <1>3 DEF KeptInv
    <3> QED
      BY <2>1, <3>1, IdleFacts DEF UnitsInv, Initialized
  <2>2. cmd'.pc \in {"confOut", "start"} \cup Swapping \cup (RollingBack \ {"rbStop"}) => ~Replacing
    BY <1>2 DEF Swapping, RollingBack
  <2> QED
    BY <1>1, <1>2, <1>3, <1>4, <2>1, <2>2 DEF UnitsInv, Held, Initialized
<1>7. snap'.root.doc \in Documents /\ snap'.root.boxes \subseteq Boxed
  BY <1>1 DEF Documents, Boxed
<1> QED
  BY <1>1, <1>2, <1>3, <1>4, <1>5, <1>6, <1>7, SameTrees

(* Whatever goes wrong before the commit ends in the rollback.             *)
LEMMA ToRollback ==
  ASSUME DataInv, Step("rbStop"), Alongside,
         cmd.pc \in {"stop", "confOut", "start", "netIn", "health"} \cup Swapping,
         UNCHANGED <<conf, root, oldConf, oldRoot, snap, archive, away, binary, flaws>>,
         units' \in UnitTypes, net' \in Nat, units'.up => units'.files,
         flaws = {} /\ units'.up => conf.tag = root.tag /\ Initialized
  PROVE  DataInv'
<1> USE DEF DataInv, StaticInv
<1>1. /\ cmd'.pc = "rbStop" /\ Held /\ cmd'.done = cmd.done /\ cmd'.prior = cmd.prior
      /\ cmd'.clean = cmd.clean /\ cmd' \in Cmds /\ outcome' = outcome
  BY StepFacts DEF Steps, Restoring, RollingBack
<1>2. DataType'
  BY <1>1 DEF Alongside, DataType, UnitTypes
<1>3. cmd.pc \in Restoring /\ cmd'.pc \in Restoring
  BY <1>1 DEF Restoring, Preparing, Activated, RollingBack
<1>4. cmd.kind = "restore"
  BY <1>3 DEF CmdShape
<1>5. cmd'.pc \notin Preparing \cup Swapping \cup Activated
      /\ cmd'.pc \notin Deleting \cup {"recheck"}
      /\ cmd'.pc \notin {"confOut", "start"} \cup Swapping \cup (RollingBack \ {"rbStop"})
  BY <1>1 DEF Preparing, Swapping, Activated, RollingBack, Deleting
<1>6. MoveInv' /\ ActiveInv'
  BY <1>1, <1>5 DEF MoveInv, ActiveInv, Preparing, Swapping, Activated, Held
<1>7. UnitsInv'
  BY <1>1, <1>4, <1>5 DEF UnitsInv, Held, Initialized
<1>8. cmd.pc \in Aside \/ cmd.done = {}
  BY DEF Aside, MoveInv, Preparing
<1>9. snap'.root.doc \in Documents /\ snap'.root.boxes \subseteq Boxed
  BY DEF Documents, Boxed
<1>10. cmd'.pc \notin {"rbRoot", "rbUnits", "rbConf"}
  BY <1>1
<1> QED
  BY <1>1, <1>2, <1>3, <1>4, <1>5, <1>6, <1>7, <1>8, <1>9, <1>10, SameTrees

(* The services are stopped, or the rollback begins.                       *)
LEMMA ActivateStopKeeps == ASSUME DataInv, ActivateStop PROVE DataInv'
<1> USE DEF DataInv, StaticInv
<1>1. /\ cmd.pc = "stop"
      /\ \/ /\ Step("confOut") /\ units.files
            /\ units' = [units EXCEPT !.up = FALSE] /\ UNCHANGED spent
         \/ Step("rbStop") /\ UNCHANGED <<units, spent>>
         \/ /\ Spend("mishaps") /\ Step("rbStop")
            /\ \E up \in BOOLEAN : units' = [units EXCEPT !.up = up /\ @]
      /\ UNCHANGED <<conf, root, oldConf, oldRoot, snap, archive, away, net, binary, cli, ids, flaws>>
  BY DEF ActivateStop, Reached, trees, others
<1>2. units \in UnitTypes /\ net \in Nat /\ (units.up => units.files)
      /\ (flaws = {} /\ units.up => conf.tag = root.tag /\ Initialized)
  BY DEF DataType, UnitTypes, UnitsInv
<1>3. Alongside
  BY <1>1, SpendFacts DEF Alongside, DataType
<1>4. CASE Step("rbStop") /\ UNCHANGED <<units, spent>>
  BY <1>1, <1>2, <1>3, <1>4, ToRollback
<1>5. CASE Step("rbStop") /\ \E up \in BOOLEAN : units' = [units EXCEPT !.up = up /\ @]
  <2>1. PICK up \in BOOLEAN : units' = [units EXCEPT !.up = up /\ units.up]
    BY <1>5
  <2>2. (up /\ units.up) \in BOOLEAN
    OBVIOUS
  <2>3. units' \in UnitTypes /\ units'.up = (up /\ units.up) /\ units'.files = units.files
    BY <1>2, <2>1, <2>2, UnitsUp
  <2>4. units'.up => units.up
    BY <2>3
  <2> QED
    BY <1>1, <1>2, <1>3, <1>5, <2>3, <2>4, ToRollback
<1>6. CASE Step("confOut") /\ units' = [units EXCEPT !.up = FALSE]
  <2>1. units' \in UnitTypes /\ units'.up = FALSE
    BY <1>2, <1>6, UnitsUp
  <2>2. /\ cmd'.pc = "confOut" /\ Held /\ cmd'.done = cmd.done /\ cmd'.prior = cmd.prior
        /\ cmd'.clean = cmd.clean /\ cmd' \in Cmds /\ outcome' = outcome
    BY <1>6, StepFacts DEF Steps, Restoring, Preparing
  <2>3. DataType' /\ cmd.kind = "restore" /\ Replacing
    BY <1>1, <1>3, <2>1, <2>2 DEF Alongside, DataType, UnitTypes, CmdShape, Restoring, Preparing, MoveInv
  <2>4. cmd'.pc \in Restoring /\ cmd'.pc \notin Swapping \cup Activated \cup RollingBack
        /\ cmd'.pc \notin Deleting \cup {"recheck"} /\ cmd.pc \in Preparing /\ cmd'.pc \notin Aside
        /\ cmd'.pc \notin {"rbRoot", "rbUnits", "rbConf"}
    BY <1>1, <2>2 DEF Restoring, Preparing, Swapping, Activated, RollingBack, Deleting, Aside
  <2>5. MoveInv' /\ ActiveInv'
    BY <1>1, <2>2, <2>3, <2>4 DEF MoveInv, ActiveInv, Swapping, Activated, Held, Replacing
  <2>6. UnitsInv'
    BY <1>1, <2>1, <2>2, <2>3, <2>4 DEF UnitsInv, Held, Initialized
  <2>7. snap'.root.doc \in Documents /\ snap'.root.boxes \subseteq Boxed
    BY <1>1 DEF Documents, Boxed
  <2> QED
    BY <1>1, <1>3, <2>2, <2>3, <2>4, <2>5, <2>6, <2>7, SameTrees
<1> QED
  BY <1>1, <1>4, <1>5, <1>6

(* Steps on the new trees, which are in place.                             *)
LEMMA ActivatedKeeps ==
  ASSUME DataInv, cmd.pc \in Activated, NEW p \in Activated \ {"start", "commitRoot"}, Step(p),
         Alongside, UNCHANGED <<conf, root, oldConf, oldRoot, snap, archive, away, binary, flaws>>,
         units' \in UnitTypes, net' \in Nat, units'.up => units'.files, ActiveInv',
         cmd.pc \in {"start", "netIn", "health"}
  PROVE  DataInv'
<1> USE DEF DataInv, StaticInv
<1>1. /\ cmd'.pc = p /\ Held /\ cmd'.done = cmd.done /\ cmd'.prior = cmd.prior
      /\ cmd'.clean = cmd.clean /\ cmd' \in Cmds /\ outcome' = outcome
  BY StepFacts DEF Steps, Restoring
<1>2. DataType' /\ cmd.kind = "restore"
  BY <1>1 DEF Alongside, DataType, UnitTypes, CmdShape, Restoring
<1>3. cmd'.pc \in Restoring /\ cmd'.pc \in Activated /\ cmd'.pc \notin Preparing \cup Swapping
      /\ cmd'.pc \notin Deleting \cup {"recheck"}
      /\ cmd'.pc \notin {"confOut", "start"} \cup Swapping \cup (RollingBack \ {"rbStop"})
      /\ cmd'.pc \notin {"rbRoot", "rbUnits", "rbConf"}
  BY <1>1 DEF Restoring, Preparing, Swapping, Activated, RollingBack, Deleting
<1>4. MoveInv'
  BY <1>1, <1>2, <1>3 DEF MoveInv, Preparing, Swapping, NewConf, Initialized, Held
<1>5. UnitsInv'
  <2>1. conf.tag = root.tag /\ Initialized
    BY DEF MoveInv, NewConf
  <2> QED
    BY <1>1, <1>2, <1>3, <2>1 DEF UnitsInv, Held, Initialized
<1>6. cmd.pc \in Aside /\ snap'.root.doc \in Documents /\ snap'.root.boxes \subseteq Boxed
  BY DEF Documents, Boxed, Aside
<1> QED
  BY <1>1, <1>2, <1>3, <1>4, <1>5, <1>6, SameTrees

(* The services are started on the new trees.                              *)
LEMMA ActivateStartKeeps == ASSUME DataInv, ActivateStart PROVE DataInv'
<1> USE DEF DataInv, StaticInv
<1>1. /\ cmd.pc = "start" /\ Step("netIn") /\ units' = [files |-> TRUE, on |-> TRUE, up |-> TRUE]
      /\ UNCHANGED <<conf, root, oldConf, oldRoot, snap, archive, away, net, binary, cli, ids,
                     flaws, spent>>
  BY DEF ActivateStart, Reached, trees, others
<1>2. units' \in UnitTypes /\ units'.up /\ units'.files /\ net' \in Nat
  BY <1>1 DEF UnitTypes, DataType
<1>3. Alongside /\ cmd'.pc = "netIn"
  BY <1>1, StepFacts DEF Alongside, DataType, Steps, Restoring, Activated
<1>4. ActiveInv'
  BY <1>3 DEF ActiveInv
<1> QED
  BY <1>1, <1>2, <1>3, <1>4, ActivatedKeeps DEF Activated

(* The new firewall is put in force.                                       *)
LEMMA ActivateNetKeeps == ASSUME DataInv, ActivateNet PROVE DataInv'
<1> USE DEF DataInv, StaticInv
<1>1. /\ cmd.pc = "netIn" /\ Step("health") /\ net' = cmd.tag
      /\ UNCHANGED <<conf, root, oldConf, oldRoot, snap, archive, away, units, binary, cli, ids,
                     flaws, spent>>
  BY DEF ActivateNet, Reached, trees, others
<1>2. units' \in UnitTypes /\ (units'.up => units'.files) /\ net' \in Nat
  BY <1>1 DEF UnitTypes, DataType, UnitsInv, Cmds
<1>3. Alongside /\ cmd'.pc = "health" /\ cmd'.tag = cmd.tag
  BY <1>1, StepFacts DEF Alongside, DataType, Steps, Restoring, Activated, Held
<1>4. ActiveInv'
  BY <1>1, <1>3 DEF ActiveInv
<1> QED
  BY <1>1, <1>2, <1>3, <1>4, ActivatedKeeps DEF Activated

(* A rename, a unit or the firewall fails.                                 *)
LEMMA ActivateFailsKeeps == ASSUME DataInv, ActivateFails PROVE DataInv'
<1> USE DEF DataInv, StaticInv
<1>1. /\ cmd.pc \in {"confOut", "confIn", "rootOut", "rootIn", "start", "netIn"}
      /\ Spend("mishaps") /\ Step("rbStop")
      /\ \/ UNCHANGED <<units, net>>
         \/ /\ cmd.pc = "start" /\ UNCHANGED net
            /\ units' = [files |-> TRUE, on |-> TRUE, up |-> TRUE]
         \/ cmd.pc = "netIn" /\ UNCHANGED units /\ net' = cmd.tag
      /\ UNCHANGED <<conf, root, oldConf, oldRoot, snap, archive, away, binary, cli, ids, flaws>>
  BY DEF ActivateFails, Reached, trees, others
<1>2. Alongside /\ cmd.pc \in {"stop", "confOut", "start", "netIn", "health"} \cup Swapping
  BY <1>1, SpendFacts DEF Alongside, Swapping
<1>3. units' \in UnitTypes /\ net' \in Nat /\ (units'.up => units'.files)
  <2>1. units \in UnitTypes /\ net \in Nat /\ (units.up => units.files) /\ cmd.tag \in Nat
    BY DEF DataType, UnitTypes, UnitsInv, Cmds
  <2>2. ASSUME units' = [files |-> TRUE, on |-> TRUE, up |-> TRUE]
        PROVE  units' \in UnitTypes /\ units'.files
    BY <2>2 DEF UnitTypes
  <2> QED
    BY <1>1, <2>1, <2>2
<1>4. flaws = {} /\ units'.up => conf.tag = root.tag /\ Initialized
  <2>1. flaws = {} /\ units.up => conf.tag = root.tag /\ Initialized
    BY DEF UnitsInv
  <2>2. cmd.pc = "start" => conf.tag = root.tag /\ Initialized
    BY DEF MoveInv, NewConf, Activated
  <2> QED
    BY <1>1, <2>1, <2>2
<1> QED
  BY <1>1, <1>2, <1>3, <1>4, ToRollback

(* The health check decides between commit and rollback.                   *)
LEMMA HealthKeeps == ASSUME DataInv, Health PROVE DataInv'
<1> USE DEF DataInv, StaticInv
<1>1. /\ cmd.pc = "health"
      /\ \/ UNCHANGED spent \/ Spend("mishaps")
      /\ \/ Step("rbStop")
         \/ Step("commitConf") /\ root.doc = cmd.load.doc /\ units.up
      /\ UNCHANGED <<conf, root, oldConf, oldRoot, snap, archive, away, units, net, binary, cli,
                     ids, flaws>>
  BY DEF Health, Reached, trees, host, others
<1>2. units' \in UnitTypes /\ (units'.up => units'.files) /\ net' \in Nat
  BY <1>1 DEF UnitTypes, DataType, UnitsInv
<1>3. Alongside
  BY <1>1, SpendFacts DEF Alongside, DataType
<1>4. CASE Step("rbStop")
  BY <1>1, <1>2, <1>3, <1>4, ToRollback DEF UnitsInv
<1>5. CASE Step("commitConf") /\ root.doc = cmd.load.doc /\ units.up
  <2>1. cmd'.pc = "commitConf" /\ cmd'.tag = cmd.tag /\ cmd'.load = cmd.load /\ cmd'.clean = cmd.clean
    BY <1>5, StepFacts DEF Steps, Restoring, Activated, Held
  <2>2. root.doc.gen \in Nat
    BY DEF DataType, Roots, Docs
  <2>3. ActiveInv'
    BY <1>1, <1>5, <2>1, <2>2 DEF ActiveInv, Later
  <2> QED
    BY <1>1, <1>2, <1>3, <1>5, <2>3, ActivatedKeeps DEF Activated
<1> QED
  BY <1>1, <1>4, <1>5

----------------------------------------------------------------------------
(* The four renames                                                        *)

(* The configuration is moved aside and the new one put in its place.      *)
LEMMA SwapConfKeeps == ASSUME DataInv, SwapConf PROVE DataInv'
<1> USE DEF DataInv, StaticInv
<1>1. /\ \/ /\ cmd.pc = "confOut" /\ Did("conf", "confIn")
            /\ oldConf' = conf /\ conf' = NoConf
         \/ /\ cmd.pc = "confIn" /\ Did("conf", IF Replacing THEN "rootOut" ELSE "rootIn")
            /\ conf' = NewConf /\ UNCHANGED oldConf
      /\ UNCHANGED <<root, oldRoot, snap, archive, away, units, net, binary, cli, ids, flaws, spent>>
  BY DEF SwapConf, Reached, host, others, NewConf
<1>2. /\ Held /\ cmd'.done = cmd.done \cup {"conf"} /\ cmd'.prior = cmd.prior
      /\ cmd'.clean = cmd.clean /\ cmd' \in Cmds /\ outcome' = outcome
      /\ cmd.pc = "confOut" => cmd'.pc = "confIn"
      /\ cmd.pc = "confIn" => cmd'.pc = IF Replacing THEN "rootOut" ELSE "rootIn"
  BY <1>1, DidFacts DEF Steps, Restoring, Swapping
<1>3. cmd.kind = "restore" /\ cmd'.kind = "restore" /\ cmd.pc \in Preparing \cup Swapping
      /\ cmd.pc \notin Activated /\ cmd'.pc \notin Activated /\ cmd'.pc \in Swapping
      /\ cmd'.pc \in Restoring /\ cmd'.pc \notin Preparing
  BY <1>1, <1>2 DEF CmdShape, Restoring, Preparing, Swapping, Activated, Held
<1>4. DataType' /\ Alongside
  <2>1. NewConf \in Confs
    BY DEF DataType, NewConf, Confs, Cmds
  <2>2. conf' \in Confs /\ oldConf' \in Confs
    BY <1>1, <2>1, Nothing DEF DataType
  <2> QED
    BY <1>1, <1>2, <2>2 DEF DataType, Alongside
<1>5. TagInv'
  BY <1>1, <1>2, <1>3, <1>4, TagsKept
<1>6. TreeInv'
  BY <1>1, <1>3, TreesKept DEF PurgesData, Preparing, Swapping
<1>7. (Replacing' <=> Replacing) /\ (Rooted' <=> Rooted) /\ NewConf' = NewConf
      /\ cmd'.view = cmd.view
  BY <1>1, <1>2 DEF Replacing, Rooted, Initialized, Held, NewConf
<1>8. cmd'.done = {"conf"}
  BY <1>1, <1>2 DEF MoveInv, Preparing
<1>9. MoveInv'
  <2>1. cmd.pc = "confOut" => Replacing
    BY DEF MoveInv
  <2> QED
    BY <1>1, <1>2, <1>3, <1>7, <1>8, <2>1 DEF MoveInv
<1>10. ActiveInv'
  BY <1>3 DEF ActiveInv, Activated
<1>11. KeptInv'
  <2>1. "root" \notin cmd.done /\ (cmd.pc = "confOut" => "conf" \notin cmd.done)
    BY <1>1 DEF MoveInv, Preparing
  <2>2. cmd.pc = "confIn" => cmd.pc \in Aside /\ (Replacing => "conf" \in cmd.done)
    BY DEF MoveInv, Aside, Swapping
  <2>3. cmd'.pc \notin {"rbConf", "rbRoot", "rbUnits"}
    BY <1>3 DEF Swapping
  <2> QED
    BY <1>1, <1>2, <1>3, <1>7, <1>8, <2>1, <2>2, <2>3 DEF KeptInv
<1>12. UnitsInv'
  <2>1. cmd'.pc \notin Deleting \cup {"recheck"}
    BY <1>3 DEF Swapping, Deleting
  <2>2. flaws = {} => ~units.up
    BY <1>1 DEF UnitsInv, Swapping
  <2> QED
    BY <1>1, <1>3, <2>1, <2>2 DEF UnitsInv
<1>13. {root'.doc, oldRoot'.doc, snap'.root.doc} \subseteq Documents /\ Boxed' \subseteq Boxed
  BY <1>1 DEF Documents, Boxed
<1> QED
  BY <1>1, <1>2, <1>3, <1>4, <1>5, <1>6, <1>9, <1>10, <1>11, <1>12, <1>13, RestoreKeeps

(* The state is moved aside; the command remembers it as the prior one.    *)
LEMMA RootOutKeeps ==
  ASSUME DataInv, cmd.pc = "rootOut",
         cmd' = [cmd EXCEPT !.pc = "rootIn", !.done = @ \cup {"root"}, !.prior = root],
         oldRoot' = root, root' = NoRoot,
         UNCHANGED <<outcome, conf, oldConf, snap, archive, away, units, net, binary, cli, ids,
                     flaws, spent>>
  PROVE  DataInv'
<1> USE DEF DataInv, StaticInv
<1>1. /\ cmd'.pc = "rootIn" /\ Held /\ cmd'.done = cmd.done \cup {"root"} /\ cmd'.prior = root
      /\ cmd'.clean = cmd.clean /\ cmd' \in Cmds
  BY DEF DataType, Cmds, Held, Restoring, Swapping
<1>2. cmd.kind = "restore" /\ cmd'.kind = "restore" /\ cmd.done = {"conf"} /\ Replacing
      /\ cmd'.pc \in Restoring /\ cmd'.pc \in Swapping /\ cmd.pc \in Swapping
      /\ cmd'.pc \notin Preparing \cup Activated /\ cmd.pc \notin Activated
      /\ cmd'.done = {"conf", "root"} /\ ~PurgesData
  BY <1>1 DEF CmdShape, Restoring, Swapping, Preparing, Activated, MoveInv, Held, PurgesData
<1>3. DataType' /\ Alongside
  BY <1>1, Nothing DEF DataType, Alongside
<1>4. TagInv'
  <2>1. Top' = Top /\ Top \in Nat /\ Top >= 1 /\ root'.tag = 0
    BY IdleFacts DEF Top, DataType
  <2>2. root.tag < Top /\ cli.tag < Top /\ snap.root.tag < Top /\ cmd.tag = Top
    BY <1>2 DEF TagInv
  <2>3. root.tag \in Nat /\ cli.tag \in Nat /\ snap.root.tag \in Nat
    BY DEF DataType, Roots, Clis
  <2> QED
    BY <1>1, <1>2, <2>1, <2>2, <2>3 DEF TagInv, Held
<1>5. TreeInv'
  <2>1. CliAgrees(root)' /\ Whole(root)'
    BY IdleFacts DEF CliAgrees, Whole
  <2>2. flaws = {} => Whole(root) /\ CliAgrees(root)
    BY <1>2 DEF TreeInv, Clean
  <2>3. (Whole(root) => Whole(oldRoot)') /\ (CliAgrees(root) => CliAgrees(oldRoot)')
    BY DEF CliAgrees, Whole
  <2> QED
    BY <2>1, <2>2, <2>3 DEF TreeInv
<1>6. MoveInv'
  <2>1. conf = NewConf /\ NewConf' = NewConf /\ Replacing'
    BY <1>1, <1>2 DEF MoveInv, NewConf, Held, Replacing
  <2> QED
    BY <1>1, <1>2, <2>1 DEF MoveInv
<1>7. ActiveInv'
  BY <1>2 DEF ActiveInv, Activated
<1>8. KeptInv'
  <2>1. Replacing' /\ cmd'.view = cmd.view
    BY <1>1, <1>2 DEF Replacing, Held
  <2>2. ASSUME flaws = {}
        PROVE  /\ cmd.view.conf # NoConf /\ oldConf = cmd.view.conf
               /\ root.tag = cmd.view.conf.tag /\ root.doc # NoDoc
    <3>1. cmd.pc \in Aside /\ "root" \notin cmd.done
      BY <1>2 DEF Aside
    <3> QED
      BY <1>2, <2>2, <3>1 DEF KeptInv, Rooted, Initialized
  <2> QED
    BY <1>1, <1>2, <2>1, <2>2 DEF KeptInv
<1>9. UnitsInv'
  <2>1. cmd'.pc \notin Deleting \cup {"recheck"}
    BY <1>1 DEF Deleting
  <2>2. flaws = {} => ~units.up
    BY <1>2 DEF UnitsInv
  <2> QED
    BY <1>2, <2>1, <2>2 DEF UnitsInv
<1>10. {root'.doc, oldRoot'.doc, snap'.root.doc} \subseteq Documents /\ Boxed' \subseteq Boxed
  BY IdleFacts DEF Documents, Boxed
<1> QED
  BY <1>1, <1>2, <1>3, <1>4, <1>5, <1>6, <1>7, <1>8, <1>9, <1>10, RestoreKeeps

(* The archive's state is put in its place: no client command has read it. *)
LEMMA RootInKeeps ==
  ASSUME DataInv, cmd.pc = "rootIn",
         cmd' = [cmd EXCEPT !.pc = "start", !.done = @ \cup {"root"}], root' = StagedRoot,
         UNCHANGED <<outcome, conf, oldConf, oldRoot, snap, archive, away, units, net, binary, cli,
                     ids, flaws, spent>>
  PROVE  DataInv'
<1> USE DEF DataInv, StaticInv
<1>1. /\ cmd'.pc = "start" /\ Held /\ cmd'.done = cmd.done \cup {"root"} /\ cmd'.prior = cmd.prior
      /\ cmd'.clean = cmd.clean /\ cmd' \in Cmds
  BY DEF DataType, Cmds, Held, Restoring, Activated
<1>2. cmd.kind = "restore" /\ cmd'.kind = "restore"
      /\ cmd'.pc \in Restoring /\ cmd'.pc \in Activated /\ cmd.pc \in Swapping
      /\ cmd'.pc \notin Preparing \cup Swapping /\ cmd.pc \in Restoring
      /\ cmd'.done = {"conf", "root"} /\ ~PurgesData
  BY <1>1 DEF CmdShape, Restoring, Swapping, Preparing, Activated, MoveInv, Held, PurgesData
<1>3. /\ root'.tag = cmd.tag /\ root'.doc = cmd.load.doc /\ root'.secrets = cmd.load.secrets
      /\ root'.boxes = {} /\ root' \in Roots
  BY BoxesFacts DEF StagedRoot, DataType, Cmds, Contents, Roots
<1>4. DataType' /\ Alongside
  BY <1>1, <1>3 DEF DataType, Alongside
<1>5. cmd.tag = Top /\ cli.tag < Top /\ oldRoot.tag < Top /\ Top \in Nat
      /\ cli.tag \in Nat /\ oldRoot.tag \in Nat
  BY <1>2 DEF TagInv, Top, DataType, Clis, Roots
<1>6. TagInv'
  <2>1. Top' = Top
    BY DEF Top
  <2> QED
    BY <1>1, <1>2, <1>3, <1>5, <2>1 DEF TagInv, Held
<1>7. cmd.load.doc # NoDoc /\ cmd.load.doc.has \subseteq cmd.load.secrets
  BY <1>2 DEF ArchiveInv
<1>8. TreeInv'
  <2>1. CliAgrees(root)' /\ Whole(root)' /\ oldRoot.tag # root'.tag
    BY <1>3, <1>5, <1>7 DEF CliAgrees, Whole
  <2>2. (Whole(oldRoot) => Whole(oldRoot)') /\ (CliAgrees(oldRoot) => CliAgrees(oldRoot)')
    BY DEF CliAgrees, Whole
  <2> QED
    BY <2>1, <2>2 DEF TreeInv
<1>9. MoveInv'
  <2>1. conf = NewConf /\ NewConf' = NewConf /\ Initialized'
    BY <1>1, <1>2, <1>3, <1>7 DEF MoveInv, NewConf, Held, Initialized
  <2> QED
    BY <1>1, <1>2, <1>3, <2>1 DEF MoveInv, Held, Swapping
<1>10. ActiveInv'
  BY <1>1 DEF ActiveInv
<1>11. KeptInv'
  <2>1. (Replacing' <=> Replacing) /\ cmd'.view = cmd.view
    BY <1>1 DEF Replacing, Held
  <2>2. cmd.pc \in Aside /\ (Replacing => cmd.done = {"conf", "root"}) /\ "conf" \in cmd.done
    BY DEF Aside, Swapping, MoveInv
  <2> QED
    BY <1>1, <1>2, <2>1, <2>2 DEF KeptInv
<1>12. UnitsInv'
  <2>1. cmd'.pc \notin Deleting \cup {"recheck"}
    BY <1>1 DEF Deleting
  <2>2. flaws = {} => ~units.up
    BY <1>2 DEF UnitsInv
  <2> QED
    BY <1>2, <2>1, <2>2 DEF UnitsInv
<1>13. {root'.doc, oldRoot'.doc, snap'.root.doc} \subseteq Documents /\ Boxed' \subseteq Boxed
  BY <1>3 DEF Documents, Boxed
<1> QED
  BY <1>1, <1>2, <1>4, <1>6, <1>8, <1>9, <1>10, <1>11, <1>12, <1>13, RestoreKeeps

(* The two renames of the state.                                           *)
LEMMA SwapRootKeeps == ASSUME DataInv, SwapRoot PROVE DataInv'
BY RootOutKeeps, RootInKeeps DEF SwapRoot, Reached, host, others

----------------------------------------------------------------------------
(* Commit                                                                  *)

(* The old configuration goes, or some of it is left and the commit fails. *)
LEMMA CommitConfKeeps == ASSUME DataInv, CommitConf PROVE DataInv'
<1> USE DEF DataInv, StaticInv
<1>1. /\ cmd.pc = "commitConf"
      /\ \/ oldConf' = NoConf /\ Step("commitRoot") /\ UNCHANGED spent
         \/ /\ Spend("mishaps") /\ Unclean("commitRoot")
            /\ oldConf' \in {oldConf, [oldConf EXCEPT !.made = FALSE]}
      /\ UNCHANGED <<conf, root, oldRoot, snap, archive, away, units, net, binary, cli, ids, flaws>>
  BY DEF CommitConf, Reached, Unclean, host, others
<1>2. /\ cmd'.pc = "commitRoot" /\ Held /\ cmd'.done = cmd.done /\ cmd'.prior = cmd.prior
      /\ cmd' \in Cmds /\ outcome' = outcome /\ (cmd'.clean => oldConf' = NoConf)
  BY <1>1, StepFacts, UncleanFacts DEF Steps, Restoring, Activated
<1>3. cmd.kind = "restore" /\ cmd'.kind = "restore" /\ cmd.pc \in Activated
      /\ cmd'.pc \in Activated /\ cmd'.pc \in Restoring /\ cmd'.pc \notin Preparing \cup Swapping
      /\ cmd'.pc \notin Aside /\ ~PurgesData
  BY <1>1, <1>2 DEF CmdShape, Restoring, Preparing, Swapping, Activated, Aside, Held, PurgesData
<1>4. DataType' /\ Alongside
  <2>1. oldConf' \in Confs
    BY <1>1, Nothing DEF DataType, Confs
  <2>2. Alongside
    BY <1>1, SpendFacts DEF Alongside, DataType
  <2> QED
    BY <1>1, <1>2, <2>1, <2>2 DEF DataType, Alongside
<1>5. TagInv'
  BY <1>1, <1>2, <1>3, <1>4, TagsKept
<1>6. TreeInv'
  BY <1>1, <1>3, TreesKept
<1>7. (Replacing' <=> Replacing) /\ NewConf' = NewConf /\ cmd'.view = cmd.view
      /\ (Initialized' <=> Initialized) /\ cmd'.tag = cmd.tag /\ cmd'.load = cmd.load
  BY <1>1, <1>2 DEF Replacing, Initialized, Held, NewConf
<1>8. MoveInv'
  BY <1>1, <1>2, <1>3, <1>7 DEF MoveInv, Preparing, Swapping
<1>9. ActiveInv'
  BY <1>1, <1>2, <1>7 DEF ActiveInv
<1>10. KeptInv'
  <2>1. cmd.done = {"conf", "root"}
    BY <1>3 DEF MoveInv
  <2> QED
    BY <1>1, <1>2, <1>3, <1>7, <2>1 DEF KeptInv
<1>11. UnitsInv'
  <2>1. cmd'.pc \notin Deleting \cup {"recheck"}
        /\ cmd'.pc \notin {"confOut", "start"} \cup Swapping \cup (RollingBack \ {"rbStop"})
    BY <1>2 DEF Deleting, Swapping, RollingBack
  <2> QED
    BY <1>1, <1>3, <1>7, <2>1 DEF UnitsInv
<1>12. {root'.doc, oldRoot'.doc, snap'.root.doc} \subseteq Documents /\ Boxed' \subseteq Boxed
  BY <1>1 DEF Documents, Boxed
<1> QED
  BY <1>1, <1>2, <1>3, <1>4, <1>5, <1>6, <1>8, <1>9, <1>10, <1>11, <1>12, RestoreKeeps

(* The old state goes too.  What was wrong before the restore is healed,   *)
(* unless a write went astray.                                             *)
LEMMA CommittedKeeps ==
  ASSUME DataInv, cmd.pc = "commitRoot", cmd.clean, oldRoot' = NoRoot, End("restored"),
         flaws' = flaws \cap {"stray"}, snap' = NoSnapshot,
         UNCHANGED <<conf, root, oldConf, archive, away, units, net, binary, cli, ids, spent>>
  PROVE  DataInv'
<1> USE DEF DataInv, StaticInv
<1>1. cmd' = Idle /\ outcome' \in Outcomes
  BY EndFacts DEF Outcomes
<1>2. cmd.kind = "restore" /\ cmd.pc \in Activated /\ ~PurgesData
  BY DEF CmdShape, Restoring, Activated, PurgesData
<1>3. /\ CmdShape' /\ CopyInv' /\ MoveInv' /\ ActiveInv' /\ KeptInv' /\ RemovalInv'
      /\ ~PurgesData'
      /\ cmd'.pc \notin Restoring /\ cmd'.pc \notin Copying /\ cmd'.kind = "none"
      /\ cmd'.pc \notin Reviewing \cup Deleting
  BY <1>1, IdleOff
<1>4. /\ snap' \in [conf : Confs, root : Roots] /\ snap'.root.doc = NoDoc
      /\ snap'.root.boxes = {} /\ snap'.root.tag = 0
  BY Nothing, IdleFacts DEF NoSnapshot
<1>5. DataType'
  BY <1>1, <1>4, Nothing DEF DataType
<1>6. DocInv'
  <2>1. DocOK(NoDoc, ids)
    BY IdleFacts DEF DocOK
  <2> QED
    BY <1>1, <1>4, <2>1, IdleFacts DEF DocInv
<1>7. ArchiveInv'
  <2>1. Boxed' \subseteq Boxed
    BY <1>4, IdleFacts DEF Boxed
  <2> QED
    BY <1>1, <1>3, <2>1, IdleFacts DEF ArchiveInv, ArchiveComplete
<1>8. TagInv'
  BY <1>3, <1>4, IdleFacts DEF TagInv, Top, DataType, Restoring
<1>9. CliShape'
  BY DEF CliShape
<1>10. TreeInv'
  <2>1. "stray" \notin flaws' => Whole(root) /\ CliAgrees(root)
    BY <1>2 DEF TreeInv, Clean
  <2>2. CliAgrees(root) => CliAgrees(root)'
    BY DEF CliAgrees
  <2>3. CliAgrees(oldRoot)' /\ Whole(oldRoot)'
    BY IdleFacts DEF CliAgrees, Whole
  <2>4. flaws' = {} => "stray" \notin flaws'
    OBVIOUS
  <2> QED
    BY <2>1, <2>2, <2>3, <2>4 DEF TreeInv, Clean, Whole
<1>11. UnitsInv'
  <2>1. conf.tag = root.tag /\ Initialized
    BY <1>2 DEF MoveInv, NewConf
  <2>2. cmd'.pc \notin Deleting \cup {"recheck"}
        /\ cmd'.pc \notin {"confOut", "start"} \cup Swapping \cup (RollingBack \ {"rbStop"})
    BY <1>3 DEF Reviewing, Restoring, Preparing, Activated
  <2> QED
    BY <2>1, <2>2 DEF UnitsInv, Initialized
<1> QED
  BY <1>3, <1>5, <1>6, <1>7, <1>8, <1>9, <1>10, <1>11

(* A commit that fails is rolled back: what is left of the old trees is    *)
(* no longer claimed.                                                      *)
LEMMA UncommittedKeeps ==
  ASSUME DataInv, cmd.pc = "commitRoot", Step("rbStop") \/ Unclean("rbStop"), Alongside,
         oldRoot' \in Roots, oldRoot'.tag \in {oldRoot.tag, 0}, oldRoot'.doc \in {oldRoot.doc, NoDoc},
         oldRoot'.boxes \subseteq oldRoot.boxes, flaws' = flaws \cup {"commit"},
         UNCHANGED <<conf, root, oldConf, snap, archive, away, units, net, binary>>
  PROVE  DataInv'
<1> USE DEF DataInv, StaticInv
<1>1. /\ cmd'.pc = "rbStop" /\ Held /\ cmd'.done = cmd.done /\ cmd' \in Cmds /\ outcome' = outcome
  BY StepFacts, UncleanFacts DEF Steps, Restoring, RollingBack
<1>2. cmd.kind = "restore" /\ cmd'.pc \in Restoring
      /\ cmd'.pc \notin Preparing \cup Swapping \cup Activated
      /\ cmd'.pc \notin Deleting \cup {"recheck"}
  BY <1>1 DEF CmdShape, Restoring, Preparing, Swapping, Activated, RollingBack, Deleting
<1>3. DataType' /\ flaws' # {}
  BY <1>1 DEF DataType, Alongside
<1>4. TagInv'
  BY <1>1, <1>2, TagsKept
<1>5. TreeInv'
  BY <1>2, <1>3 DEF TreeInv, Clean
<1>6. MoveInv' /\ ActiveInv' /\ KeptInv'
  <2>1. cmd.done = {"conf", "root"}
    BY DEF MoveInv, Activated
  <2> QED
    BY <1>1, <1>2, <1>3, <2>1 DEF MoveInv, ActiveInv, KeptInv, Preparing, Swapping, Activated
<1>7. UnitsInv'
  BY <1>2, <1>3 DEF UnitsInv
<1>8. {root'.doc, oldRoot'.doc, snap'.root.doc} \subseteq Documents /\ Boxed' \subseteq Boxed
  BY DEF Documents, Boxed
<1> QED
  BY <1>1, <1>2, <1>3, <1>4, <1>5, <1>6, <1>7, <1>8, RestoreKeeps

(* Both old trees are gone, or the commit has failed.                      *)
LEMMA CommitRootKeeps == ASSUME DataInv, CommitRoot PROVE DataInv'
<1> USE DEF DataInv, StaticInv
<1>1. /\ cmd.pc = "commitRoot"
      /\ \/ /\ oldRoot' = NoRoot /\ UNCHANGED spent
            /\ IF cmd.clean THEN End("restored") /\ flaws' = flaws \cap {"stray"}
                            ELSE Step("rbStop") /\ flaws' = flaws \cup {"commit"}
         \/ /\ Spend("mishaps") /\ Unclean("rbStop") /\ flaws' = flaws \cup {"commit"}
            /\ oldRoot' \in {oldRoot, [oldRoot EXCEPT !.secrets = {}]}
      /\ snap' = IF cmd' = Idle THEN NoSnapshot ELSE snap
      /\ UNCHANGED <<conf, root, oldConf, archive, away, units, net, binary, cli, ids>>
  BY DEF CommitRoot, Reached, Unclean, host, others
<1>2. CASE oldRoot' = NoRoot /\ UNCHANGED spent /\ End("restored") /\ flaws' = flaws \cap {"stray"}
           /\ cmd.clean
  <2>1. snap' = NoSnapshot
    BY <1>1, <1>2 DEF End
  <2> QED
    BY <1>1, <1>2, <2>1, CommittedKeeps
<1>3. CASE (Step("rbStop") \/ Unclean("rbStop")) /\ flaws' = flaws \cup {"commit"}
           /\ (UNCHANGED spent \/ Spend("mishaps"))
           /\ oldRoot' \in {NoRoot, oldRoot, [oldRoot EXCEPT !.secrets = {}]}
  <2>1. cmd'.pc = "rbStop" /\ Alongside
    BY <1>1, <1>3, StepFacts, UncleanFacts, SpendFacts
       DEF Steps, Restoring, RollingBack, Alongside, DataType
  <2>2. UNCHANGED snap
    BY <1>1, <2>1, IdleFacts
  <2>3. /\ oldRoot' \in Roots /\ oldRoot'.tag \in {oldRoot.tag, 0}
        /\ oldRoot'.doc \in {oldRoot.doc, NoDoc} /\ oldRoot'.boxes \subseteq oldRoot.boxes
    <3>1. oldRoot \in Roots
      BY DEF DataType
    <3>2. CASE oldRoot' = NoRoot
      BY <3>2, Nothing, IdleFacts
    <3>3. CASE oldRoot' = oldRoot
      BY <3>1, <3>3
    <3>4. CASE oldRoot' = [oldRoot EXCEPT !.secrets = {}]
      BY <3>1, <3>4 DEF Roots
    <3> QED
      BY <1>3, <3>2, <3>3, <3>4
  <2> QED
    BY <1>1, <1>3, <2>1, <2>2, <2>3, UncommittedKeeps
<1> QED
  BY <1>1, <1>2, <1>3

----------------------------------------------------------------------------
(* Rollback                                                                *)

(* Rollback leaves the trees where they are until the services are down.   *)
LEMMA RollbackOn ==
  ASSUME DataInv, cmd.pc \in {"rbStop", "rbNet"}, NEW p \in {"rbNet", "rbConf"},
         Step(p) \/ Unclean(p), Alongside,
         UNCHANGED <<conf, root, oldConf, oldRoot, snap, archive, away, binary>>,
         flaws' \in {flaws, flaws \cup {"rollback"}}, units' \in UnitTypes, net' \in Nat,
         units'.up => units'.files, flaws' = {} => ~units'.up,
         p = "rbConf" /\ cmd'.clean => net' = cmd.net
  PROVE  DataInv'
<1> USE DEF DataInv, StaticInv
<1>1. /\ cmd'.pc = p /\ Held /\ cmd'.done = cmd.done /\ cmd'.prior = cmd.prior
      /\ cmd'.net = cmd.net /\ cmd' \in Cmds /\ outcome' = outcome
  BY StepFacts, UncleanFacts DEF Steps, Restoring, RollingBack
<1>2. DataType' /\ flaws \subseteq flaws'
  BY <1>1 DEF Alongside, DataType, UnitTypes
<1>3. cmd.kind = "restore" /\ cmd'.kind = "restore" /\ cmd'.pc \in Restoring
      /\ cmd'.pc \notin Preparing \cup Swapping \cup Activated
      /\ cmd'.pc \notin Deleting \cup {"recheck"} /\ cmd.pc \in Aside
      /\ cmd'.pc \notin {"rbRoot", "rbUnits"}
  BY <1>1 DEF CmdShape, Restoring, Preparing, Swapping, Activated, RollingBack, Deleting, Held, Aside
<1>4. MoveInv' /\ ActiveInv'
  BY <1>1, <1>3 DEF MoveInv, ActiveInv, Preparing, Swapping, Activated, Held
<1>5. UnitsInv'
  BY <1>3 DEF UnitsInv
<1>6. snap'.root.doc \in Documents /\ snap'.root.boxes \subseteq Boxed
  BY DEF Documents, Boxed
<1> QED
  BY <1>1, <1>2, <1>3, <1>4, <1>5, <1>6, SameTrees

(* The rollback stops the services.                                        *)
LEMMA RollbackStopKeeps == ASSUME DataInv, RollbackStop PROVE DataInv'
<1> USE DEF DataInv, StaticInv
<1>1. /\ cmd.pc = "rbStop"
      /\ \/ /\ Step("rbNet") /\ units' = [units EXCEPT !.up = FALSE] /\ UNCHANGED <<flaws, spent>>
         \/ ~units.files /\ Unclean("rbNet") /\ UNCHANGED <<units, flaws, spent>>
         \/ /\ Spend("mishaps") /\ Unclean("rbNet") /\ UNCHANGED units
            /\ flaws' = flaws \cup {"rollback"}
      /\ UNCHANGED <<conf, root, oldConf, oldRoot, snap, archive, away, net, binary, cli, ids>>
  BY DEF RollbackStop, Reached, trees, others
<1>2. Alongside /\ net' \in Nat /\ units \in UnitTypes /\ (units.up => units.files)
  BY <1>1, SpendFacts DEF Alongside, DataType, UnitTypes, UnitsInv
<1>3. CASE Step("rbNet") /\ units' = [units EXCEPT !.up = FALSE] /\ UNCHANGED <<flaws, spent>>
  <2>1. units' \in UnitTypes /\ units'.up = FALSE
    BY <1>2, <1>3, UnitsUp
  <2> QED
    BY <1>1, <1>2, <1>3, <2>1, RollbackOn
<1>4. CASE ~units.files /\ Unclean("rbNet") /\ UNCHANGED <<units, flaws, spent>>
  BY <1>1, <1>2, <1>4, RollbackOn
<1>5. CASE Unclean("rbNet") /\ UNCHANGED units /\ flaws' = flaws \cup {"rollback"}
  BY <1>1, <1>2, <1>5, RollbackOn
<1> QED
  BY <1>1, <1>3, <1>4, <1>5

(* The rollback puts the former firewall in force.                         *)
LEMMA RollbackNetKeeps == ASSUME DataInv, RollbackNet PROVE DataInv'
<1> USE DEF DataInv, StaticInv
<1>1. /\ cmd.pc = "rbNet"
      /\ \/ net' = cmd.net /\ Step("rbConf") /\ UNCHANGED spent
         \/ Spend("mishaps") /\ Unclean("rbConf") /\ UNCHANGED net
      /\ UNCHANGED <<conf, root, oldConf, oldRoot, snap, archive, away, units, binary, cli, ids, flaws>>
  BY DEF RollbackNet, Reached, trees, others
<1>2. Alongside /\ net' \in Nat /\ units' \in UnitTypes /\ (units'.up => units'.files)
  BY <1>1, SpendFacts DEF Alongside, DataType, UnitTypes, UnitsInv, Cmds
<1>3. flaws = {} => ~units.up
  BY <1>1 DEF UnitsInv, RollingBack
<1>4. cmd'.clean => net' = cmd.net
  BY <1>1, UncleanFacts DEF Steps, Restoring, RollingBack
<1>5. Step("rbConf") \/ Unclean("rbConf")
  BY <1>1
<1> QED
  BY <1>1, <1>2, <1>3, <1>4, <1>5, RollbackOn

(* The former configuration is put back.                                   *)
LEMMA RollbackConfKeeps == ASSUME DataInv, RollbackConf PROVE DataInv'
<1> USE DEF DataInv, StaticInv
<1>1. /\ cmd.pc = "rbConf"
      /\ \/ /\ Step("rbRoot") /\ UNCHANGED <<flaws, spent>>
            /\ IF "conf" \in cmd.done
                 THEN /\ conf' = IF Replacing THEN Former(oldConf, NoConf, snap.conf) ELSE NoConf
                      /\ oldConf' = NoConf
                 ELSE UNCHANGED <<conf, oldConf>>
         \/ /\ Spend("mishaps") /\ Unclean("rbRoot") /\ flaws' = flaws \cup {"rollback"}
            /\ conf' \in {conf, NoConf} /\ UNCHANGED oldConf
      /\ UNCHANGED <<root, oldRoot, snap, archive, away, units, net, binary, cli, ids>>
  BY DEF RollbackConf, Reached, host, others
<1>2. /\ cmd'.pc = "rbRoot" /\ Held /\ cmd'.done = cmd.done /\ cmd'.prior = cmd.prior
      /\ cmd'.net = cmd.net /\ cmd' \in Cmds /\ outcome' = outcome /\ (cmd'.clean => cmd.clean)
  BY <1>1, StepFacts, UncleanFacts DEF Steps, Restoring, RollingBack
<1>3. cmd.kind = "restore" /\ cmd'.kind = "restore" /\ cmd'.pc \in Restoring
      /\ cmd'.pc \notin Preparing \cup Swapping \cup Activated
      /\ cmd'.pc \notin Deleting \cup {"recheck"} /\ ~PurgesData
  BY <1>1, <1>2 DEF CmdShape, Restoring, Preparing, Swapping, Activated, RollingBack, Deleting, Held,
     PurgesData
<1>4. Alongside /\ (flaws' = {} => flaws = {}) /\ flaws' \subseteq flaws \cup {"rollback"}
  BY <1>1, SpendFacts DEF Alongside, DataType
<1>5. DataType'
  <2>1. conf' \in Confs /\ oldConf' \in Confs
    BY <1>1, Nothing DEF DataType, Former
  <2> QED
    BY <1>1, <1>2, <1>4, <2>1 DEF DataType, Alongside
<1>6. TagInv'
  BY <1>1, <1>2, <1>3, <1>4, TagsKept
<1>7. TreeInv'
  <2>1. CASE flaws' = flaws
    BY <1>1, <1>3, <2>1, TreesKept
  <2>2. CASE flaws' = flaws \cup {"rollback"}
    BY <1>3, <2>2 DEF TreeInv, Clean
  <2> QED
    BY <1>1, <2>1, <2>2
<1>8. MoveInv' /\ ActiveInv'
  BY <1>2, <1>3 DEF MoveInv, ActiveInv, Preparing, Swapping, Activated, Held
<1>9. (Replacing' <=> Replacing) /\ (Rooted' <=> Rooted) /\ cmd'.view = cmd.view
  BY <1>1, <1>2 DEF Replacing, Rooted, Initialized, Held
<1>10. KeptInv'
  <2>1. ASSUME flaws' = {} PROVE conf' = cmd.view.conf
    <3>1. UNCHANGED <<flaws, spent>> /\ flaws = {}
      BY <1>1, <1>4, <2>1
    <3>2. CASE "conf" \notin cmd.done
      BY <1>1, <1>3, <2>1, <3>1, <3>2 DEF KeptInv
    <3>3. CASE "conf" \in cmd.done /\ Replacing
      <4>1. oldConf = cmd.view.conf /\ oldConf # NoConf
        BY <1>1, <1>3, <3>1, <3>3 DEF KeptInv
      <4> QED
        BY <1>1, <2>1, <3>3, <4>1 DEF Former
    <3>4. CASE "conf" \in cmd.done /\ ~Replacing
      BY <1>1, <1>3, <2>1, <3>1, <3>4 DEF KeptInv
    <3> QED
      BY <3>2, <3>3, <3>4
  <2>2. cmd'.pc \notin Aside \cup {"rbConf", "rbUnits"}
    BY <1>2 DEF Aside, Swapping
  <2> QED
    BY <1>1, <1>2, <1>3, <1>4, <1>9, <2>1, <2>2 DEF KeptInv
<1>11. UnitsInv'
  <2>1. flaws' = {} => ~units.up
    BY <1>1, <1>4 DEF UnitsInv, RollingBack
  <2> QED
    BY <1>1, <1>3, <2>1 DEF UnitsInv
<1>12. {root'.doc, oldRoot'.doc, snap'.root.doc} \subseteq Documents /\ Boxed' \subseteq Boxed
  BY <1>1 DEF Documents, Boxed
<1> QED
  BY <1>1, <1>2, <1>3, <1>4, <1>5, <1>6, <1>7, <1>8, <1>10, <1>11, <1>12, RestoreKeeps

(* The former state is put back: nobody has written to it while it was     *)
(* aside.                                                                  *)
LEMMA RollbackRootKeeps == ASSUME DataInv, RollbackRoot PROVE DataInv'
<1> USE DEF DataInv, StaticInv
<1>1. /\ cmd.pc = "rbRoot"
      /\ \/ /\ Step("rbUnits") /\ UNCHANGED <<flaws, spent>>
            /\ IF "root" \in cmd.done
                 THEN /\ root' = IF Replacing THEN Former(oldRoot, NoRoot, snap.root) ELSE NoRoot
                      /\ oldRoot' = NoRoot
                 ELSE UNCHANGED <<root, oldRoot>>
         \/ /\ Spend("mishaps") /\ Unclean("rbUnits") /\ flaws' = flaws \cup {"rollback"}
            /\ root' \in {root, NoRoot} /\ UNCHANGED oldRoot
      /\ UNCHANGED <<conf, oldConf, snap, archive, away, units, net, binary, cli, ids>>
  BY DEF RollbackRoot, Reached, host, others
<1>2. /\ cmd'.pc = "rbUnits" /\ Held /\ cmd'.done = cmd.done /\ cmd'.prior = cmd.prior
      /\ cmd'.net = cmd.net /\ cmd' \in Cmds /\ outcome' = outcome /\ (cmd'.clean => cmd.clean)
  BY <1>1, StepFacts, UncleanFacts DEF Steps, Restoring, RollingBack
<1>3. cmd.kind = "restore" /\ cmd'.kind = "restore" /\ cmd'.pc \in Restoring
      /\ cmd'.pc \notin Preparing \cup Swapping \cup Activated /\ cmd.pc \notin Activated
      /\ cmd'.pc \notin Deleting \cup {"recheck"} /\ ~PurgesData
  BY <1>1, <1>2 DEF CmdShape, Restoring, Preparing, Swapping, Activated, RollingBack, Deleting, Held,
     PurgesData
<1>4. Alongside /\ (flaws' = {} => flaws = {}) /\ flaws' \subseteq flaws \cup {"rollback"}
  BY <1>1, SpendFacts DEF Alongside, DataType
<1>5. root' \in {root, NoRoot, oldRoot, snap.root} /\ oldRoot' \in {oldRoot, NoRoot}
  BY <1>1 DEF Former
<1>6. DataType'
  <2>1. root' \in Roots /\ oldRoot' \in Roots
    BY <1>5, Nothing DEF DataType
  <2> QED
    BY <1>1, <1>2, <1>4, <2>1 DEF DataType, Alongside
<1>7. TagInv'
  BY <1>1, <1>2, <1>3, <1>4, <1>5, IdleFacts, TagsKept
<1>8. (Replacing' <=> Replacing) /\ cmd'.view = cmd.view
  BY <1>2 DEF Replacing, Held
(* What is in place now, if nothing has gone wrong.                        *)
<1>9. ASSUME flaws' = {}
      PROVE  /\ flaws = {} /\ (~Replacing => root' = NoRoot)
             /\ Replacing /\ "root" \notin cmd.done => UNCHANGED <<root, oldRoot>>
             /\ Replacing /\ "root" \in cmd.done =>
                  root' = oldRoot /\ oldRoot = cmd.prior /\ oldRoot' = NoRoot
                  /\ cmd.prior.tag = cmd.view.conf.tag /\ cmd.prior.doc # NoDoc
  <2>1. flaws = {} /\ UNCHANGED flaws
    BY <1>1, <1>4, <1>9
  <2>2. CASE ~Replacing
    BY <1>1, <1>3, <1>9, <2>1, <2>2 DEF KeptInv
  <2>3. CASE Replacing /\ "root" \notin cmd.done
    BY <1>1, <1>9, <2>1, <2>3
  <2>4. CASE Replacing /\ "root" \in cmd.done
    <3>1. oldRoot = cmd.prior /\ cmd.prior.tag = cmd.view.conf.tag /\ cmd.prior.doc # NoDoc
      BY <1>1, <1>3, <2>1, <2>4 DEF KeptInv
    <3>2. oldRoot # NoRoot
      BY <3>1, IdleFacts
    <3> QED
      BY <1>1, <1>9, <2>1, <2>4, <3>1, <3>2 DEF Former
  <2> QED
    BY <2>1, <2>2, <2>3, <2>4
<1>10. TreeInv'
  <2>1. CASE flaws' # {}
    BY <1>3, <2>1 DEF TreeInv, Clean
  <2>2. CASE flaws' = {}
    <3>1. Whole(root) /\ CliAgrees(root) /\ Whole(oldRoot) /\ CliAgrees(oldRoot)
          /\ (oldRoot # NoRoot /\ root # NoRoot => oldRoot.tag # root.tag)
      BY <1>3, <1>9, <2>2 DEF TreeInv, Clean
    <3>2. oldRoot' = NoRoot \/ root' = NoRoot \/ UNCHANGED <<root, oldRoot>>
      BY <1>9, <2>2
    <3>3. Whole(root)' /\ CliAgrees(root)'
      <4>1. root' \in {root, oldRoot, NoRoot}
        BY <1>9, <2>2
      <4> QED
        BY <1>1, <3>1, <4>1, IdleFacts DEF Whole, CliAgrees
    <3>4. Whole(oldRoot)' /\ CliAgrees(oldRoot)'
      BY <1>1, <1>5, <3>1, IdleFacts DEF Whole, CliAgrees
    <3> QED
      BY <3>1, <3>2, <3>3, <3>4 DEF TreeInv
  <2> QED
    BY <2>1, <2>2
<1>11. MoveInv' /\ ActiveInv'
  BY <1>2, <1>3 DEF MoveInv, ActiveInv, Preparing, Swapping, Activated, Held
<1>12. KeptInv'
  <2>1. cmd'.pc \notin Aside \cup {"rbConf", "rbRoot"}
    BY <1>2 DEF Aside, Swapping
  <2>2. ASSUME flaws' = {}
        PROVE  /\ conf' = cmd.view.conf
               /\ ~Replacing => cmd.view.conf = NoConf /\ cmd.prior = NoRoot
               /\ Replacing => cmd.view.conf # NoConf
               /\ Replacing /\ "root" \notin cmd.done => Rooted' /\ cmd.prior = NoRoot
               /\ cmd.clean => net' = cmd.net
    BY <1>1, <1>2, <1>3, <1>8, <1>9, <2>2 DEF KeptInv, Rooted, Initialized
  <2>3. ASSUME flaws' = {}, Replacing, "root" \in cmd.done
        PROVE  Rooted' /\ Continued(cmd.prior, root)'
    <3>1. root' = cmd.prior /\ cmd.prior.doc.gen \in Nat /\ cmd'.prior = cmd.prior
      BY <1>2, <1>9, <2>3 DEF DataType, Cmds, Roots, Docs
    <3> QED
      BY <1>8, <1>9, <2>3, <3>1 DEF Rooted, Initialized, Continued
  <2> QED
    BY <1>2, <1>3, <1>8, <1>9, <2>1, <2>2, <2>3 DEF KeptInv
<1>13. UnitsInv'
  <2>1. flaws' = {} => ~units.up
    BY <1>1, <1>4 DEF UnitsInv, RollingBack
  <2> QED
    BY <1>1, <1>3, <2>1 DEF UnitsInv
<1>14. {root'.doc, oldRoot'.doc, snap'.root.doc} \subseteq Documents /\ Boxed' \subseteq Boxed
  BY <1>1, <1>5, IdleFacts DEF Documents, Boxed
<1> QED
  BY <1>1, <1>2, <1>3, <1>4, <1>6, <1>7, <1>10, <1>11, <1>12, <1>13, <1>14, RestoreKeeps

(* The services are back only if both trees are.                           *)
LEMMA RollbackUnitsKeeps == ASSUME DataInv, RollbackUnits PROVE DataInv'
<1> USE DEF DataInv, StaticInv
<1>1. /\ cmd.pc = "rbUnits"
      /\ \/ /\ units' = [files |-> cmd.units, on |-> (Replacing /\ cmd.units) \/ units.on,
                         up |-> (Replacing /\ cmd.units) /\ conf.made /\ Initialized]
            /\ (End("rolled back") \/ End("failed")) /\ UNCHANGED spent
         \/ /\ Spend("mishaps") /\ End("failed")
            /\ units' = [files |-> cmd.units, on |-> units.on, up |-> FALSE]
      /\ snap' = NoSnapshot
      /\ UNCHANGED <<conf, root, oldConf, oldRoot, archive, away, net, binary, cli, ids, flaws>>
  BY DEF RollbackUnits, Reached, others
<1>2. cmd' = Idle /\ outcome' \in Outcomes
  BY <1>1, EndFacts DEF Outcomes
<1>3. spent' \in [commands : Nat, writes : Nat, mishaps : Nat] /\ spent'.commands = spent.commands
  BY <1>1, SpendFacts DEF DataType
<1>4. units' \in UnitTypes /\ (units'.up => units'.files /\ Initialized)
  <2>1. /\ cmd.units \in BOOLEAN /\ units.on \in BOOLEAN
        /\ ((Replacing /\ cmd.units) \/ units.on) \in BOOLEAN
        /\ ((Replacing /\ cmd.units) /\ conf.made /\ Initialized) \in BOOLEAN
    BY DEF DataType, Cmds
  <2>2. ASSUME NEW f \in BOOLEAN, NEW o \in BOOLEAN, NEW u \in BOOLEAN,
               units' = [files |-> f, on |-> o, up |-> u]
        PROVE  units' \in UnitTypes /\ units'.files = f /\ units'.up = u
    BY <2>2 DEF UnitTypes
  <2>3. CASE units' = [files |-> cmd.units, on |-> (Replacing /\ cmd.units) \/ units.on,
                       up |-> (Replacing /\ cmd.units) /\ conf.made /\ Initialized]
    <3>1. units' \in UnitTypes /\ units'.files = cmd.units
          /\ units'.up = ((Replacing /\ cmd.units) /\ conf.made /\ Initialized)
      BY <2>1, <2>2, <2>3
    <3> QED
      BY <3>1
  <2>4. CASE units' = [files |-> cmd.units, on |-> units.on, up |-> FALSE]
    BY <2>1, <2>2, <2>4
  <2> QED
    BY <1>1, <2>3, <2>4
<1>5. cmd.pc \notin HalfSteps /\ conf \in Confs /\ root \in Roots /\ net \in Nat /\ binary \in BOOLEAN
  BY <1>1 DEF HalfSteps, Swapping, DataType
<1> QED
  BY <1>1, <1>2, <1>3, <1>4, <1>5, EndsKeep DEF UnitTypes

----------------------------------------------------------------------------
(* uninstall and purge                                                     *)

(* A step within a removal makes no document and no archive.               *)
LEMMA RemovalKeeps ==
  ASSUME DataInv, cmd.pc \in Reviewing \cup Deleting, cmd'.pc \in Reviewing \cup Deleting, Held,
         cmd'.pc \in {"data", "backups", "secrets", "doc"} => cmd.kind = "purge", Alongside, DataType',
         UNCHANGED <<oldConf, oldRoot, snap, archive, away, flaws>>,
         root'.tag \in {root.tag, 0}, root'.doc \in {root.doc, NoDoc}, root'.boxes \subseteq root.boxes,
         TreeInv', UnitsInv', RemovalInv'
  PROVE  DataInv'
<1> USE DEF DataInv, StaticInv
<1>1. (Reviewing \cup Deleting) \cap (Restoring \cup Copying \cup {"idle"}) = {}
  BY DEF Copying, Restoring, Preparing, Swapping, Activated, RollingBack, Reviewing, Deleting
<1>2. cmd.kind \in {"uninstall", "purge"} /\ cmd'.kind = cmd.kind
      /\ cmd'.pc \notin Restoring /\ cmd'.pc \notin Copying /\ cmd'.pc # "idle"
  BY <1>1 DEF CmdShape, Held
<1>3. CmdShape'
  BY <1>2 DEF CmdShape
<1>4. DocInv'
  <2>1. DocOK(NoDoc, ids)
    BY IdleFacts DEF DocOK
  <2> QED
    BY <2>1 DEF DocInv, Held, Alongside
<1>5. ArchiveInv'
  <2>1. Boxed' \subseteq Boxed
    BY DEF Boxed
  <2> QED
    BY <1>2, <2>1 DEF ArchiveInv, ArchiveComplete
<1>6. TagInv'
  BY <1>2 DEF TagInv, Top, Alongside, DataType, Restoring
<1>7. CliShape' /\ CopyInv'
  BY <1>2 DEF CliShape, Alongside, CopyInv, Copying
<1> QED
  BY <1>2, <1>3, <1>4, <1>5, <1>6, <1>7, OffRestore

(* A step of a removal before it deletes data.                             *)
LEMMA RemovalOn ==
  ASSUME DataInv, cmd.pc \in Reviewing \cup {"net", "runtime"},
         NEW p \in {"gate", "halt", "recheck", "net", "runtime", "data", "binary"}, Step(p), Alongside,
         UNCHANGED <<root, oldConf, oldRoot, snap, archive, away, binary, flaws>>,
         conf' \in Confs, conf'.tag = conf.tag, units' \in UnitTypes, net' \in Nat,
         units'.up => units.up /\ units'.files,
         p \in Deleting \cup {"recheck"} => ~units'.up /\ ~units'.on,
         p = "data" => cmd.kind = "purge", RemovalInv'
  PROVE  DataInv'
<1> USE DEF DataInv, StaticInv
<1>1. cmd'.pc = p /\ Held /\ cmd' \in Cmds /\ outcome' = outcome
  BY StepFacts DEF Steps, Reviewing, Deleting
<1>2. cmd'.pc \in Reviewing \cup Deleting /\ cmd.pc \in Reviewing \cup Deleting
      /\ ~PurgesData /\ ~PurgesData' /\ cmd'.pc \notin Activated
      /\ cmd'.pc \notin {"confOut", "start"} \cup Swapping \cup (RollingBack \ {"rbStop"})
  BY <1>1 DEF Reviewing, Deleting, PurgesData, Activated, Swapping, RollingBack
<1>3. cmd.kind # "restore"
  BY <1>2 DEF CmdShape, Reviewing, Deleting
<1>4. DataType'
  BY <1>1 DEF DataType, Alongside, UnitTypes
<1>5. TreeInv'
  BY <1>2, TreesKept DEF Alongside
<1>6. UnitsInv'
  BY <1>1, <1>2, <1>3 DEF UnitsInv, Initialized
<1> QED
  BY <1>1, <1>2, <1>4, <1>5, <1>6, RemovalKeeps

(* A removal that does not continue ends as it stands.                     *)
LEMMA StaleKeeps ==
  ASSUME DataInv, End("stale"), cmd.pc \notin HalfSteps, UNCHANGED <<conf, root, oldConf, oldRoot, snap,
         archive, away, units, net, binary, cli, ids, flaws, spent>>
  PROVE  DataInv'
BY EndFacts, EndKeeps DEF Outcomes, DataInv, DataType, UnitsInv

(* The checks of a removal: the last one finds the state under review.     *)
LEMMA ReviewKeeps ==
  ASSUME DataInv, RemovalReview \/ StopGate \/ StopRecheck PROVE DataInv'
<1> USE DEF DataInv, StaticInv
<1>1. /\ UNCHANGED <<conf, root, oldConf, oldRoot, snap, archive, away, units, net, binary, cli, ids,
                     flaws, spent>>
      /\ \/ cmd.pc \in {"review", "gate", "recheck"} /\ End("stale")
         \/ cmd.pc = "review" /\ Step("gate") /\ cmd.view = RemovalView(cmd.kind)
         \/ cmd.pc = "gate" /\ Step("halt")
         \/ cmd.pc = "recheck" /\ Step("net") /\ SameGeneration
  BY DEF RemovalReview, StopGate, StopRecheck, Reached, Continues, trees, host, others
<1>2. CASE cmd.pc \in {"review", "gate", "recheck"} /\ End("stale")
  BY <1>1, <1>2, StaleKeeps DEF HalfSteps, Swapping
<1>3. Alongside /\ conf \in Confs /\ units \in UnitTypes /\ net \in Nat /\ (units.up => units.files)
      /\ root.doc.gen \in Nat /\ cmd.view.doc.gen \in Nat
  BY <1>1 DEF Alongside, DataType, UnitTypes, UnitsInv, Roots, Docs, Cmds, Views
<1>4. CASE cmd.pc = "review" /\ Step("gate") /\ cmd.view = RemovalView(cmd.kind)
  <2>1. cmd.kind \in {"uninstall", "purge"}
    BY <1>4 DEF CmdShape, Reviewing
  <2>2. cmd.view.doc = root.doc
    BY <1>4, <2>1, ViewFacts
  <2>3. cmd'.pc = "gate" /\ cmd'.view = cmd.view
    BY <1>4, StepFacts DEF Steps, Reviewing, Held
  <2>4. RemovalInv'
    BY <1>1, <1>3, <2>2, <2>3 DEF RemovalInv, Later, Deleting
  <2> QED
    BY <1>1, <1>3, <1>4, <2>4, RemovalOn DEF Reviewing, Deleting
<1>5. CASE cmd.pc = "gate" /\ Step("halt")
  <2>1. cmd'.pc = "halt" /\ cmd'.view = cmd.view
    BY <1>5, StepFacts DEF Steps, Reviewing, Held
  <2>2. RemovalInv'
    BY <1>1, <1>5, <2>1 DEF RemovalInv, Deleting
  <2> QED
    BY <1>1, <1>3, <1>5, <2>2, RemovalOn DEF Reviewing, Deleting
<1>6. CASE cmd.pc = "recheck" /\ Step("net") /\ SameGeneration
  <2>1. cmd'.pc = "net" /\ cmd'.view = cmd.view
    BY <1>6, StepFacts DEF Steps, Deleting, Held
  <2>2. root.doc = cmd.view.doc
    BY <1>6 DEF RemovalInv, Later, SameGeneration
  <2>3. RemovalInv'
    BY <1>1, <2>1, <2>2 DEF RemovalInv, Deleting
  <2>4. ~units.up /\ ~units.on
    BY <1>6 DEF UnitsInv
  <2> QED
    BY <1>1, <1>3, <1>6, <2>3, <2>4, RemovalOn DEF Reviewing, Deleting
<1> QED
  BY <1>1, <1>2, <1>4, <1>5, <1>6

(* The removal stops and disables the services.                            *)
LEMMA StopHaltKeeps == ASSUME DataInv, StopHalt PROVE DataInv'
<1> USE DEF DataInv, StaticInv
<1>1. /\ cmd.pc = "halt"
      /\ \/ /\ Step("recheck") /\ UNCHANGED spent
            /\ units' = [units EXCEPT !.up = FALSE, !.on = FALSE]
         \/ /\ Spend("mishaps") /\ End("failed")
            /\ units' \in {[units EXCEPT !.up = FALSE], [units EXCEPT !.up = FALSE, !.on = FALSE]}
      /\ UNCHANGED <<conf, root, oldConf, oldRoot, snap, archive, away, net, binary, cli, ids, flaws>>
  BY DEF StopHalt, Reached, trees, others
<1>2. units \in UnitTypes /\ conf \in Confs /\ net \in Nat /\ binary \in BOOLEAN
  BY DEF DataType, UnitTypes
<1>3. units' \in UnitTypes /\ ~units'.up
  BY <1>1, <1>2 DEF UnitTypes
<1>4. Alongside
  BY <1>1, SpendFacts DEF Alongside, DataType
<1>5. CASE Step("recheck") /\ units' = [units EXCEPT !.up = FALSE, !.on = FALSE]
  <2>1. cmd'.pc = "recheck" /\ cmd'.view = cmd.view
    BY <1>5, StepFacts DEF Steps, Reviewing, Held
  <2>2. RemovalInv'
    BY <1>1, <2>1 DEF RemovalInv, Deleting
  <2>3. ~units'.on
    BY <1>2, <1>5 DEF UnitTypes
  <2> QED
    BY <1>1, <1>2, <1>3, <1>4, <1>5, <2>2, <2>3, RemovalOn DEF Reviewing
<1>6. CASE End("failed")
  <2>1. cmd' = Idle /\ outcome' \in Outcomes /\ cmd.pc \notin HalfSteps
    BY <1>1, <1>6, EndFacts DEF Outcomes, HalfSteps, Swapping
  <2> QED
    BY <1>1, <1>2, <1>3, <1>4, <2>1, EndKeeps DEF UnitTypes, Alongside
<1> QED
  BY <1>1, <1>5, <1>6

(* The network is as before vpnctl.                                        *)
LEMMA RestoreNetworkKeeps == ASSUME DataInv, RestoreNetwork PROVE DataInv'
<1> USE DEF DataInv, StaticInv
<1>1. /\ cmd.pc = "net" /\ Step("runtime") /\ net' = 0
      /\ UNCHANGED <<conf, root, oldConf, oldRoot, snap, archive, away, units, binary, cli, ids,
                     flaws, spent>>
  BY DEF RestoreNetwork, Reached, trees, others
<1>2. Alongside /\ conf \in Confs /\ units \in UnitTypes /\ net' \in Nat
  BY <1>1 DEF Alongside, DataType, UnitTypes
<1>3. cmd'.pc = "runtime" /\ cmd'.view = cmd.view
  BY <1>1, StepFacts DEF Steps, Deleting, Held
<1>4. RemovalInv'
  BY <1>1, <1>3 DEF RemovalInv, Deleting
<1>5. ~units.up /\ ~units.on
  BY <1>1 DEF UnitsInv, Deleting
<1> QED
  BY <1>1, <1>2, <1>4, <1>5, RemovalOn

(* Unit files and generated configuration go.                              *)
LEMMA RemoveManagedRuntimeKeeps == ASSUME DataInv, RemoveManagedRuntime PROVE DataInv'
<1> USE DEF DataInv, StaticInv
<1>1. /\ cmd.pc = "runtime"
      /\ \/ /\ Step(IF cmd.kind = "purge" THEN "data" ELSE "binary") /\ UNCHANGED spent
            /\ conf' = [conf EXCEPT !.made = FALSE]
         \/ /\ Spend("mishaps") /\ End("failed")
            /\ conf' \in {conf, [conf EXCEPT !.made = FALSE]}
      /\ units' = [units EXCEPT !.files = FALSE]
      /\ UNCHANGED <<root, oldConf, oldRoot, snap, archive, away, net, binary, cli, ids, flaws>>
  BY DEF RemoveManagedRuntime, Reached, others
<1>2. conf' \in Confs /\ conf'.tag = conf.tag
  BY <1>1 DEF DataType, Confs
<1>3. Alongside /\ net \in Nat /\ binary \in BOOLEAN /\ root \in Roots
  BY <1>1, SpendFacts DEF Alongside, DataType
<1>4. ~units.up /\ ~units.on
  BY <1>1 DEF UnitsInv, Deleting
<1>5. units' \in UnitTypes /\ ~units'.up /\ ~units'.on /\ ~units'.files
  BY <1>1, <1>4 DEF DataType, UnitTypes
<1>6. CASE Step(IF cmd.kind = "purge" THEN "data" ELSE "binary") /\ conf' = [conf EXCEPT !.made = FALSE]
  <2>1. (IF cmd.kind = "purge" THEN "data" ELSE "binary") \in Steps
    BY DEF Steps, Deleting
  <2>2. cmd'.pc = (IF cmd.kind = "purge" THEN "data" ELSE "binary") /\ cmd'.view = cmd.view
        /\ cmd'.kind = cmd.kind
    BY <1>6, <2>1, StepFacts DEF Held
  <2>3. ~conf'.made
    BY <1>6 DEF DataType, Confs
  <2>4. net = 0 /\ ("stray" \notin flaws => root.doc = cmd.view.doc)
    BY <1>1 DEF RemovalInv, Deleting
  <2>5. RemovalInv'
    BY <1>1, <1>5, <2>2, <2>3, <2>4 DEF RemovalInv, Deleting
  <2> QED
    BY <1>1, <1>2, <1>3, <1>5, <1>6, <2>5, RemovalOn
<1>7. CASE End("failed")
  <2>1. cmd' = Idle /\ outcome' \in Outcomes /\ cmd.pc \notin HalfSteps
    BY <1>1, <1>7, EndFacts DEF Outcomes, HalfSteps, Swapping
  <2> QED
    BY <1>1, <1>2, <1>3, <1>5, <2>1, EndsKeep DEF UnitTypes, Alongside
<1> QED
  BY <1>1, <1>6, <1>7

(* The binary goes last.                                                   *)
LEMMA RemoveBinaryKeeps == ASSUME DataInv, RemoveBinary PROVE DataInv'
<1> USE DEF DataInv, StaticInv
<1>1. /\ cmd.pc = "binary" /\ End("removed") /\ binary' = FALSE
      /\ UNCHANGED <<conf, root, oldConf, oldRoot, snap, archive, away, units, net, cli, ids,
                     flaws, spent>>
  BY DEF RemoveBinary, Reached, trees, others
<1>2. cmd' = Idle /\ outcome' \in Outcomes /\ cmd.pc \notin HalfSteps
  BY <1>1, EndFacts DEF Outcomes, HalfSteps, Swapping
<1> QED
  BY <1>1, <1>2, EndKeeps DEF DataType, UnitsInv

(* purge deletes the configuration ...                                     *)
LEMMA PurgeConfigKeeps == ASSUME DataInv, PurgeConfig PROVE DataInv'
<1> USE DEF DataInv, StaticInv
<1>1. /\ cmd.pc = "data"
      /\ \/ Step("backups") /\ conf' = NoConf /\ Cardinality(root.boxes) = cmd.view.boxes
         \/ End("stale") /\ UNCHANGED conf
      /\ UNCHANGED <<root, oldConf, oldRoot, snap, archive, away, units, net, binary, cli, ids,
                     flaws, spent>>
  BY DEF PurgeConfig, Reached, host, others
<1>2. CASE End("stale") /\ UNCHANGED conf
  BY <1>1, <1>2, StaleKeeps DEF HalfSteps, Swapping
<1>3. CASE Step("backups") /\ conf' = NoConf /\ Cardinality(root.boxes) = cmd.view.boxes
  <2>1. cmd'.pc = "backups" /\ Held /\ cmd' \in Cmds /\ outcome' = outcome
    BY <1>3, StepFacts DEF Steps, Deleting
  <2>2. cmd.kind = "purge" /\ cmd'.kind = "purge" /\ cmd.pc \in Deleting /\ cmd'.pc \in Deleting
        /\ PurgesData' /\ cmd'.pc \notin Activated
        /\ cmd'.pc \notin {"confOut", "start"} \cup Swapping \cup (RollingBack \ {"rbStop"})
    BY <1>1, <2>1 DEF CmdShape, Deleting, Held, PurgesData, Activated, Swapping, RollingBack
  <2>3. DataType' /\ Alongside
    BY <1>1, <1>3, <2>1, Nothing DEF DataType, Alongside
  <2>4. TreeInv'
    BY <1>1, <2>2, TreesKept
  <2>5. UnitsInv'
    BY <1>1, <2>2 DEF UnitsInv
  <2>6. RemovalInv'
    BY <1>1, <1>3, <2>1, <2>2, IdleFacts DEF RemovalInv, Deleting, Held
  <2> QED
    BY <1>1, <2>1, <2>2, <2>3, <2>4, <2>5, <2>6, RemovalKeeps
<1> QED
  BY <1>1, <1>2, <1>3

(* What is left of no state is no state.                                   *)
LEMMA NoneLeft ==
  ASSUME NEW r \in Roots, r.tag = 0, r.doc = NoDoc, r.secrets = {}, r.boxes = {}, r.base = FALSE
  PROVE  r = NoRoot
BY DEF Roots, NoRoot

(* ... and the state, entry by entry.                                      *)
LEMMA PurgeStep ==
  ASSUME DataInv, cmd.pc \in {"backups", "secrets", "doc"},
         NEW p \in {"secrets", "doc", "binary"}, Step(p),
         UNCHANGED <<conf, oldConf, oldRoot, snap, archive, away, units, net, binary, cli, ids,
                     flaws, spent>>,
         root' \in Roots, root'.tag = root.tag \/ root' = NoRoot, root = NoRoot => root' = NoRoot,
         root'.boxes \subseteq root.boxes, root'.doc = IF p = "binary" THEN NoDoc ELSE root.doc,
         p # "binary" /\ ~KeepBackups => root'.boxes = {},
         "stray" \notin flaws /\ p # "secrets" => root'.secrets = {}
  PROVE  DataInv'
<1> USE DEF DataInv, StaticInv
<1>1. cmd'.pc = p /\ Held /\ cmd' \in Cmds /\ outcome' = outcome
  BY StepFacts DEF Steps, Deleting
<1>2. cmd.kind = "purge" /\ cmd'.kind = "purge" /\ cmd.pc \in Deleting /\ cmd'.pc \in Deleting
      /\ cmd'.pc \notin Activated /\ cmd.pc \notin Activated
      /\ cmd'.pc \notin {"confOut", "start"} \cup Swapping \cup (RollingBack \ {"rbStop"})
      /\ (PurgesData' <=> p # "binary")
  BY <1>1 DEF CmdShape, Deleting, Held, PurgesData, Activated, Swapping, RollingBack
<1>3. DataType' /\ Alongside
  BY <1>1 DEF DataType, Alongside
<1>4. TreeInv'
  <2>1. p = "binary" => Whole(root)' /\ CliAgrees(root)'
    BY IdleFacts DEF Whole, CliAgrees
  <2>2. (Whole(oldRoot) => Whole(oldRoot)') /\ (CliAgrees(oldRoot) => CliAgrees(oldRoot)')
    BY DEF Whole, CliAgrees
  <2> QED
    BY <1>2, <2>1, <2>2 DEF TreeInv
<1>5. UnitsInv'
  <2>1. ~units.up /\ ~units.on
    BY <1>2 DEF UnitsInv
  <2>2. p = "binary" => ~Initialized'
    BY DEF Initialized
  <2> QED
    BY <1>2, <2>1, <2>2 DEF UnitsInv
<1>6. RemovalInv'
  <2>1. (KeepBackups' <=> KeepBackups) /\ cmd'.view = cmd.view
    BY <1>1 DEF KeepBackups, Held
  <2>2. /\ net = 0 /\ ~units.files /\ ~conf.made /\ conf = NoConf
        /\ "stray" \notin flaws => root.doc = cmd.view.doc
    BY <1>2 DEF RemovalInv, Deleting
  <2> QED
    BY <1>1, <1>2, <2>1, <2>2 DEF RemovalInv
<1>7. root'.tag \in {root.tag, 0} /\ root'.doc \in {root.doc, NoDoc}
  BY IdleFacts
<1> QED
  BY <1>1, <1>2, <1>3, <1>4, <1>5, <1>6, <1>7, RemovalKeeps

(* The steps of purge through the state directory.                         *)
LEMMA PurgeEntriesKeeps == ASSUME DataInv, PurgeEntries PROVE DataInv'
<1> USE DEF DataInv, StaticInv
<1>1. UNCHANGED <<conf, oldConf, oldRoot, snap, archive, away, units, net, binary, cli, ids,
                  flaws, spent>>
  BY DEF PurgeEntries, host, others
<1>2. root \in Roots /\ {} \in Boxes /\ NoRoot \in Roots
  BY Nothing, BoxesFacts DEF DataType
<1>3. CASE cmd.pc = "backups" /\ Step("secrets")
           /\ root' = [root EXCEPT !.boxes = IF KeepBackups THEN @ ELSE {}, !.base = FALSE]
  <2>1. /\ root' \in Roots /\ root'.tag = root.tag /\ root'.boxes \subseteq root.boxes
        /\ root'.doc = root.doc /\ (~KeepBackups => root'.boxes = {})
    BY <1>2, <1>3 DEF Roots
  <2>2. ASSUME root = NoRoot PROVE root' = NoRoot
    <3>1. root'.secrets = {} /\ root'.base = FALSE
      BY <1>2, <1>3, <2>2, IdleFacts DEF Roots
    <3> QED
      BY <2>1, <2>2, <3>1, IdleFacts, NoneLeft
  <2> QED
    BY <1>1, <1>3, <2>1, <2>2, PurgeStep
<1>4. CASE cmd.pc = "secrets" /\ Step("doc") /\ root' = [root EXCEPT !.secrets = {}]
  <2>1. /\ root' \in Roots /\ root'.tag = root.tag /\ root'.boxes = root.boxes
        /\ root'.doc = root.doc /\ root'.secrets = {}
    BY <1>2, <1>4 DEF Roots
  <2>2. ASSUME root = NoRoot PROVE root' = NoRoot
    <3>1. root'.base = FALSE
      BY <1>2, <1>4, <2>2 DEF Roots, NoRoot
    <3> QED
      BY <2>1, <2>2, <3>1, IdleFacts, NoneLeft
  <2>3. ~KeepBackups => root.boxes = {}
    BY <1>4 DEF RemovalInv
  <2> QED
    BY <1>1, <1>4, <2>1, <2>2, <2>3, PurgeStep
<1>5. CASE cmd.pc = "doc"
           /\ (IF KeepBackups \/ root.secrets = {} THEN Step("binary") ELSE End("failed"))
           /\ root' = IF KeepBackups \/ root.secrets # {}
                        THEN [root EXCEPT !.doc = NoDoc] ELSE NoRoot
  <2>1. root' = [root EXCEPT !.doc = NoDoc] =>
          /\ root' \in Roots /\ root'.tag = root.tag /\ root'.boxes = root.boxes
          /\ root'.doc = NoDoc /\ root'.secrets = root.secrets
    BY <1>2, Nothing DEF Roots
  <2>2. ASSUME root = NoRoot PROVE root' = NoRoot
    <3>1. CASE root' = [root EXCEPT !.doc = NoDoc]
      <4>1. root'.base = FALSE
        BY <1>2, <2>2, <3>1 DEF Roots, NoRoot
      <4> QED
        BY <2>1, <2>2, <3>1, <4>1, IdleFacts, NoneLeft
    <3> QED
      BY <1>5, <3>1
  <2>3. "stray" \notin flaws => root.secrets = {}
    BY <1>5 DEF RemovalInv
  <2>4. CASE Step("binary")
    <3>1. root' = NoRoot \/ root' = [root EXCEPT !.doc = NoDoc]
      BY <1>5
    <3>2. /\ root' \in Roots /\ (root'.tag = root.tag \/ root' = NoRoot)
          /\ root'.boxes \subseteq root.boxes /\ root'.doc = NoDoc
          /\ "stray" \notin flaws => root'.secrets = {}
      BY <1>2, <2>1, <2>3, <3>1, IdleFacts
    <3> QED
      BY <1>1, <1>5, <2>2, <2>4, <3>2, PurgeStep
  <2>5. CASE root.secrets # {} /\ End("failed")
    <3>1. flaws # {} /\ root' = [root EXCEPT !.doc = NoDoc]
      BY <1>5, <2>3, <2>5
    <3>2. cmd' = Idle /\ outcome' \in Outcomes
      BY <2>5, EndFacts DEF Outcomes
    <3>3. conf \in Confs /\ net \in Nat /\ binary \in BOOLEAN /\ units \in UnitTypes
          /\ spent \in [commands : Nat, writes : Nat, mishaps : Nat] /\ (units.up => units.files)
      BY DEF DataType, UnitTypes, UnitsInv
    <3> QED
      BY <1>1, <2>1, <3>1, <3>2, <3>3, EndsKeep DEF UnitTypes
  <2> QED
    BY <1>5, <2>4, <2>5
<1> QED
  BY <1>3, <1>4, <1>5 DEF PurgeEntries, Reached

----------------------------------------------------------------------------
(* The invariant of the module                                             *)

(* The state of a gateway with at most one client.                         *)
LEMMA FirstFacts ==
  ASSUME NEW first \in {{}} \cup {{c} : c \in Clients}
  PROVE  /\ FirstDoc(first) \in Docs /\ FirstDoc(first) # NoDoc
         /\ FirstDoc(first).has = first \X {1} /\ first \X {1} \in SUBSET Secrets
         /\ DocOK(FirstDoc(first), Clients \ first)
<1>1. Cardinality(first) \in Nat
  BY FS_EmptySet, FS_Singleton
<1>2. first \X {1} \in SUBSET Secrets
  BY DEF Secrets
<1>3. FirstDoc(first) \in Docs /\ FirstDoc(first).gen >= 1 /\ FirstDoc(first).has = first \X {1}
      /\ FirstDoc(first).revoked = {}
  <2>1. ASSUME NEW n \in Nat, n >= 1, NEW h \in SUBSET Secrets, NEW d,
               d = [NoDoc EXCEPT !.gen = n, !.has = h]
        PROVE  d \in Docs /\ d.gen >= 1 /\ d.has = h /\ d.revoked = {}
    BY <2>1, Nothing, IdleFacts DEF Docs
  <2>2. 1 + Cardinality(first) \in Nat /\ 1 + Cardinality(first) >= 1
    BY <1>1
  <2> QED
    BY <1>2, <2>1, <2>2 DEF FirstDoc
<1>4. FirstDoc(first) # NoDoc
  BY <1>3, IdleFacts
<1>5. DocOK(FirstDoc(first), Clients \ first)
  BY <1>3 DEF DocOK
<1> QED
  BY <1>2, <1>3, <1>4, <1>5

(* An initialized gateway and a clean host satisfy the invariant.          *)
LEMMA InitData == DataInit => DataInv
<1> SUFFICES ASSUME DataInit PROVE DataInv
  OBVIOUS
<1>1. /\ oldConf = NoConf /\ oldRoot = NoRoot /\ snap = NoSnapshot /\ cmd = Idle
      /\ outcome = "none" /\ cli = NoCli /\ flaws = {}
      /\ spent = [commands |-> 0, writes |-> 0, mishaps |-> 0]
  BY DEF DataInit
<1>2. PICK first \in {{}} \cup {{c} : c \in Clients} :
       /\ ids = Clients \ first
       /\ \/ /\ conf = [tag |-> 1, made |-> TRUE]
             /\ root = [tag |-> 1, doc |-> FirstDoc(first), secrets |-> first \X {1},
                        boxes |-> {}, base |-> TRUE]
             /\ units = [files |-> TRUE, on |-> TRUE, up |-> TRUE]
             /\ net = 1 /\ binary = TRUE
             /\ archive = [a \in Archives |-> NoArchive] /\ away = {}
          \/ /\ conf = NoConf /\ root = NoRoot
             /\ units = [files |-> FALSE, on |-> FALSE, up |-> FALSE]
             /\ net = 0 /\ binary = FALSE
             /\ \E a \in Archives :
                  /\ away = {a}
                  /\ archive = [b \in Archives |->
                       IF b = a THEN [doc |-> FirstDoc(first), secrets |-> first \X {1}]
                                ELSE NoArchive]
  BY DEF DataInit
<1> DEFINE fd == FirstDoc(first)
           fs == first \X {1}
           full == [doc |-> fd, secrets |-> fs]
<1>3. /\ fd \in Docs /\ fd # NoDoc /\ fd.has = fs /\ fs \in SUBSET Secrets /\ DocOK(fd, ids)
  BY <1>2, FirstFacts
<1>4. {} \in Boxes /\ full \in Contents /\ DocOK(NoDoc, ids)
  BY <1>3, BoxesFacts, IdleFacts DEF Contents, DocOK
<1> HIDE DEF fd, fs
<1>5. /\ conf \in Confs /\ root \in Roots /\ units \in UnitTypes /\ net \in Nat /\ binary \in BOOLEAN
      /\ root.doc \in {fd, NoDoc} /\ root.secrets \in SUBSET Secrets /\ root.boxes = {}
      /\ root.doc.has \subseteq root.secrets /\ root.tag \in {0, 1}
      /\ root.doc # NoDoc => conf.tag = root.tag
      /\ units.up => units.files /\ root.doc # NoDoc
  <2>1. CASE /\ conf = [tag |-> 1, made |-> TRUE]
             /\ root = [tag |-> 1, doc |-> fd, secrets |-> fs, boxes |-> {}, base |-> TRUE]
             /\ units = [files |-> TRUE, on |-> TRUE, up |-> TRUE]
             /\ net = 1 /\ binary = TRUE
    BY <1>3, <1>4, <2>1 DEF Confs, Roots, UnitTypes
  <2>2. CASE /\ conf = NoConf /\ root = NoRoot
             /\ units = [files |-> FALSE, on |-> FALSE, up |-> FALSE]
             /\ net = 0 /\ binary = FALSE
    BY <2>2, Nothing, IdleFacts DEF UnitTypes
  <2> QED
    BY <1>2, <2>1, <2>2 DEF fd, fs
<1>6. /\ archive \in [Archives -> Contents] /\ away \in SUBSET Archives
      /\ \A a \in Archives : archive[a] \in {full, NoArchive}
      /\ \A a \in away : archive[a] = full
  <2>1. NoArchive \in Contents
    BY Nothing
  <2>2. CASE archive = [a \in Archives |-> NoArchive] /\ away = {}
    BY <2>1, <2>2
  <2>3. CASE \E a \in Archives : /\ away = {a}
                                 /\ archive = [b \in Archives |-> IF b = a THEN full ELSE NoArchive]
    BY <1>4, <2>1, <2>3
  <2> QED
    BY <1>2, <2>2, <2>3 DEF fd, fs
<1>7. full.doc = fd /\ full.secrets = fs
  OBVIOUS
<1> HIDE DEF full
<1>8. DataType
  <2>1. snap \in [conf : Confs, root : Roots] /\ spent \in [commands : Nat, writes : Nat, mishaps : Nat]
    BY <1>1, Nothing DEF NoSnapshot
  <2>2. outcome \in Outcomes /\ ids \in SUBSET Clients
    BY <1>1, <1>2 DEF Outcomes
  <2> QED
    BY <1>1, <1>5, <1>6, <2>1, <2>2, Nothing DEF DataType, UnitTypes
<1>9. cmd.pc = "idle" /\ cmd.kind = "none" /\ cmd.load.doc = NoDoc /\ snap.root = NoRoot
  BY <1>1, IdleFacts DEF NoSnapshot
<1>10. CmdShape
  BY <1>1, <1>9 DEF CmdShape, Copying, Restoring, Preparing, Swapping, Activated, RollingBack,
     Reviewing, Deleting
<1>11. DocInv
  BY <1>1, <1>3, <1>4, <1>5, <1>6, <1>7, <1>9, IdleFacts, NoCliFacts DEF DocInv
<1>12. ArchiveInv
  <2>1. Boxed = away
    BY <1>1, <1>5, <1>9, IdleFacts DEF Boxed
  <2>2. cmd.pc \notin (Copying \ {"read"}) \cup Restoring
    BY <1>9 DEF Copying, Restoring, Preparing, Swapping, Activated, RollingBack
  <2> QED
    BY <1>3, <1>6, <1>7, <1>9, <2>1, <2>2, IdleFacts DEF ArchiveInv, ArchiveComplete
<1>13. TagInv
  BY <1>1, <1>5, <1>9, IdleFacts, NoCliFacts DEF TagInv, Top, Preparing, Swapping
<1>14. CliShape
  BY <1>1, NoCliFacts DEF CliShape
<1>15. TreeInv
  BY <1>1, <1>5, IdleFacts, NoCliFacts DEF TreeInv, Whole, CliAgrees
<1>16. CopyInv /\ MoveInv /\ ActiveInv /\ KeptInv /\ RemovalInv
  BY <1>9 DEF CopyInv, MoveInv, ActiveInv, KeptInv, RemovalInv, Preparing, Activated, Deleting
<1>17. UnitsInv
  BY <1>1, <1>5, <1>9 DEF UnitsInv, Initialized, Deleting, Swapping, RollingBack
<1> QED
  BY <1>8, <1>10, <1>11, <1>12, <1>13, <1>14, <1>15, <1>16, <1>17 DEF DataInv, StaticInv

(* Every step of a command, of the daemon and of a client command keeps it.*)
LEMMA NextData == DataInv /\ [DataNext]_dataVars => DataInv'
<1> SUFFICES ASSUME DataInv, [DataNext]_dataVars PROVE DataInv'
  OBVIOUS
<1>1. CASE UNCHANGED dataVars
  <2>1. UNCHANGED <<conf, root, oldConf, oldRoot, snap, archive, away, units, net, binary, cmd,
                    outcome, cli, ids, flaws, spent>>
    BY <1>1 DEF dataVars, trees, host, others
  <2>2. DataType' /\ CmdShape' /\ DocInv' /\ ArchiveInv' /\ TagInv' /\ CliShape'
    BY <2>1 DEF DataInv, StaticInv, DataType, CmdShape, DocInv, ArchiveInv, Boxed,
       ArchiveComplete, TagInv, Top, CliShape
  <2>3. TreeInv' /\ CopyInv' /\ MoveInv' /\ ActiveInv'
    BY <2>1 DEF DataInv, TreeInv, Clean, Whole, CliAgrees, PurgesData, CopyInv, MoveInv, NewConf,
       Replacing, Initialized, ActiveInv
  <2>4. KeptInv' /\ UnitsInv' /\ RemovalInv'
    BY <2>1 DEF DataInv, KeptInv, Replacing, Rooted, Initialized, UnitsInv, PurgesData, RemovalInv,
       KeepBackups
  <2> QED
    BY <2>2, <2>3, <2>4 DEF DataInv, StaticInv
<1>2. CASE \E c \in Clients : ClientAdd(c)
  BY <1>2, AddKeeps
<1>3. CASE DaemonSaves({}) \/ \E c \in ids : DaemonSaves({c})
  BY <1>3, DaemonKeeps
<1>4. CASE \E c \in Clients, g \in 1..MaxWrites :
             ClientRotate(c, g) \/ ClientRevoke(c, g) \/ ClientRevokeAgain(c, g) \/ ClientDelete(c, g)
  BY <1>4, RotateKeeps, RevokeKeeps, RevokeAgainKeeps, DeleteKeeps
<1>5. CASE \E a \in Archives : \/ \E outside \in BOOLEAN : BackupPlan(a, outside)
                               \/ \E bump \in 0..1 : RestorePlan(a, bump)
  BY <1>5, BackupPlanKeeps, RestorePlanKeeps
<1>6. CASE \E kind \in {"uninstall", "purge"}, force, all \in BOOLEAN : RemovalPlan(kind, force, all)
  BY <1>6, RemovalPlanKeeps
<1>7. CASE CliStep
  BY <1>7, PutKeeps, SaveKeeps, UnsavedKeeps, CleanKeeps DEF CliStep
<1>8. CASE BackupStep
  BY <1>8, BackupReadKeeps, BackupLinkKeeps, BackupRecordKeeps, BackupObserveKeeps DEF BackupStep
<1>9. CASE RestoreStep
  BY <1>9, RestoreCheckKeeps, SnapConfKeeps, SnapTreeKeeps, RestoreInstallKeeps, ActivateStageKeeps,
     ActivateStopKeeps, SwapConfKeeps, SwapRootKeeps, ActivateStartKeeps, ActivateNetKeeps,
     ActivateFailsKeeps, HealthKeeps, CommitConfKeeps, CommitRootKeeps DEF RestoreStep, ActivateStep
<1>10. CASE RollbackStep
  BY <1>10, RollbackStopKeeps, RollbackNetKeeps, RollbackConfKeeps, RollbackRootKeeps,
     RollbackUnitsKeeps DEF RollbackStep
<1>11. CASE RemovalStep
  BY <1>11, ReviewKeeps, StopHaltKeeps, RestoreNetworkKeeps, RemoveManagedRuntimeKeeps,
     PurgeConfigKeeps, PurgeEntriesKeeps, RemoveBinaryKeeps DEF RemovalStep
<1>12. CASE Mishap
  BY <1>12, StepFailsKeeps, CliKillKeeps, RebootKeeps DEF Mishap
<1> QED
  BY <1>1, <1>2, <1>3, <1>4, <1>5, <1>6, <1>7, <1>8, <1>9, <1>10, <1>11, <1>12 DEF DataNext

(* The services run only on a configuration and a state of the same init   *)
(* or restore, and every credential a state calls active is in its secret  *)
(* store: in the live tree, in the tree a restore has moved aside and in   *)
(* every archive, for any number of clients, archives, commands and        *)
(* mishaps.                                                                *)
THEOREM DataAlwaysSound == DataSpec => []DataSound
<1>1. DataInv => DataSound
  <2> SUFFICES ASSUME DataInv PROVE DataSound
    OBVIOUS
  <2>1. \A a \in Archives : archive[a].doc.has \subseteq archive[a].secrets
    BY DEF DataInv, StaticInv, ArchiveInv, ArchiveComplete
  <2>2. ASSUME flaws = {}
        PROVE  /\ units.up => conf.tag = root.tag /\ Initialized
               /\ ~PurgesData => root.doc.has \subseteq root.secrets
               /\ oldRoot.doc.has \subseteq oldRoot.secrets
    BY <2>2 DEF DataInv, UnitsInv, TreeInv, Clean, Whole
  <2> QED
    BY <2>1, <2>2 DEF DataSound
<1> QED
  BY <1>1, InitData, NextData, PTL DEF DataSpec

----------------------------------------------------------------------------
(* What a command that reports its end has done                            *)

(* A write astray is never forgotten.                                      *)
LEMMA StrayStays ==
  ASSUME DataNext, "stray" \in flaws PROVE "stray" \in flaws'
<1>1. CASE \E c \in Clients : ClientAdd(c)
  BY <1>1 DEF ClientAdd, CliBegins
<1>2. CASE DaemonSaves({}) \/ \E c \in ids : DaemonSaves({c})
  BY <1>2 DEF DaemonSaves
<1>3. CASE \E c \in Clients, g \in 1..MaxWrites :
             ClientRotate(c, g) \/ ClientRevoke(c, g) \/ ClientRevokeAgain(c, g) \/ ClientDelete(c, g)
  BY <1>3 DEF ClientRotate, ClientRevoke, ClientRevokeAgain, ClientDelete, CliBegins
<1>4. CASE \E a \in Archives : \/ \E outside \in BOOLEAN : BackupPlan(a, outside)
                               \/ \E bump \in 0..1 : RestorePlan(a, bump)
  BY <1>4 DEF BackupPlan, RestorePlan
<1>5. CASE \E kind \in {"uninstall", "purge"}, force, all \in BOOLEAN : RemovalPlan(kind, force, all)
  BY <1>5 DEF RemovalPlan
<1>6. CASE CliStep
  BY <1>6 DEF CliStep, CliPut, CliSave, CliUnsaved, CliClean
<1>7. CASE BackupStep
  BY <1>7 DEF BackupStep, BackupRead, BackupLink, BackupRecord, BackupObserve
<1>8. CASE RestoreStep
  BY <1>8 DEF RestoreStep, ActivateStep, RestoreCheck, SnapConf, SnapTree, RestoreInstall,
     ActivateStage, ActivateStop, SwapConf, SwapRoot, ActivateStart, ActivateNet, ActivateFails,
     Health, CommitConf, CommitRoot
<1>9. CASE RollbackStep
  BY <1>9 DEF RollbackStep, RollbackStop, RollbackNet, RollbackConf, RollbackRoot, RollbackUnits
<1>10. CASE RemovalStep
  BY <1>10 DEF RemovalStep, RemovalReview, StopGate, StopHalt, StopRecheck, RestoreNetwork,
     RemoveManagedRuntime, PurgeConfig, PurgeEntries, RemoveBinary
<1>11. CASE Mishap
  BY <1>11 DEF Mishap, StepFails, Kill, CliKill, Reboot
<1> QED
  BY <1>1, <1>2, <1>3, <1>4, <1>5, <1>6, <1>7, <1>8, <1>9, <1>10, <1>11 DEF DataNext

(* A command that takes a step has not ended.                              *)
LEMMA StepIsNoEnd ==
  ASSUME DataType, NEW p \in Steps \ {"idle"}, Step(p) \/ Unclean(p) PROVE cmd' # Idle
BY StepFacts, UncleanFacts, IdleFacts

(* Only three steps end a command with success or a rollback without error.*)
Reported == {"restored", "rolled back", "removed"}

(* Every other step goes on, fails or belongs to another command.          *)
LEMMA Endings ==
  ASSUME DataInv, DataNext, cmd # Idle, cmd' = Idle, outcome' \in Reported
  PROVE  CommitRoot \/ RollbackUnits \/ RemoveBinary
<1> USE DEF Reported
<1>1. DataType
  BY DEF DataInv
<1>2. \A p \in Steps \ {"idle"} : ~Step(p) /\ ~Unclean(p)
  BY <1>1, StepIsNoEnd
<1>3. \A p \in Steps \ {"idle"} : \A s \in {"conf", "root"} : ~Did(s, p)
  BY <1>1, DidFacts, IdleFacts
<1>4. \A h \in Outcomes \ Reported : ~End(h)
  BY DEF End, Outcomes
<1>5. (Steps \ {"idle"}) = Copying \cup Restoring \cup Reviewing \cup Deleting
  BY DEF Steps, Copying, Restoring, Preparing, Swapping, Activated, RollingBack, Reviewing, Deleting
<1>6. ~(\E c \in Clients : ClientAdd(c))
  BY DEF ClientAdd, CliBegins
<1>7. ~(DaemonSaves({}) \/ \E c \in ids : DaemonSaves({c}))
  BY DEF DaemonSaves
<1>8. ~(\E c \in Clients, g \in 1..MaxWrites :
          ClientRotate(c, g) \/ ClientRevoke(c, g) \/ ClientRevokeAgain(c, g) \/ ClientDelete(c, g))
  BY DEF ClientRotate, ClientRevoke, ClientRevokeAgain, ClientDelete, CliBegins
<1>9. ~(\E a \in Archives : \/ \E outside \in BOOLEAN : BackupPlan(a, outside)
                            \/ \E bump \in 0..1 : RestorePlan(a, bump))
  BY DEF BackupPlan, RestorePlan, Begin
<1>10. ~(\E kind \in {"uninstall", "purge"}, force, all \in BOOLEAN : RemovalPlan(kind, force, all))
  BY DEF RemovalPlan, Begin
<1>11. ~CliStep
  BY DEF CliStep, CliPut, CliSave, CliUnsaved, CliClean
<1>12. ~BackupStep
  <2>1. ~BackupRead
    <3>1. [cmd EXCEPT !.pc = "link", !.load.secrets = cmd.load.doc.has \cap root.secrets].pc = "link"
      BY <1>1 DEF DataType, Cmds
    <3> QED
      BY <1>4, <3>1, IdleFacts DEF BackupRead, Outcomes
  <2>2. ~BackupLink /\ ~BackupRecord /\ ~BackupObserve
    BY <1>2, <1>4, <1>5 DEF BackupLink, BackupRecord, BackupObserve, Outcomes, Copying
  <2> QED
    BY <2>1, <2>2 DEF BackupStep
<1>13. ~(RestoreCheck \/ SnapConf \/ SnapTree \/ RestoreInstall)
  BY <1>2, <1>4, <1>5 DEF RestoreCheck, SnapConf, SnapTree, RestoreInstall, Outcomes, Restoring, Preparing
<1>14. ~ActivateStep
  <2>1. ~ActivateStage /\ ~SwapRoot
    <3>1. ASSUME NEW p \in Restoring, cmd' = Idle, cmd'.pc = p PROVE FALSE
      BY <3>1, IdleFacts DEF Restoring, Preparing, Swapping, Activated, RollingBack
    <3>2. ActivateStage => cmd'.pc \in {"stop", "confIn"}
      BY <1>1 DEF ActivateStage, DataType, Cmds
    <3>3. SwapRoot => cmd'.pc \in {"rootIn", "start"}
      BY <1>1 DEF SwapRoot, DataType, Cmds
    <3> QED
      BY <3>1, <3>2, <3>3 DEF Restoring, Preparing, Swapping, Activated
  <2>2. ~ActivateStop /\ ~ActivateStart /\ ~ActivateNet /\ ~ActivateFails
    BY <1>2, <1>5 DEF ActivateStop, ActivateStart, ActivateNet, ActivateFails, Restoring, Preparing,
       Activated, RollingBack
  <2>3. ~SwapConf
    BY <1>3, <1>5 DEF SwapConf, Restoring, Swapping
  <2> QED
    BY <2>1, <2>2, <2>3 DEF ActivateStep
<1>15. ~(Health \/ CommitConf)
  <2>1. ~Health
    BY <1>2, <1>5 DEF Health, Restoring, Activated, RollingBack
  <2>2. CommitConf => Step("commitRoot") \/ Unclean("commitRoot")
    BY DEF CommitConf, Unclean
  <2> QED
    BY <1>2, <1>5, <2>1, <2>2 DEF Restoring, Activated
<1>16. ~(RollbackStop \/ RollbackNet \/ RollbackConf \/ RollbackRoot)
  BY <1>2, <1>5 DEF RollbackStop, RollbackNet, RollbackConf, RollbackRoot, Restoring, RollingBack
<1>17. ~(RemovalReview \/ StopGate \/ StopHalt \/ StopRecheck \/ RestoreNetwork)
  BY <1>2, <1>4, <1>5 DEF RemovalReview, StopGate, StopHalt, StopRecheck, RestoreNetwork, Continues,
     Outcomes, Reviewing, Deleting
<1>18. ~(RemoveManagedRuntime \/ PurgeConfig \/ PurgeEntries)
  BY <1>2, <1>4, <1>5 DEF RemoveManagedRuntime, PurgeConfig, PurgeEntries, Outcomes, Deleting
<1>19. ~Mishap
  BY <1>4 DEF Mishap, StepFails, Kill, CliKill, Reboot, Outcomes
<1> QED
  BY <1>6, <1>7, <1>8, <1>9, <1>10, <1>11, <1>12, <1>13, <1>14, <1>15, <1>16, <1>17, <1>18, <1>19
     DEF DataNext, RestoreStep, RollbackStep, RemovalStep

(* Which of the three it was.                                              *)
LEMMA EndedBy ==
  ASSUME DataInv, DataNext
  PROVE  /\ Ends("restored") => CommitRoot /\ cmd.clean
         /\ Ends("rolled back") => RollbackUnits
         /\ Ends("removed") => RemoveBinary
<1>1. DataType
  BY DEF DataInv
<1>2. ASSUME CommitRoot, cmd' = Idle PROVE outcome' = "restored" /\ cmd.clean
  <2>1. ~Step("rbStop") /\ ~Unclean("rbStop")
    BY <1>1, <1>2, StepIsNoEnd DEF Steps, Restoring, RollingBack
  <2> QED
    BY <1>2, <2>1 DEF CommitRoot, Unclean, End
<1>3. RollbackUnits => outcome' \in {"rolled back", "failed"}
  BY DEF RollbackUnits, End
<1>4. RemoveBinary => outcome' = "removed"
  BY DEF RemoveBinary, End
<1>5. ASSUME NEW how \in Reported, Ends(how) PROVE CommitRoot \/ RollbackUnits \/ RemoveBinary
  BY <1>5, Endings DEF Ends
<1> QED
  BY <1>2, <1>3, <1>4, <1>5 DEF Ends, Reported

(* What a restore has done when it reports success.                        *)
LEMMA RestoredExactly ==
  ASSUME DataInv, CommitRoot, cmd.clean, Ends("restored")
  PROVE  /\ conf' = NewConf
         /\ root'.tag = cmd.tag /\ net' = cmd.tag /\ units'.up
         /\ root'.doc.gen >= cmd.load.doc.gen
         /\ root'.doc.gen = cmd.load.doc.gen => root'.doc = cmd.load.doc
         /\ oldConf' = NoConf /\ oldRoot' = NoRoot
<1> USE DEF DataInv, StaticInv
<1>1. cmd.pc = "commitRoot" /\ UNCHANGED <<conf, root, oldConf, units, net>> /\ cmd' = Idle
  BY DEF CommitRoot, Reached, host, Ends
<1>2. ~Unclean("rbStop")
  BY <1>1, StepIsNoEnd DEF Steps, Restoring, RollingBack
<1>3. oldRoot' = NoRoot
  BY <1>2 DEF CommitRoot, Unclean
<1>4. conf = NewConf /\ root.tag = cmd.tag
  BY <1>1 DEF MoveInv, Activated
<1>5. net = cmd.tag /\ units.up /\ Later(cmd.load.doc, root.doc) /\ oldConf = NoConf
  BY <1>1 DEF ActiveInv
<1>6. cmd.load.doc.gen \in Nat /\ root.doc.gen \in Nat
  BY DEF DataType, Cmds, Contents, Roots, Docs
<1> QED
  BY <1>1, <1>3, <1>4, <1>5, <1>6 DEF Later

(* What a restore has undone when it reports a rollback.                   *)
LEMMA RolledBackExactly ==
  ASSUME DataInv, RollbackUnits, Ends("rolled back"), flaws' = {}
  PROVE  /\ net' = cmd.net
         /\ Replacing => conf' = cmd.view.conf /\ units'.up = conf.made
         /\ cmd.prior # NoRoot => Continued(cmd.prior, root')
         /\ ~Replacing => conf' = NoConf /\ root' = NoRoot
<1> USE DEF DataInv, StaticInv
<1>1. /\ cmd.pc = "rbUnits" /\ cmd.clean /\ (Replacing => cmd.units)
      /\ units' = [files |-> cmd.units, on |-> (Replacing /\ cmd.units) \/ units.on,
                   up |-> (Replacing /\ cmd.units) /\ conf.made /\ Initialized]
      /\ UNCHANGED <<conf, root, net, flaws>>
  BY DEF RollbackUnits, Reached, Ends, End
<1>2. cmd.kind = "restore" /\ flaws = {}
  BY <1>1 DEF CmdShape, Restoring, RollingBack
<1>3. conf = cmd.view.conf /\ net = cmd.net
  BY <1>1, <1>2 DEF KeptInv
<1>4. CASE ~Replacing
  BY <1>1, <1>2, <1>3, <1>4 DEF KeptInv
<1>5. CASE Replacing
  <2>1. Rooted /\ (cmd.prior # NoRoot => Continued(cmd.prior, root))
    BY <1>1, <1>2, <1>5 DEF KeptInv
  <2>2. conf.made \in BOOLEAN /\ Initialized
    BY <2>1 DEF DataType, Confs, Rooted
  <2>3. units'.up = ((Replacing /\ cmd.units) /\ conf.made /\ Initialized)
    BY <1>1
  <2>4. units'.up = conf.made
    BY <1>1, <1>5, <2>2, <2>3
  <2> QED
    BY <1>1, <1>3, <1>5, <2>1, <2>4
<1> QED
  BY <1>4, <1>5

(* A restore that reports success has put the archive's state, its         *)
(* configuration and its firewall in force and left nothing of the former  *)
(* trees; one that reports a rollback has put back what it found, with     *)
(* every change saved after the emergency snapshot.                        *)
THEOREM RestoresAreExact == DataSpec => RestoreExact
<1>1. DataInv /\ [DataNext]_dataVars =>
        [flaws' = {} =>
           /\ Ends("restored") =>
                /\ conf' = [tag |-> cmd.tag, made |-> TRUE]
                /\ root'.tag = cmd.tag /\ net' = cmd.tag /\ units'.up
                /\ root'.doc.gen >= cmd.load.doc.gen
                /\ root'.doc.gen = cmd.load.doc.gen => root'.doc = cmd.load.doc
                /\ oldConf' = NoConf /\ oldRoot' = NoRoot
           /\ Ends("rolled back") =>
                /\ net' = cmd.net
                /\ Replacing => conf' = cmd.view.conf /\ units'.up = conf.made
                /\ cmd.prior # NoRoot => Continued(cmd.prior, root')
                /\ ~Replacing => conf' = NoConf /\ root' = NoRoot]_dataVars
  <2> SUFFICES ASSUME DataInv, DataNext, flaws' = {}
               PROVE  /\ Ends("restored") =>
                           /\ conf' = [tag |-> cmd.tag, made |-> TRUE]
                           /\ root'.tag = cmd.tag /\ net' = cmd.tag /\ units'.up
                           /\ root'.doc.gen >= cmd.load.doc.gen
                           /\ root'.doc.gen = cmd.load.doc.gen => root'.doc = cmd.load.doc
                           /\ oldConf' = NoConf /\ oldRoot' = NoRoot
                      /\ Ends("rolled back") =>
                           /\ net' = cmd.net
                           /\ Replacing => conf' = cmd.view.conf /\ units'.up = conf.made
                           /\ cmd.prior # NoRoot => Continued(cmd.prior, root')
                           /\ ~Replacing => conf' = NoConf /\ root' = NoRoot
    OBVIOUS
  <2>1. (Ends("restored") => CommitRoot /\ cmd.clean) /\ (Ends("rolled back") => RollbackUnits)
    BY EndedBy
  <2>2. CASE Ends("restored")
    BY <2>1, <2>2, RestoredExactly DEF NewConf, Ends
  <2>3. CASE Ends("rolled back")
    BY <2>1, <2>3, RolledBackExactly DEF Ends
  <2> QED
    BY <2>2, <2>3
<1> QED
  BY <1>1, InitData, NextData, PTL DEF DataSpec, RestoreExact

(* While a removal is under way only its own step takes archives.          *)
LEMMA BoxesTaken ==
  ASSUME DataInv, DataNext, cmd.kind \in {"uninstall", "purge"}, root'.boxes # root.boxes
  PROVE  cmd.opt \/ root.boxes = {}
<1> USE DEF DataInv, StaticInv
<1>1. cmd.pc \in Reviewing \cup Deleting /\ root \in Roots /\ cmd # Idle
  BY IdleFacts DEF CmdShape, DataType
<1>2. cmd.pc \notin Copying /\ cmd.pc \notin Restoring
  BY <1>1 DEF CmdShape
<1>3. ~(\E c \in Clients : ClientAdd(c))
  BY DEF ClientAdd, CliBegins, trees
<1>4. \A new \in SUBSET Clients : ~DaemonSaves(new)
  BY <1>1 DEF DaemonSaves, Roots
<1>5. ~(DaemonSaves({}) \/ \E c \in ids : DaemonSaves({c}))
  BY <1>4 DEF DataType
<1>6. ~(\E c \in Clients, g \in 1..MaxWrites :
          ClientRotate(c, g) \/ ClientRevoke(c, g) \/ ClientRevokeAgain(c, g) \/ ClientDelete(c, g))
  BY DEF ClientRotate, ClientRevoke, ClientRevokeAgain, ClientDelete, CliBegins, trees
<1>7. ~(\E a \in Archives : \/ \E outside \in BOOLEAN : BackupPlan(a, outside)
                            \/ \E bump \in 0..1 : RestorePlan(a, bump))
  BY DEF BackupPlan, RestorePlan, trees
<1>8. ~(\E kind \in {"uninstall", "purge"}, force, all \in BOOLEAN : RemovalPlan(kind, force, all))
  BY DEF RemovalPlan, trees
<1>9. ~CliStep
  BY <1>1 DEF CliStep, CliPut, CliSave, CliUnsaved, CliClean, trees, Roots
<1>10. ~BackupStep
  BY <1>2 DEF BackupStep, BackupRead, BackupLink, BackupRecord, BackupObserve, Reached, Copying
<1>11. ~RestoreStep
  BY <1>2 DEF RestoreStep, ActivateStep, RestoreCheck, SnapConf, SnapTree, RestoreInstall,
     ActivateStage, ActivateStop, SwapConf, SwapRoot, ActivateStart, ActivateNet, ActivateFails,
     Health, CommitConf, CommitRoot, Reached, Restoring, Preparing, Swapping, Activated
<1>12. ~RollbackStep
  BY <1>2 DEF RollbackStep, RollbackStop, RollbackNet, RollbackConf, RollbackRoot, RollbackUnits,
     Reached, Restoring, RollingBack
<1>13. ~Mishap
  BY DEF Mishap, StepFails, Kill, CliKill, Reboot, trees
<1>14. ~(RemovalReview \/ StopGate \/ StopHalt \/ StopRecheck \/ RestoreNetwork
         \/ RemoveManagedRuntime \/ PurgeConfig \/ RemoveBinary)
  BY DEF RemovalReview, StopGate, StopHalt, StopRecheck, RestoreNetwork, RemoveManagedRuntime,
     PurgeConfig, RemoveBinary, trees
<1>15. PurgeEntries
  BY <1>3, <1>5, <1>6, <1>7, <1>8, <1>9, <1>10, <1>11, <1>12, <1>13, <1>14 DEF DataNext, RemovalStep
<1>16. CASE cmd.pc = "backups"
           /\ root' = [root EXCEPT !.boxes = IF KeepBackups THEN @ ELSE {}, !.base = FALSE]
  <2>1. ~KeepBackups
    BY <1>1, <1>16 DEF Roots
  <2>2. cmd.view.boxes = Cardinality(root.boxes) /\ cmd.view.boxes \in Nat /\ root.boxes \in Boxes
    BY <1>1, <1>16 DEF RemovalInv, DataType, Cmds, Views, Roots
  <2>3. cmd.opt \/ cmd.view.boxes = 0
    BY <2>1, <2>2 DEF KeepBackups
  <2> QED
    BY <2>2, <2>3, BoxesFacts
<1>17. CASE cmd.pc = "secrets" /\ root' = [root EXCEPT !.secrets = {}]
  BY <1>1, <1>17 DEF Roots
<1>18. CASE cmd.pc = "doc" /\ root' = IF KeepBackups \/ root.secrets # {}
                                        THEN [root EXCEPT !.doc = NoDoc] ELSE NoRoot
  <2>1. root' # [root EXCEPT !.doc = NoDoc]
    BY <1>1 DEF Roots
  <2>2. ~KeepBackups
    BY <1>18, <2>1
  <2> QED
    BY <1>18, <2>2 DEF RemovalInv
<1> QED
  BY <1>15, <1>16, <1>17, <1>18 DEF PurgeEntries, Reached

(* What a removal has done when it reports its end.                        *)
LEMMA RemovedExactly ==
  ASSUME DataInv, RemoveBinary, "stray" \notin flaws
  PROVE  /\ units' = [files |-> FALSE, on |-> FALSE, up |-> FALSE]
         /\ net' = 0 /\ ~conf'.made
         /\ cmd.kind = "uninstall" => root'.doc = cmd.view.doc
         /\ cmd.kind = "purge" => conf' = NoConf /\ root'.doc = NoDoc /\ root'.secrets = {}
<1> USE DEF DataInv, StaticInv
<1>1. cmd.pc = "binary" /\ UNCHANGED <<conf, root, units, net>>
  BY DEF RemoveBinary, Reached, trees
<1>2. ~units.up /\ ~units.on
  BY <1>1 DEF UnitsInv, Deleting
<1>3. /\ net = 0 /\ ~units.files /\ ~conf.made
      /\ cmd.kind = "purge" => conf = NoConf /\ root.doc = NoDoc /\ root.secrets = {}
      /\ cmd.kind = "uninstall" => root.doc = cmd.view.doc
  BY <1>1 DEF RemovalInv, Deleting
<1>4. units = [files |-> FALSE, on |-> FALSE, up |-> FALSE]
  <2>1. units.up = FALSE /\ units.on = FALSE /\ units.files = FALSE
    BY <1>2, <1>3 DEF DataType
  <2> QED
    BY <2>1 DEF DataType
<1> QED
  BY <1>1, <1>3, <1>4

(* uninstall and purge act only on the state that the operator has         *)
(* reviewed, take backups only when told to, and a removal that reports    *)
(* its end has left nothing running and of the data what it says.          *)
THEOREM RemovalsAreConsented == DataSpec => RemovalConsented
<1>1. DataInv /\ [DataNext]_dataVars =>
        [cmd.kind \in {"uninstall", "purge"} /\ "stray" \notin flaws' =>
           /\ cmd.pc \in {"net", "runtime", "data", "backups"} /\ cmd' # Idle
                => root.doc = cmd.view.doc
           /\ root'.boxes # root.boxes => cmd.opt \/ root.boxes = {}
           /\ Ends("removed") =>
                /\ units' = [files |-> FALSE, on |-> FALSE, up |-> FALSE]
                /\ net' = 0 /\ ~conf'.made
                /\ cmd.kind = "uninstall" => root'.doc = cmd.view.doc
                /\ cmd.kind = "purge" => conf' = NoConf /\ root'.doc = NoDoc /\ root'.secrets = {}
        ]_dataVars
  <2> SUFFICES ASSUME DataInv, DataNext, cmd.kind \in {"uninstall", "purge"}, "stray" \notin flaws'
               PROVE  /\ cmd.pc \in {"net", "runtime", "data", "backups"} => root.doc = cmd.view.doc
                      /\ root'.boxes # root.boxes => cmd.opt \/ root.boxes = {}
                      /\ Ends("removed") =>
                           /\ units' = [files |-> FALSE, on |-> FALSE, up |-> FALSE]
                           /\ net' = 0 /\ ~conf'.made
                           /\ cmd.kind = "uninstall" => root'.doc = cmd.view.doc
                           /\ cmd.kind = "purge" =>
                                conf' = NoConf /\ root'.doc = NoDoc /\ root'.secrets = {}
    OBVIOUS
  <2>1. "stray" \notin flaws
    BY StrayStays
  <2>2. cmd.pc \in {"net", "runtime", "data", "backups"} => root.doc = cmd.view.doc
    BY <2>1 DEF DataInv, RemovalInv, Deleting
  <2>3. root'.boxes # root.boxes => cmd.opt \/ root.boxes = {}
    BY BoxesTaken
  <2>4. Ends("removed") => RemoveBinary
    BY EndedBy
  <2> QED
    BY <2>1, <2>2, <2>3, <2>4, RemovedExactly
<1> QED
  BY <1>1, InitData, NextData, PTL DEF DataSpec, RemovalConsented

(***************************************************************************)
(* The listener                                                            *)
(***************************************************************************)
Names == HostNames \cup {"none"}
ChangeStates == {"none", "prepared", "committed"}
Changed == [state : ChangeStates, prev : Names, next : Names,
            impact : SUBSET Peers, under : SUBSET Peers]
HostStates == [gen : Nat, host : Names, users : SUBSET Peers, change : Changed]
Files == [host : Names, users : SUBSET Peers]
FilePairs == [config : Files, marker : Files]

(* A command before it has the lock of the activation, and with it.        *)
Unlocked == {"idle", "planned", "record", "lock"}
Holding == {"stage", "verify", "rename", "swap", "mark", "restart", "commit", "look",
            "finish", "uncertain", "undo", "undone"}
Moving == Holding \ {"stage", "verify", "rename", "swap"}
Moved == Moving \ {"undo"}
ChangeKinds == {"none", "prepare", "commit", "rollback"}
HostCommands == [pc : Unlocked \cup Holding, kind : ChangeKinds, base : HostStates,
                 cand : HostStates, moved : BOOLEAN]
WriterPCs == {"idle", "render", "publish", "marker", "restart", "save", "restore"}
HostWriters == [pc : WriterPCs, kind : {"none", "client", "revoke", "repair", "join"},
                file : Files, old : FilePairs, cand : HostStates]

HostType ==
  /\ saved \in HostStates /\ live \in FilePairs /\ runs \in Files
  /\ change \in [HostProcs -> HostCommands] /\ writer \in HostWriters
  /\ flock \in HostProcs \cup {"none"}

(* A generation names one state: a command whose generation is still the   *)
(* current one was planned for the current state.                          *)
Reviewed(s) == s.change.state = "committed" => s.change.impact = s.change.under
PlanOf(c) ==
  /\ Reviewed(c.cand)
  /\ c.pc # "idle" =>
       /\ c.base.gen <= saved.gen
       /\ c.base.gen = saved.gen => c.base = saved
       /\ c.cand.gen = c.base.gen + 1
       /\ c.kind = "prepare" => Render(c.cand) = Render(c.base)
       /\ c.pc = "record" => c.kind = "prepare"
PlanInv ==
  /\ Reviewed(saved) /\ Reviewed(writer.cand)
  /\ \A p \in HostProcs : PlanOf(change[p])

(* Who has files in hand holds the lock.                                   *)
LockOf(p) ==
  /\ change[p].pc \in Holding => flock = p
  /\ change[p].moved => change[p].pc \in Moving
  /\ change[p].pc \in Moved => change[p].moved
LockInv == \A p \in HostProcs : LockOf(p)

HostWriterInv ==
  /\ writer.pc = "idle" => writer = NoWriter
  /\ writer.pc \in {"save", "restore"} => writer.kind = "join"
  /\ writer.pc = "render" => writer.kind # "join"

(* Files and listener, as long as there is no reason for them to differ.   *)
(* A writer at rest has nothing to write; an activation between its last   *)
(* look and its end shares the files with such a writer only.              *)
Resting == ~Holds /\ writer.pc # "render"
FilesClean ==
  Resting => /\ Published(Render(saved))
             /\ writer.pc = "idle" => runs = Render(saved)
CommandSettled(p) ==
  /\ Exposed(p) => ~Holds
  /\ Exposed(p) /\ change[p].pc \notin {"look", "uncertain"} /\ writer.pc # "render" =>
       Render(saved) = Render(change[p].base)
  /\ change[p].pc \in {"commit", "look"} =>
       Published(Render(change[p].cand)) /\ runs = Render(change[p].cand)
WriterSettled ==
  /\ writer.pc \in {"publish", "marker"} /\ writer.kind # "join" =>
       writer.file = Render(saved)
  /\ writer.pc = "marker" => live.config = writer.file
  /\ writer.kind = "join" =>
       /\ writer.pc = "restart" => Published(writer.file)
       /\ writer.pc = "save" => Published(writer.file) /\ runs = writer.file
       /\ writer.file = Render(writer.cand)
       /\ writer.old.config = Render(saved) /\ writer.old.marker = Render(saved)
Settled ==
  /\ (\A p \in HostProcs : ~Midway(p)) => FilesClean
  /\ \A p \in HostProcs : CommandSettled(p)
  /\ WriterSettled
SettledInv == unsettled = "no" => Settled

HostInv == HostType /\ PlanInv /\ LockInv /\ HostWriterInv /\ SettledInv

-----------------------------------------------------------------------------
(* Shapes that the actions have in common.                                 *)

(* The command q goes on at pc, with its plan.                             *)
Onward(q, at, b) == [pc |-> at, kind |-> change[q].kind, base |-> change[q].base,
                     cand |-> change[q].cand, moved |-> b]

(* The command of q becomes x, and no other changes.                       *)
Takes(q, x) ==
  /\ x \in HostCommands /\ change' \in [HostProcs -> HostCommands]
  /\ change'[q] = x /\ \A o \in HostProcs : o # q => change'[o] = change[o]

(* A command goes on: the same plan, only a prepare is recorded, and files *)
(* are moved under the lock.                                               *)
Goes(q) ==
  \E at \in (Unlocked \cup Holding) \ {"idle"}, b \in BOOLEAN :
    /\ Takes(q, Onward(q, at, b)) /\ change[q].pc # "idle"
    /\ at = "record" => change[q].kind = "prepare"
    /\ at \in Holding => flock' = q
    /\ b => at \in Moving
    /\ at \in Moved => b

(* A command is planned.                                                   *)
Planned(q, x) ==
  /\ Takes(q, x) /\ x.pc = "planned" /\ ~x.moved /\ UNCHANGED <<saved, flock>>
  /\ x.base = saved /\ x.cand.gen = saved.gen + 1 /\ Reviewed(x.cand)
  /\ x.kind = "prepare" => Render(x.cand) = Render(saved)

(* A command ends, and its lock goes with it.                              *)
Gives(q) ==
  /\ Takes(q, NoCommand)
  /\ \/ flock' = (IF flock = q THEN "none" ELSE flock)
     \/ flock' = flock /\ change[q].pc \in Unlocked

(* A step of the command q.                                                *)
HostShape(q) ==
  /\ \/ Gives(q)
     \/ Goes(q) /\ (flock' = flock \/ (flock = "none" /\ flock' = q))
     \/ \E x \in HostCommands : Planned(q, x)
  /\ \/ saved' = saved
     \/ /\ saved' = change[q].cand /\ saved.gen = change[q].base.gen
        /\ change[q].pc # "idle"
  /\ writer' = writer /\ live' \in FilePairs /\ runs' \in Files

(* The empty records have their types.                                     *)
LEMMA NothingTyped ==
  /\ NoChange \in Changed /\ NoState \in HostStates /\ NoFile \in Files
  /\ NoCommand \in HostCommands /\ NoWriter \in HostWriters
  /\ NoCommand.pc = "idle" /\ ~NoCommand.moved /\ NoCommand.cand = NoState
  /\ NoWriter.pc = "idle" /\ NoWriter.kind = "none" /\ NoWriter.cand = NoState
  /\ Reviewed(NoState)
<1>1. NoChange \in Changed
  BY DEF NoChange, Changed, ChangeStates, Names
<1>2. NoState \in HostStates /\ Reviewed(NoState)
  BY <1>1 DEF NoState, HostStates, Names, Reviewed, NoChange
<1>3. NoFile \in Files
  BY DEF NoFile, Files, Names
<1>4. NoCommand \in HostCommands /\ NoCommand.pc = "idle" /\ NoCommand.cand = NoState
  BY <1>2 DEF NoCommand, HostCommands, Unlocked, ChangeKinds
<1>5. ~NoCommand.moved
  BY DEF NoCommand
<1>6. [config |-> NoFile, marker |-> NoFile] \in FilePairs
  BY <1>3 DEF FilePairs
<1>7. /\ NoWriter \in HostWriters
      /\ NoWriter.pc = "idle" /\ NoWriter.kind = "none" /\ NoWriter.cand = NoState
  BY <1>2, <1>3, <1>6 DEF NoWriter, HostWriters, WriterPCs
<1> QED
  BY <1>1, <1>2, <1>3, <1>4, <1>5, <1>7

(* The program counters a command is at.                                   *)
LEMMA Counters ==
  /\ {"planned", "record", "lock"} \subseteq Unlocked \ {"idle"} /\ "idle" \in Unlocked
  /\ {"stage", "verify", "rename", "swap", "mark", "restart", "commit", "look",
      "finish", "uncertain", "undo", "undone"} = Holding
  /\ Unlocked \cap Holding = {} /\ "idle" \notin Holding /\ Moving \subseteq Holding
  /\ {"mark", "restart", "commit", "look", "finish", "uncertain", "undo", "undone"} = Moving
  /\ {"mark", "restart", "commit", "look", "finish", "uncertain", "undone"} = Moved
BY DEF Unlocked, Holding, Moving, Moved

(* What is rendered are files.                                             *)
LEMMA Rendered == \A s \in HostStates : Render(s) \in Files
BY DEF HostStates, Render, Files

(* A command that moves has the plan it had.                               *)
LEMMA MovesOn ==
  ASSUME HostType, NEW p \in HostProcs, NEW at \in (Unlocked \cup Holding) \ {"idle"}, Moves(p, at)
  PROVE  Takes(p, Onward(p, at, change[p].moved))
<1>1. change[p] \in HostCommands /\ change \in [HostProcs -> HostCommands]
  BY DEF HostType
<1>2. Onward(p, at, change[p].moved) \in HostCommands
  BY <1>1 DEF Onward, HostCommands
<1>3. [change[p] EXCEPT !.pc = at] = Onward(p, at, change[p].moved)
  BY <1>1 DEF HostCommands, Onward
<1>4. change' = [change EXCEPT ![p] = Onward(p, at, change[p].moved)]
  BY <1>1, <1>3 DEF Moves
<1> QED
  BY <1>1, <1>2, <1>4 DEF Takes

(* A command that ends is gone.                                            *)
LEMMA Left ==
  ASSUME HostType, NEW p \in HostProcs, Leave(p) \/ Moves(p, "idle")
  PROVE  Takes(p, NoCommand)
BY NothingTyped DEF HostType, Leave, Moves, Takes

(* Types, plans and the lock, at each step of a command.                   *)
Base == HostType /\ PlanInv /\ LockInv /\ HostWriterInv

(* A step of a command keeps types, plans and the lock.                    *)
LEMMA ShapeBase ==
  ASSUME Base, NEW q \in HostProcs, HostShape(q)
  PROVE  Base'
<1>0. /\ HostType /\ PlanInv /\ LockInv /\ HostWriterInv
      /\ change[q] \in HostCommands /\ saved \in HostStates /\ saved.gen \in Nat
      /\ change[q].cand \in HostStates /\ PlanOf(change[q])
  BY DEF Base, HostType, HostCommands, HostStates, PlanInv
<1>1. PICK x \in HostCommands :
        /\ Takes(q, x)
        /\ \/ x = NoCommand
           \/ \E at \in (Unlocked \cup Holding) \ {"idle"}, b \in BOOLEAN :
                /\ x = Onward(q, at, b) /\ change[q].pc # "idle"
                /\ at = "record" => change[q].kind = "prepare"
           \/ Planned(q, x)
  <2>1. CASE Gives(q)
    BY <2>1, NothingTyped DEF Gives
  <2>2. ASSUME NEW at \in (Unlocked \cup Holding) \ {"idle"}, NEW b \in BOOLEAN,
               Takes(q, Onward(q, at, b)), change[q].pc # "idle",
               at = "record" => change[q].kind = "prepare"
        PROVE  \E x \in HostCommands :
                 /\ Takes(q, x)
                 /\ \E c \in (Unlocked \cup Holding) \ {"idle"}, d \in BOOLEAN :
                      /\ x = Onward(q, c, d) /\ change[q].pc # "idle"
                      /\ c = "record" => change[q].kind = "prepare"
    <3>1. Onward(q, at, b) \in HostCommands
      BY <2>2 DEF Takes
    <3> QED
      BY <2>2, <3>1
  <2>3. ASSUME NEW x \in HostCommands, Planned(q, x) PROVE Takes(q, x)
    BY <2>3 DEF Planned
  <2> QED
    BY <2>1, <2>2, <2>3 DEF HostShape, Goes
<1>2. saved' \in HostStates /\ (saved' = saved \/ saved'.gen = saved.gen + 1)
  BY <1>0 DEF HostShape, PlanOf
<1>3. Reviewed(saved)'
  BY <1>0 DEF HostShape, PlanOf, PlanInv, Reviewed
<1>4. flock' \in HostProcs \cup {"none"}
  BY <1>0 DEF HostShape, Gives, Planned, HostType
<1>5. HostType'
  BY <1>0, <1>1, <1>2, <1>4 DEF HostShape, HostType, Takes
<1>6. HostWriterInv'
  BY <1>0 DEF HostShape, HostWriterInv
<1>7. ASSUME NEW o \in HostProcs PROVE PlanOf(change[o])'
  <2>0. change[o] \in HostCommands /\ change[o].base.gen \in Nat /\ PlanOf(change[o])
    BY <1>0 DEF HostType, HostCommands, HostStates, PlanInv
  <2>1. CASE o # q
    <3>1. change'[o] = change[o]
      BY <1>1, <2>1 DEF Takes
    <3> QED
      BY <1>0, <1>2, <2>0, <3>1 DEF PlanOf
  <2>2. CASE o = q /\ x = NoCommand
    <3>1. change'[o] = NoCommand
      BY <1>1, <2>2 DEF Takes
    <3> QED
      BY <3>1, NothingTyped DEF PlanOf
  <2>3. ASSUME o = q, NEW at \in (Unlocked \cup Holding) \ {"idle"}, NEW b \in BOOLEAN,
               x = Onward(q, at, b), change[q].pc # "idle", at = "record" => change[q].kind = "prepare"
        PROVE  PlanOf(change[o])'
    <3>1. /\ change'[o].pc = at /\ change'[o].kind = change[q].kind
          /\ change'[o].base = change[q].base /\ change'[o].cand = change[q].cand
      BY <1>1, <2>3 DEF Takes, Onward
    <3> QED
      BY <1>0, <1>2, <2>0, <2>3, <3>1 DEF PlanOf
  <2>4. CASE o = q /\ Planned(q, x)
    <3>1. change'[o] = x /\ saved' = saved
      BY <2>4 DEF Planned, Takes
    <3> QED
      BY <1>0, <2>4, <3>1 DEF Planned, PlanOf
  <2> QED
    BY <1>1, <2>1, <2>2, <2>3, <2>4
<1>8. PlanInv'
  BY <1>0, <1>3, <1>7 DEF PlanInv, HostShape
<1>9. LockInv'
  <2> SUFFICES ASSUME NEW o \in HostProcs PROVE LockOf(o)'
    BY DEF LockInv
  <2>0. LockOf(o) /\ LockOf(q) /\ o # "none" /\ q # "none"
    BY <1>0, HandshakeHostAssumptions DEF LockInv
  <2>1. CASE Gives(q)
    <3>1. CASE o = q
      <4>1. change'[o] = NoCommand
        BY <2>1, <3>1 DEF Gives, Takes
      <4> QED
        BY <4>1, NothingTyped, Counters DEF LockOf
    <3>2. CASE o # q
      <4>1. change'[o] = change[o]
        BY <2>1, <3>2 DEF Gives, Takes
      <4> QED
        BY <2>0, <2>1, <3>2, <4>1 DEF LockOf, Gives
    <3> QED
      BY <3>1, <3>2
  <2>2. CASE Goes(q) /\ (flock' = flock \/ (flock = "none" /\ flock' = q))
    <3>1. CASE o = q
      <4>1. PICK at \in (Unlocked \cup Holding) \ {"idle"}, b \in BOOLEAN :
              /\ change'[q] = Onward(q, at, b)
              /\ at \in Holding => flock' = q
              /\ b => at \in Moving
              /\ at \in Moved => b
        BY <2>2 DEF Goes, Takes
      <4>2. change'[q].pc = at /\ (change'[q].moved <=> b)
        BY <4>1 DEF Onward
      <4> QED
        BY <3>1, <4>1, <4>2 DEF LockOf
    <3>2. CASE o # q
      <4>1. change'[o] = change[o]
        BY <2>2, <3>2 DEF Goes, Takes
      <4> QED
        BY <2>0, <2>2, <3>2, <4>1 DEF LockOf
    <3> QED
      BY <3>1, <3>2
  <2>3. ASSUME NEW y \in HostCommands, Planned(q, y) PROVE LockOf(o)'
    <3>1. CASE o = q
      <4>1. change'[o] = y
        BY <2>3, <3>1 DEF Planned, Takes
      <4> QED
        BY <2>3, <4>1, Counters DEF Planned, LockOf
    <3>2. CASE o # q
      <4>1. change'[o] = change[o] /\ flock' = flock
        BY <2>3, <3>2 DEF Planned, Takes
      <4> QED
        BY <2>0, <4>1 DEF LockOf
    <3> QED
      BY <3>1, <3>2
  <2> QED
    BY <2>1, <2>2, <2>3 DEF HostShape
<1> QED
  BY <1>5, <1>6, <1>8, <1>9 DEF Base

(* A command that moves on without taking or giving up the lock.           *)
LEMMA MovesGoes ==
  ASSUME Base, NEW p \in HostProcs, NEW at \in (Unlocked \cup Holding) \ {"idle"}, Moves(p, at),
         UNCHANGED flock, change[p].pc # "idle", at \in Holding <=> change[p].pc \in Holding,
         change[p].pc \in Moving => at \in Moving, at \in Moved => change[p].moved \/ change[p].pc \in Moved,
         at = "record" => change[p].kind = "prepare"
  PROVE  Goes(p) /\ flock' = flock /\ Takes(p, Onward(p, at, change[p].moved))
<1>1. Takes(p, Onward(p, at, change[p].moved))
  BY MovesOn DEF Base
<1>2. /\ change[p].moved \in BOOLEAN
      /\ at \in Holding => flock' = p
      /\ change[p].moved => at \in Moving
      /\ at \in Moved => change[p].moved
  BY DEF Base, HostType, HostCommands, LockInv, LockOf
<1> QED
  BY <1>1, <1>2 DEF Goes

(* A command that ends.                                                    *)
LEMMA EndsGives ==
  ASSUME Base, NEW p \in HostProcs,
         Leaves(p) \/ ((Leave(p) \/ Moves(p, "idle")) /\ UNCHANGED flock /\ change[p].pc \in Unlocked)
  PROVE  Gives(p)
<1>1. Takes(p, NoCommand)
  BY Left DEF Base, Leaves
<1> QED
  BY <1>1 DEF Gives, Leaves

(* The outcomes of a save.                                                 *)
LEMMA SaveShape ==
  ASSUME Base, NEW p \in HostProcs, NEW a \in Holding \cup {"idle"}, NEW b \in Holding \cup {"idle"},
         NEW c \in Holding \cup {"idle"}, NEW d \in Holding \cup {"idle"},
         Save(p, a, b, c, d), UNCHANGED flock, change[p].pc # "idle",
         \A x \in {a, b, c, d} : (x \in Holding <=> change[p].pc \in Holding) /\ x \notin Holding \ Moving,
         change[p].pc \in Holding => change[p].pc \in Moved
  PROVE  /\ Gives(p) \/ (Goes(p) /\ flock' = flock)
         /\ \/ saved' = saved
            \/ saved' = change[p].cand /\ saved.gen = change[p].base.gen
<1>1. PICK x \in {a, b, c, d} : Moves(p, x)
  BY DEF Save
<1>2. CASE x = "idle"
  <2>1. change[p].pc \in Unlocked
    BY <1>1, <1>2, Counters DEF Base, HostType, HostCommands
  <2> QED
    BY <1>1, <1>2, <2>1, EndsGives DEF Save
<1>3. CASE x # "idle"
  <2>1. x \in (Unlocked \cup Holding) \ {"idle"} /\ x # "record"
    BY <1>1, <1>3, Counters DEF Holding
  <2> QED
    BY <1>1, <2>1, MovesGoes DEF Save
<1> QED
  BY <1>2, <1>3

(* The three plans.                                                        *)
LEMMA PlanShape ==
  ASSUME Base, NEW p \in HostProcs, NEW kind \in ChangeKinds, NEW cand \in HostStates, Plan(p, kind, cand),
         cand.gen = saved.gen + 1, Reviewed(cand), kind = "prepare" => Render(cand) = Render(saved)
  PROVE  HostShape(p)
<1> DEFINE x == [NoCommand EXCEPT !.pc = "planned", !.kind = kind, !.base = saved, !.cand = cand]
<1>0. HostType /\ saved \in HostStates
  BY DEF Base, HostType
<1>2. x \in HostCommands
  BY <1>0, NothingTyped, Counters DEF HostCommands
<1>3. change' = [change EXCEPT ![p] = x]
  BY DEF Plan
<1>4. x.pc = "planned" /\ ~x.moved /\ x.base = saved /\ x.cand = cand /\ x.kind = kind
  BY <1>0, NothingTyped DEF HostCommands
<1> HIDE DEF x
<1>5. Takes(p, x)
  BY <1>0, <1>2, <1>3 DEF Takes, HostType
<1>6. UNCHANGED <<saved, flock, writer, live, runs>>
  BY DEF Plan, listener
<1>7. Planned(p, x)
  BY <1>4, <1>5, <1>6 DEF Planned
<1> QED
  BY <1>0, <1>2, <1>6, <1>7 DEF HostShape, HostType

(* What is planned.                                                        *)
LEMMA PlansShape ==
  ASSUME Base, NEW p \in HostProcs,
         (\E h \in HostNames : PlanPrepare(p, h)) \/ PlanCommit(p) \/ PlanRollback(p)
  PROVE  HostShape(p)
<1>0. /\ saved \in HostStates /\ saved.gen \in Nat /\ saved.gen + 1 \in Nat /\ saved.host \in Names
      /\ saved.users \in SUBSET Peers /\ saved.change \in Changed
  BY DEF Base, HostType, HostStates
<1>1. ASSUME NEW h \in HostNames, PlanPrepare(p, h) PROVE HostShape(p)
  <2> DEFINE c == [state |-> "prepared", prev |-> saved.host, next |-> h,
                   impact |-> Impact(saved), under |-> {}]
             cand == [saved EXCEPT !.gen = @ + 1, !.change = c]
  <2>1. c \in Changed /\ c.state = "prepared"
    BY <1>0 DEF Changed, ChangeStates, Names, Impact
  <2> HIDE DEF c
  <2>2. /\ cand \in HostStates /\ cand.gen = saved.gen + 1 /\ cand.change = c
        /\ cand.host = saved.host /\ cand.users = saved.users
    BY <1>0, <2>1 DEF HostStates
  <2>3. Plan(p, "prepare", cand)
    BY <1>1 DEF PlanPrepare, c
  <2> HIDE DEF cand
  <2>4. Reviewed(cand) /\ Render(cand) = Render(saved)
    BY <2>1, <2>2 DEF Reviewed, Render
  <2> QED
    BY <2>2, <2>3, <2>4, PlanShape DEF ChangeKinds
<1>2. CASE PlanCommit(p)
  <2> DEFINE c == [saved.change EXCEPT !.state = "committed", !.under = saved.users]
             cand == [saved EXCEPT !.gen = @ + 1, !.host = saved.change.next, !.change = c]
  <2>1. c \in Changed /\ c.impact = saved.change.impact /\ c.under = saved.users
    BY <1>0 DEF Changed, ChangeStates
  <2>2. saved.users = saved.change.impact
    BY <1>2 DEF PlanCommit, ImpactUnchanged, Impact
  <2> HIDE DEF c
  <2>3. cand \in HostStates /\ cand.gen = saved.gen + 1 /\ cand.change = c
    BY <1>0, <2>1 DEF HostStates, Changed
  <2>4. Plan(p, "commit", cand)
    BY <1>2 DEF PlanCommit, c
  <2> HIDE DEF cand
  <2>5. Reviewed(cand)
    BY <2>1, <2>2, <2>3 DEF Reviewed
  <2> QED
    BY <2>3, <2>4, <2>5, PlanShape DEF ChangeKinds
<1>3. CASE PlanRollback(p)
  <2> DEFINE cand == [saved EXCEPT !.gen = @ + 1, !.host = saved.change.prev, !.change = NoChange]
  <2>1. cand \in HostStates /\ cand.gen = saved.gen + 1 /\ cand.change = NoChange
    BY <1>0, NothingTyped DEF HostStates, Changed
  <2>2. Plan(p, "rollback", cand)
    BY <1>3 DEF PlanRollback
  <2> HIDE DEF cand
  <2>3. Reviewed(cand)
    BY <2>1 DEF Reviewed, NoChange
  <2> QED
    BY <2>1, <2>2, <2>3, PlanShape DEF ChangeKinds
<1> QED
  BY <1>1, <1>2, <1>3

(* A command with another counter and its mark, written out.               *)
LEMMA Remade ==
  ASSUME NEW c \in HostCommands, NEW at \in Unlocked \cup Holding
  PROVE  [c EXCEPT !.pc = at, !.moved = TRUE] =
           [pc |-> at, kind |-> c.kind, base |-> c.base, cand |-> c.cand, moved |-> TRUE]
<1> DEFINE x == [c EXCEPT !.pc = at, !.moved = TRUE]
           y == [pc |-> at, kind |-> c.kind, base |-> c.base, cand |-> c.cand, moved |-> TRUE]
<1>1. /\ x \in HostCommands /\ x.pc = at /\ x.kind = c.kind /\ x.base = c.base
      /\ x.cand = c.cand /\ x.moved
  BY DEF HostCommands
<1>2. /\ y \in HostCommands /\ y.pc = at /\ y.kind = c.kind /\ y.base = c.base
      /\ y.cand = c.cand /\ y.moved
  BY DEF HostCommands
<1> HIDE DEF x, y
<1>3. x.moved = y.moved
  BY <1>1, <1>2 DEF HostCommands
<1>4. x = y
  BY <1>1, <1>2, <1>3 DEF HostCommands
<1> QED
  BY <1>4 DEF x, y

(* Every step of a command has the shape of one.                           *)
LEMMA StepShape ==
  ASSUME Base, NEW p \in HostProcs, HostStep(p) \/ HostKill(p)
  PROVE  HostShape(p)
<1>0. /\ HostType /\ change[p] \in HostCommands /\ live \in FilePairs /\ runs \in Files
      /\ change[p].base \in HostStates /\ change[p].cand \in HostStates
      /\ Render(change[p].base) \in Files /\ Render(change[p].cand) \in Files
      /\ live.config \in Files /\ live.marker \in Files
  BY Rendered DEF Base, HostType, HostCommands, FilePairs
<1>1. CASE Confirmed(p)
  <2>1. UNCHANGED <<saved, writer, live, runs, flock>> /\ change[p].pc = "planned"
    BY <1>1 DEF Confirmed, In, listener
  <2>2. CASE Leave(p)
    BY <1>0, <2>1, <2>2, EndsGives, Counters DEF HostShape
  <2>3. CASE Moves(p, "record") /\ change[p].kind = "prepare"
    BY <1>0, <2>1, <2>3, MovesGoes, Counters DEF HostShape
  <2>4. CASE Moves(p, "lock")
    BY <1>0, <2>1, <2>4, MovesGoes, Counters DEF HostShape
  <2> QED
    BY <1>1, <2>2, <2>3, <2>4 DEF Confirmed
<1>2. CASE PrepareSave(p)
  <2>1. /\ UNCHANGED <<writer, live, runs, flock>> /\ change[p].pc = "record"
        /\ Save(p, "idle", "idle", "idle", "idle")
    BY <1>2 DEF PrepareSave, In, listener
  <2> QED
    BY <1>0, <2>1, SaveShape, Counters DEF HostShape
<1>3. CASE CommitSave(p)
  <2>1. /\ UNCHANGED <<writer, live, runs, flock>> /\ change[p].pc = "commit"
        /\ Save(p, "finish", "look", "look", "look")
    BY <1>3 DEF CommitSave, In, listener
  <2> QED
    BY <1>0, <2>1, SaveShape, Counters DEF HostShape
<1>4. CASE Lock(p)
  <2>1. UNCHANGED <<saved, writer, live, runs>> /\ change[p].pc = "lock"
    BY <1>4 DEF Lock, In
  <2>2. CASE Leave(p) /\ UNCHANGED flock
    BY <1>0, <2>1, <2>2, EndsGives, Counters DEF HostShape
  <2>3. CASE flock = "none" /\ flock' = p /\ Moves(p, "stage")
    <3>1. Takes(p, Onward(p, "stage", change[p].moved))
      BY <1>0, <2>3, MovesOn, Counters
    <3>2. change[p].moved \in BOOLEAN /\ ~change[p].moved
      BY <1>0, <2>1, Counters DEF HostCommands, Base, LockInv, LockOf
    <3>3. Goes(p)
      BY <2>1, <2>3, <3>1, <3>2, Counters DEF Goes
    <3> QED
      BY <1>0, <2>1, <2>3, <3>3 DEF HostShape
  <2> QED
    BY <1>4, <2>2, <2>3 DEF Lock
<1>5. CASE Stage(p)
  <2>1. UNCHANGED <<saved, writer, live, runs>> /\ change[p].pc = "stage"
    BY <1>5 DEF Stage, In
  <2>2. CASE Leaves(p)
    BY <1>0, <2>1, <2>2, EndsGives DEF HostShape
  <2>3. CASE Moves(p, "verify") /\ UNCHANGED flock
    BY <1>0, <2>1, <2>3, MovesGoes, Counters DEF HostShape
  <2> QED
    BY <1>5, <2>2, <2>3 DEF Stage
<1>6. CASE Verify(p)
  <2>1. UNCHANGED <<saved, writer, live, runs>> /\ change[p].pc = "verify"
    BY <1>6 DEF Verify, In
  <2>2. CASE Leaves(p)
    BY <1>0, <2>1, <2>2, EndsGives DEF HostShape
  <2>3. CASE Moves(p, "rename") /\ UNCHANGED flock
    BY <1>0, <2>1, <2>3, MovesGoes, Counters DEF HostShape
  <2> QED
    BY <1>6, <2>2, <2>3 DEF Verify
<1>7a. CASE LastLook(p)
  <2>1. UNCHANGED <<saved, writer, live, runs, flock>> /\ change[p].pc = "rename"
    BY <1>7a DEF LastLook, In, listener
  <2>2. \E at \in {"swap", "undo"} : Moves(p, at)
    BY <1>7a DEF LastLook
  <2> QED
    BY <1>0, <2>1, <2>2, MovesGoes, Counters DEF HostShape
<1>7. CASE RenameConfig(p)
  <2>1. UNCHANGED <<saved, writer, runs, flock>> /\ change[p].pc = "swap"
    BY <1>7 DEF RenameConfig, In
  <2>2. CASE Moves(p, "undo") /\ UNCHANGED live
    BY <1>0, <2>1, <2>2, MovesGoes, Counters DEF HostShape
  <2>3. CASE /\ live' = [live EXCEPT !.config = Render(change[p].cand)]
             /\ change' = [change EXCEPT ![p].pc = "mark", ![p].moved = TRUE]
    <3>1. Onward(p, "mark", TRUE) \in HostCommands
      BY <1>0, Counters DEF Onward, HostCommands
    <3>2. change' = [change EXCEPT ![p] = Onward(p, "mark", TRUE)]
      <4>1. [change[p] EXCEPT !.pc = "mark", !.moved = TRUE] = Onward(p, "mark", TRUE)
        BY <1>0, Remade, Counters DEF Onward
      <4> QED
        BY <1>0, <2>3, <4>1 DEF HostType
    <3>3. Takes(p, Onward(p, "mark", TRUE))
      BY <1>0, <3>1, <3>2 DEF HostType, Takes
    <3>4. flock = p
      BY <2>1, Counters DEF Base, LockInv, LockOf
    <3>5. Goes(p)
      BY <2>1, <3>3, <3>4, Counters DEF Goes
    <3>6. live' \in FilePairs
      BY <1>0, <2>3 DEF FilePairs
    <3> QED
      BY <1>0, <2>1, <3>5, <3>6 DEF HostShape
  <2> QED
    BY <1>7, <2>2, <2>3 DEF RenameConfig
<1>8. CASE RenameMarker(p)
  <2>1. UNCHANGED <<saved, writer, runs, flock>> /\ change[p].pc = "mark" /\ live' \in FilePairs
    BY <1>0, <1>8 DEF RenameMarker, In, FilePairs
  <2>2. \E at \in {"restart", "undo"} : Moves(p, at)
    BY <1>8 DEF RenameMarker
  <2> QED
    BY <1>0, <2>1, <2>2, MovesGoes, Counters DEF HostShape
<1>9. CASE Restart(p)
  <2>1. UNCHANGED <<saved, writer, live, flock>> /\ change[p].pc = "restart" /\ runs' \in Files
    BY <1>0, <1>9 DEF Restart, In
  <2>2. \E at \in {"commit", "undo"} : Moves(p, at)
    BY <1>9 DEF Restart
  <2> QED
    BY <1>0, <2>1, <2>2, MovesGoes, Counters DEF HostShape
<1>10. CASE Reconcile(p)
  <2>1. UNCHANGED <<saved, writer, live, runs, flock>> /\ change[p].pc = "look"
    BY <1>10 DEF Reconcile, In, listener
  <2>2. \E at \in {"finish", "undo", "uncertain"} : Moves(p, at)
    BY <1>10 DEF Reconcile, AfterFailedSave
  <2> QED
    BY <1>0, <2>1, <2>2, MovesGoes, Counters DEF HostShape
<1>11. CASE Finish(p) \/ Uncertain(p) \/ UndoRestart(p) \/ HostKill(p)
  <2>1. UNCHANGED <<saved, writer, live>> /\ Leaves(p) /\ runs' \in Files
    BY <1>0, <1>11 DEF Finish, Uncertain, UndoRestart, HostKill
  <2> QED
    BY <1>0, <2>1, EndsGives DEF HostShape
<1>12. CASE Undo(p)
  <2>1. UNCHANGED <<saved, writer, runs>> /\ change[p].pc = "undo"
    BY <1>12 DEF Undo, In
  <2>2. live' \in FilePairs
    <3>1. CASE live' \in [config : {live.config, Render(change[p].base)},
                         marker : {live.marker, Render(change[p].base)}]
      BY <1>0, <3>1 DEF FilePairs
    <3>2. CASE live' = [config |-> Render(change[p].base), marker |-> Render(change[p].base)]
      BY <1>0, <3>2 DEF FilePairs
    <3>3. CASE live' = live
      BY <1>0, <3>3
    <3> QED
      BY <1>12, <3>1, <3>2, <3>3 DEF Undo
  <2>3. CASE Leaves(p)
    BY <1>0, <2>1, <2>2, <2>3, EndsGives DEF HostShape
  <2>4. CASE Moves(p, "undone") /\ UNCHANGED flock /\ change[p].moved
    BY <1>0, <2>1, <2>2, <2>4, MovesGoes, Counters DEF HostShape
  <2> QED
    BY <1>12, <2>3, <2>4 DEF Undo
<1> QED
  BY <1>1, <1>2, <1>3, <1>4, <1>5, <1>6, <1>7, <1>7a, <1>8, <1>9, <1>10, <1>11, <1>12, PlansShape
     DEF HostStep

-----------------------------------------------------------------------------
(* The other writers                                                       *)

(* A step of another writer: the state is the same or of the generation    *)
(* that follows, and no command is disturbed.                              *)
OtherShape ==
  /\ UNCHANGED <<change, flock>>
  /\ saved' \in HostStates /\ (saved' = saved \/ saved'.gen = saved.gen + 1)
  /\ Reviewed(saved') /\ Reviewed(writer'.cand)
  /\ writer' \in HostWriters /\ HostWriterInv'
  /\ live' \in FilePairs /\ runs' \in Files

(* A step of another writer keeps types, plans and the lock.               *)
LEMMA OtherBase ==
  ASSUME Base, OtherShape
  PROVE  Base'
<1>0. HostType /\ PlanInv /\ LockInv /\ saved.gen \in Nat
  BY DEF Base, HostType, HostStates
<1>1. HostType'
  BY <1>0 DEF OtherShape, HostType
<1>2. LockInv'
  BY <1>0 DEF OtherShape, LockInv, LockOf
<1>3. ASSUME NEW o \in HostProcs PROVE PlanOf(change[o])'
  <2>1. change[o].base.gen \in Nat /\ PlanOf(change[o]) /\ change'[o] = change[o]
    BY <1>0 DEF HostType, HostCommands, HostStates, PlanInv, OtherShape
  <2> QED
    BY <1>0, <2>1 DEF OtherShape, PlanOf
<1>4. PlanInv'
  BY <1>3 DEF PlanInv, OtherShape
<1> QED
  BY <1>1, <1>2, <1>4 DEF Base, OtherShape

(* Adding or removing a user changes nothing else.                         *)
LEMMA ToggledState ==
  ASSUME Base, NEW u \in Peers
  PROVE  /\ Toggled(u) \in HostStates /\ Toggled(u).gen = saved.gen + 1
         /\ Toggled(u).change = saved.change /\ Reviewed(Toggled(u))
<1>0. saved \in HostStates /\ saved.gen \in Nat /\ saved.users \in SUBSET Peers /\ Reviewed(saved)
  BY DEF Base, HostType, HostStates, PlanInv
<1>1. /\ Toggled(u) \in HostStates /\ Toggled(u).gen = saved.gen + 1
      /\ Toggled(u).change = saved.change
  <2> DEFINE us == IF u \in saved.users THEN saved.users \ {u} ELSE saved.users \cup {u}
  <2>1. us \in SUBSET Peers
    BY <1>0
  <2>2. Toggled(u) = [saved EXCEPT !.gen = saved.gen + 1, !.users = us]
    BY <1>0 DEF Toggled, HostStates
  <2> HIDE DEF us
  <2>3. Toggled(u) \in HostStates
    <3>1. \A S : \A g \in Nat, v \in S, s \in [gen : Nat, host : Names, users : S, change : Changed] :
            [s EXCEPT !.gen = g, !.users = v] \in [gen : Nat, host : Names, users : S, change : Changed]
      OBVIOUS
    <3>2. \A g \in Nat, v \in SUBSET Peers, s \in HostStates :
            [s EXCEPT !.gen = g, !.users = v] \in HostStates
      BY <3>1, Zenon DEF HostStates
    <3>3. saved.gen + 1 \in Nat
      BY <1>0
    <3>4. [saved EXCEPT !.gen = saved.gen + 1, !.users = us] \in HostStates
      BY <1>0, <2>1, <3>2, <3>3, Zenon
    <3> QED
      BY <2>2, <3>4
  <2>4. Toggled(u).gen = saved.gen + 1
    BY <1>0, <2>2 DEF HostStates
  <2>5. Toggled(u).change = saved.change
    BY <1>0, <2>2 DEF HostStates
  <2> QED
    BY <2>3, <2>4, <2>5
<1> QED
  BY <1>0, <1>1 DEF Reviewed, HostStates, Changed

(* A writer at another counter.                                            *)
WriterAt(at) ==
  /\ writer' \in HostWriters /\ writer'.pc = at /\ writer'.kind = writer.kind
  /\ writer'.file = writer.file /\ writer'.old = writer.old /\ writer'.cand = writer.cand

(* What `!.pc` of a writer leaves alone.                                   *)
LEMMA WriterGoes ==
  ASSUME Base, NEW at \in WriterPCs, writer' = [writer EXCEPT !.pc = at]
  PROVE  WriterAt(at)
BY DEF Base, HostType, HostWriters, WriterAt

(* A writer at another counter with what it has rendered.                  *)
LEMMA WriterRendered ==
  ASSUME Base, NEW f \in Files, writer' = [writer EXCEPT !.pc = "publish", !.file = f]
  PROVE  /\ writer' \in HostWriters /\ writer'.pc = "publish" /\ writer'.kind = writer.kind
         /\ writer'.file = f /\ writer'.old = writer.old /\ writer'.cand = writer.cand
BY DEF Base, HostType, HostWriters, WriterPCs

(* A writer that begins.                                                   *)
LEMMA StateBegins ==
  ASSUME NEW k \in {"client", "revoke"}, NEW at \in {"render", "publish"}, Render(saved') \in Files,
         writer' = [NoWriter EXCEPT !.kind = k, !.file = Render(saved'), !.pc = at]
  PROVE  /\ writer' \in HostWriters /\ writer'.pc = at /\ writer'.kind = k
         /\ writer'.file = Render(saved') /\ writer'.cand = NoState
BY NothingTyped DEF HostWriters, WriterPCs

(* A join that begins, with its snapshot of the files.                     *)
LEMMA JoinBegins ==
  ASSUME NEW f \in Files, live \in FilePairs, NEW c \in HostStates,
         writer' = [NoWriter EXCEPT !.kind = "join", !.pc = "publish", !.cand = c,
                                    !.file = f, !.old = live]
  PROVE  /\ writer' \in HostWriters /\ writer'.pc = "publish" /\ writer'.kind = "join"
         /\ writer'.file = f /\ writer'.old = live /\ writer'.cand = c
BY NothingTyped DEF HostWriters, WriterPCs

(* A repair that begins.                                                   *)
LEMMA RepairBegins ==
  ASSUME writer' = [NoWriter EXCEPT !.kind = "repair", !.pc = "render"]
  PROVE  /\ writer' \in HostWriters /\ writer'.pc = "render" /\ writer'.kind = "repair"
         /\ writer'.cand = NoState
BY NothingTyped DEF HostWriters, WriterPCs

(* The counter a writer goes to is one that its kind has.                  *)
LEMMA WriterKept ==
  ASSUME Base, NEW at \in WriterPCs \ {"idle", "render"}, WriterAt(at),
         at \in {"save", "restore"} => writer.kind = "join"
  PROVE  writer' \in HostWriters /\ HostWriterInv' /\ Reviewed(writer'.cand)
BY DEF Base, PlanInv, HostWriterInv, WriterAt, WriterPCs, Reviewed

(* A writer that has ended.                                                *)
LEMMA WriterEnds ==
  ASSUME writer' = NoWriter
  PROVE  writer' \in HostWriters /\ HostWriterInv' /\ Reviewed(writer'.cand)
BY NothingTyped DEF HostWriterInv

(* What is left when a step of a writer fails.                             *)
LEMMA WriterFailed ==
  ASSUME Base, WriterFails
  PROVE  /\ writer' \in HostWriters /\ HostWriterInv' /\ Reviewed(writer'.cand)
         /\ \/ writer.kind = "join" /\ WriterAt("restore") /\ unsettled' = unsettled
            \/ unsettled' # "no"
<1>1. CASE writer.kind = "join"
  <2>1. WriterAt("restore") /\ unsettled' = unsettled
    BY <1>1, WriterGoes DEF WriterFails, WriterPCs
  <2> QED
    BY <1>1, <2>1, WriterKept DEF WriterPCs
<1>2. CASE writer.kind # "join"
  <2>1. writer' = NoWriter /\ unsettled' # "no"
    BY <1>2 DEF WriterFails, Unsettle
  <2> QED
    BY <2>1, WriterEnds
<1> QED
  BY <1>1, <1>2

(* What begins, field by field.                                            *)
LEMMA Begun ==
  ASSUME Base, NEW u \in Peers
  PROVE  /\ StateFirst("client", u) =>
              /\ writer' \in HostWriters /\ writer'.pc = "render" /\ writer'.kind = "client"
              /\ writer'.file = Render(saved') /\ writer'.cand = NoState
              /\ saved' = Toggled(u) /\ UNCHANGED <<change, live, runs, flock>>
         /\ StateFirst("revoke", u) =>
              /\ writer' \in HostWriters /\ writer'.pc = "publish" /\ writer'.kind = "revoke"
              /\ writer'.file = Render(saved') /\ writer'.cand = NoState
              /\ saved' = Toggled(u) /\ UNCHANGED <<change, live, runs, flock>>
         /\ JoinPublishes(u) =>
              /\ writer' \in HostWriters /\ writer'.pc = "publish" /\ writer'.kind = "join"
              /\ writer'.file = Render(Toggled(u)) /\ writer'.cand = Toggled(u)
              /\ writer'.old = live /\ UNCHANGED <<saved, change, live, runs, flock>>
         /\ Repair =>
              /\ writer' \in HostWriters /\ writer'.pc = "render" /\ writer'.kind = "repair"
              /\ writer'.cand = NoState /\ UNCHANGED <<saved, change, live, runs, flock>>
<1>0. /\ Toggled(u) \in HostStates /\ Render(Toggled(u)) \in Files /\ live \in FilePairs
      /\ NoState \in HostStates /\ NoFile \in Files
  BY ToggledState, Rendered, NothingTyped DEF Base, HostType
<1>1. ASSUME NEW k \in {"client", "revoke"}, NEW at \in {"render", "publish"}, StateFirst(k, u),
             at = IF k = "revoke" THEN "publish" ELSE "render"
      PROVE  /\ writer' \in HostWriters /\ writer'.pc = at /\ writer'.kind = k
             /\ writer'.file = Render(saved') /\ writer'.cand = NoState
             /\ saved' = Toggled(u) /\ UNCHANGED <<change, live, runs, flock>>
  <2>1. saved' = Toggled(u) /\ UNCHANGED <<change, live, runs, flock>>
    BY <1>1 DEF StateFirst, listener
  <2>2. writer' = [NoWriter EXCEPT !.kind = k, !.file = Render(saved'), !.pc = at]
    BY <1>1, Zenon DEF StateFirst, Starts
  <2>3. Render(saved') \in Files
    BY <1>0, <2>1
  <2> QED
    BY <1>0, <2>1, <2>2, <2>3, StateBegins
<1>2. ASSUME JoinPublishes(u)
      PROVE  /\ writer' \in HostWriters /\ writer'.pc = "publish" /\ writer'.kind = "join"
             /\ writer'.file = Render(Toggled(u)) /\ writer'.cand = Toggled(u)
             /\ writer'.old = live /\ UNCHANGED <<saved, change, live, runs, flock>>
  <2>1. UNCHANGED <<saved, change, live, runs, flock>>
    BY <1>2 DEF JoinPublishes, listener
  <2>2. writer' = [NoWriter EXCEPT !.kind = "join", !.pc = "publish", !.cand = Toggled(u),
                                   !.file = Render(Toggled(u)), !.old = live]
    BY <1>2 DEF JoinPublishes, Starts
  <2> QED
    BY <1>0, <2>1, <2>2, JoinBegins
<1>3. ASSUME Repair
      PROVE  /\ writer' \in HostWriters /\ writer'.pc = "render" /\ writer'.kind = "repair"
             /\ writer'.cand = NoState /\ UNCHANGED <<saved, change, live, runs, flock>>
  <2>1. UNCHANGED <<saved, change, live, runs, flock>>
    BY <1>3 DEF Repair, listener
  <2>2. writer' = [NoWriter EXCEPT !.kind = "repair", !.pc = "render"]
    BY <1>3 DEF Repair, Starts
  <2> QED
    BY <1>0, <2>1, <2>2, RepairBegins
<1> QED
  BY <1>1, <1>2, <1>3

(* Every step of another writer has the shape of one.                      *)
LEMMA OtherStepShape ==
  ASSUME Base, OthersStep \/ WriterKill
  PROVE  OtherShape
<1>0. /\ saved \in HostStates /\ Reviewed(saved) /\ Reviewed(writer.cand) /\ HostWriterInv
      /\ writer \in HostWriters /\ live \in FilePairs /\ runs \in Files
      /\ writer.file \in Files /\ writer.cand \in HostStates
      /\ writer.old \in FilePairs /\ writer.old.config \in Files
      /\ live.config \in Files /\ live.marker \in Files /\ Render(saved) \in Files
      /\ saved.gen \in Nat
  BY Rendered DEF Base, HostType, HostStates, PlanInv, HostWriters, FilePairs
<1>1. ASSUME NEW u \in Peers, StateFirst("client", u) \/ StateFirst("revoke", u)
      PROVE  OtherShape
  <2>1. /\ saved' \in HostStates /\ saved'.gen = saved.gen + 1 /\ Reviewed(saved')
        /\ UNCHANGED <<change, live, runs, flock>>
    BY <1>1, Begun, ToggledState
  <2>2. /\ writer' \in HostWriters /\ writer'.cand = NoState
        /\ writer'.pc \in {"render", "publish"} /\ writer'.kind # "join"
    BY <1>1, Begun
  <2>3. HostWriterInv' /\ Reviewed(writer'.cand)
    BY <2>2, NothingTyped DEF HostWriterInv
  <2> QED
    BY <1>0, <2>1, <2>2, <2>3 DEF OtherShape
<1>2. ASSUME NEW u \in Peers, JoinPublishes(u) PROVE OtherShape
  <2>1. /\ writer' \in HostWriters /\ writer'.cand = Toggled(u) /\ writer'.pc = "publish"
        /\ UNCHANGED <<saved, change, live, runs, flock>>
    BY <1>2, Begun
  <2>2. HostWriterInv' /\ Reviewed(writer'.cand)
    BY <2>1, ToggledState DEF HostWriterInv
  <2> QED
    BY <1>0, <2>1, <2>2 DEF OtherShape, Reviewed
<1>3. CASE Repair
  <2>1. writer' = [NoWriter EXCEPT !.kind = "repair", !.pc = "render"]
    BY <1>3 DEF Repair, Starts
  <2>2. UNCHANGED <<saved, change, live, runs, flock>>
    BY <1>3 DEF Repair, listener
  <2>3. writer' \in HostWriters /\ HostWriterInv' /\ Reviewed(writer'.cand)
    BY <2>1, RepairBegins, NothingTyped DEF HostWriterInv
  <2> QED
    BY <1>0, <2>2, <2>3 DEF OtherShape, Reviewed
<1>4. CASE WriterRenders
  <2>1. /\ writer'.pc = "publish" /\ writer' \in HostWriters /\ writer'.cand = writer.cand
        /\ UNCHANGED <<saved, change, live, runs, flock>>
    BY <1>0, <1>4, WriterRendered DEF WriterRenders, listener
  <2>2. HostWriterInv' /\ Reviewed(writer'.cand)
    BY <1>0, <2>1 DEF HostWriterInv
  <2> QED
    BY <1>0, <2>1, <2>2 DEF OtherShape, Reviewed
<1>5. CASE WriterPublishes \/ WriterMarks
  <2>1. UNCHANGED <<saved, change, runs, flock>>
    BY <1>5 DEF WriterPublishes, WriterMarks
  <2>2. live' \in FilePairs
    BY <1>0, <1>5 DEF WriterPublishes, WriterMarks, FilePairs
  <2>3. writer' \in HostWriters /\ HostWriterInv' /\ Reviewed(writer'.cand)
    <3>1. CASE WriterFails
      BY <3>1, WriterFailed
    <3>2. ASSUME NEW at \in {"marker", "restart"}, writer' = [writer EXCEPT !.pc = at]
          PROVE  writer' \in HostWriters /\ HostWriterInv' /\ Reviewed(writer'.cand)
      BY <3>2, WriterGoes, WriterKept DEF WriterPCs
    <3> QED
      BY <1>5, <3>1, <3>2 DEF WriterPublishes, WriterMarks
  <2> QED
    BY <1>0, <2>1, <2>2, <2>3 DEF OtherShape, Reviewed
<1>6. CASE WriterRestarts
  <2>1. UNCHANGED <<saved, change, live, flock>> /\ runs' \in Files
    BY <1>0, <1>6 DEF WriterRestarts
  <2>3. writer' \in HostWriters /\ HostWriterInv' /\ Reviewed(writer'.cand)
    <3>1. CASE WriterFails
      BY <3>1, WriterFailed
    <3>2. CASE writer.kind = "join" /\ writer' = [writer EXCEPT !.pc = "save"]
      BY <3>2, WriterGoes, WriterKept DEF WriterPCs
    <3>3. CASE writer' = NoWriter
      BY <3>3, WriterEnds
    <3> QED
      BY <1>6, <3>1, <3>2, <3>3 DEF WriterRestarts
  <2> QED
    BY <1>0, <2>1, <2>3 DEF OtherShape, Reviewed
<1>7. CASE JoinSaves
  <2>1. /\ UNCHANGED <<change, live, runs, flock>>
        /\ saved' = saved \/ (saved' = writer.cand /\ writer.cand.gen = saved.gen + 1)
    BY <1>7 DEF JoinSaves, listener
  <2>2. writer' \in HostWriters /\ HostWriterInv' /\ Reviewed(writer'.cand)
    <3>1. CASE writer' = NoWriter
      BY <3>1, WriterEnds
    <3>2. CASE writer' = [writer EXCEPT !.pc = "restore"]
      <4>1. writer.kind = "join"
        BY <1>0, <1>7 DEF JoinSaves, HostWriterInv
      <4> QED
        BY <3>2, <4>1, WriterGoes, WriterKept DEF WriterPCs
    <3> QED
      BY <1>7, <3>1, <3>2 DEF JoinSaves
  <2> QED
    BY <1>0, <2>1, <2>2 DEF OtherShape, Reviewed
<1>8. CASE JoinUncertain \/ WriterKill
  <2>1. /\ UNCHANGED <<change, live, runs, flock>> /\ writer' = NoWriter
        /\ saved' = saved \/ (saved' = writer.cand /\ writer.cand.gen = saved.gen + 1)
    BY <1>8 DEF JoinUncertain, WriterKill, listener
  <2> QED
    BY <1>0, <2>1, WriterEnds DEF OtherShape, Reviewed
<1>9. CASE JoinRestores
  <2>1. UNCHANGED <<saved, change, flock>> /\ writer' = NoWriter
    BY <1>9 DEF JoinRestores
  <2>2. live' \in FilePairs
    BY <1>0, <1>9 DEF JoinRestores
  <2>3. runs' \in Files
    BY <1>0, <1>9, <2>2 DEF JoinRestores, FilePairs
  <2> QED
    BY <1>0, <2>1, <2>2, <2>3, WriterEnds DEF OtherShape, Reviewed
<1>10. CASE OtherSave
  <2>1. saved' = [saved EXCEPT !.gen = @ + 1] /\ UNCHANGED <<change, live, runs, writer, flock>>
    BY <1>10 DEF OtherSave, listener
  <2>2. saved' \in HostStates /\ saved'.gen = saved.gen + 1 /\ saved'.change = saved.change
    BY <1>0, <2>1 DEF HostStates
  <2> QED
    BY <1>0, <2>1, <2>2 DEF OtherShape, Reviewed, HostWriterInv
<1>11. CASE WindowCloses
  BY <1>0, <1>11 DEF WindowCloses, listener, OtherShape, Reviewed, HostWriterInv
<1> QED
  BY <1>1, <1>2, <1>3, <1>4, <1>5, <1>6, <1>7, <1>8, <1>9, <1>10, <1>11 DEF OthersStep

(* A reboot keeps the base.                                                *)
LEMMA RebootBase ==
  ASSUME Base, HostReboot
  PROVE  Base'
<1>0. /\ saved \in HostStates /\ live \in FilePairs /\ live.config \in Files
      /\ UNCHANGED <<saved, live>> /\ writer' = NoWriter /\ flock' = "none" /\ runs' = live.config
      /\ \A p \in HostProcs : change'[p] = NoCommand
      /\ change' \in [HostProcs -> HostCommands]
  BY NothingTyped DEF Base, HostType, FilePairs, HostReboot
<1>1. HostType'
  BY <1>0, NothingTyped DEF HostType
<1>2. PlanInv' /\ HostWriterInv'
  BY <1>0, NothingTyped DEF Base, PlanInv, PlanOf, HostWriterInv, Reviewed
<1>3. LockInv'
  BY <1>0, NothingTyped, Counters DEF LockInv, LockOf
<1> QED
  BY <1>1, <1>2, <1>3 DEF Base

-----------------------------------------------------------------------------
(* Files and listener                                                      *)

(* Without the lock nobody has files in hand.                              *)
LEMMA NobodyMidway ==
  ASSUME Base, NEW p \in HostProcs, flock # p
  PROVE  change[p].pc \notin Holding /\ ~change[p].moved /\ ~Midway(p) /\ ~Exposed(p)
BY Counters DEF Base, LockInv, LockOf, Midway, Exposed, In

(* Before the first rename a command is not midway.                        *)
LEMMA NotMidway ==
  ASSUME Base, NEW p \in HostProcs, change[p].pc \notin Moving
  PROVE  ~change[p].moved /\ ~Midway(p)
BY DEF Base, LockInv, LockOf, Midway

(* A command that is past the first rename and not finished is midway.     *)
LEMMA IsMidway ==
  ASSUME Base, NEW p \in HostProcs, change[p].pc \in Moved \ {"finish"} \/ (change[p].moved /\ change[p].pc # "finish")
  PROVE  change[p].moved /\ Midway(p) /\ Exposed(p)
BY DEF Base, LockInv, LockOf, Midway, Exposed, In

(* A command with no lock and no file has nothing to settle.               *)
LEMMA CommandFree ==
  ASSUME NEW p \in HostProcs, change'[p].pc \notin Holding, ~change'[p].moved
  PROVE  CommandSettled(p)' /\ ~Midway(p)'
BY DEF CommandSettled, Holding, Exposed, Midway, In

(* The files and what should be in them follow from these.                 *)
SameFiles == UNCHANGED <<live, runs, writer>> /\ Render(saved') = Render(saved)

(* A command that does not move stays settled with its files.              *)
LEMMA SameCommand ==
  ASSUME SameFiles, NEW p \in HostProcs, CommandSettled(p), change'[p] = change[p]
  PROVE  CommandSettled(p)'
BY DEF SameFiles, CommandSettled, Published, Exposed, Midway, In, Holds

(* A writer that does not move stays settled with its files.               *)
LEMMA SameWriter ==
  ASSUME SameFiles, WriterSettled
  PROVE  WriterSettled'
BY DEF SameFiles, WriterSettled, Published

(* Files that are not touched stay clean.                                  *)
LEMMA SameClean ==
  ASSUME SameFiles, FilesClean
  PROVE  FilesClean'
BY DEF SameFiles, FilesClean, Published, Resting, Holds

(* A step of a command that leaves the files and what they should be.      *)
LEMMA QuietSettled ==
  ASSUME Settled, NEW q \in HostProcs, SameFiles,
         \A o \in HostProcs : o # q => change'[o] = change[o],
         CommandSettled(q)', ~Midway(q)
  PROVE  Settled'
<1>1. WriterSettled'
  BY SameWriter DEF Settled
<1>2. ASSUME NEW o \in HostProcs PROVE CommandSettled(o)'
  BY SameCommand DEF Settled
<1>3. ASSUME \A p \in HostProcs : ~Midway(p)' PROVE FilesClean'
  <2>1. \A p \in HostProcs : ~Midway(p)
    BY <1>3 DEF Midway, In
  <2> QED
    BY <2>1, SameClean DEF Settled
<1> QED
  BY <1>1, <1>2, <1>3 DEF Settled

(* A step of the activation that shares the files with nobody.             *)
LEMMA HolderSettled ==
  ASSUME Base, Settled, NEW q \in HostProcs, change[q].pc \in Holding, Exposed(q), UNCHANGED writer,
         \A o \in HostProcs : o # q => change'[o] = change[o],
         CommandSettled(q)', Midway(q)' \/ FilesClean'
  PROVE  Settled'
<1>1. flock = q /\ ~Holds
  BY DEF Base, LockInv, LockOf, Settled, CommandSettled
<1>2. ASSUME NEW o \in HostProcs PROVE CommandSettled(o)'
  <2>1. CASE o # q
    <3>1. change'[o].pc \notin Holding /\ ~change'[o].moved
      BY <1>1, <2>1, NobodyMidway
    <3> QED
      BY <3>1, CommandFree
  <2> QED
    BY <2>1
<1>3. WriterSettled'
  BY <1>1 DEF WriterSettled, Holds
<1> QED
  BY <1>2, <1>3 DEF Settled

(* A command that ends with its files where they should be.                *)
LEMMA EndSettled ==
  ASSUME Settled, NEW q \in HostProcs, Gives(q), SameFiles, ~Midway(q)
  PROVE  Settled'
<1>1. change'[q] = NoCommand /\ \A o \in HostProcs : o # q => change'[o] = change[o]
  BY DEF Gives, Takes
<1>2. CommandSettled(q)'
  BY <1>1, CommandFree, NothingTyped, Counters
<1> QED
  BY <1>1, <1>2, QuietSettled

(* A writer that has the files to itself.                                  *)
LEMMA WriterAlone ==
  ASSUME Base, UNCHANGED change, ~SomeExposed, WriterSettled', FilesClean'
  PROVE  Settled'
<1>1. ASSUME NEW p \in HostProcs PROVE CommandSettled(p)'
  <2>1. ~Exposed(p)
    BY DEF SomeExposed
  <2>2. change[p].pc \notin {"commit", "look"}
    BY <2>1, IsMidway, Counters
  <2> QED
    BY <2>1, <2>2 DEF CommandSettled, Exposed, Midway, In
<1> QED
  BY <1>1 DEF Settled

(* A writer that is to render the stored state touches no file yet.        *)
LEMMA RenderQuiet ==
  ASSUME Settled, UNCHANGED <<change, live, runs>>, writer'.pc = "render", writer'.kind # "join"
  PROVE  Settled'
<1>1. WriterSettled' /\ FilesClean' /\ ~Holds'
  BY DEF WriterSettled, FilesClean, Resting, Holds
<1>2. ASSUME NEW p \in HostProcs PROVE CommandSettled(p)'
  BY <1>1 DEF Settled, CommandSettled, Published, Exposed, Midway, In
<1> QED
  BY <1>1, <1>2 DEF Settled

(* Nothing that the files depend on has changed.                           *)
LEMMA SameSettled ==
  ASSUME Settled, SameFiles, UNCHANGED change
  PROVE  Settled'
<1>1. ASSUME NEW p \in HostProcs PROVE CommandSettled(p)'
  BY SameCommand DEF Settled
<1>2. WriterSettled'
  BY SameWriter DEF Settled
<1>3. ASSUME \A p \in HostProcs : ~Midway(p)' PROVE FilesClean'
  BY <1>3, SameClean DEF Settled, Midway, In
<1> QED
  BY <1>1, <1>2, <1>3 DEF Settled

(* A plan touches nothing.                                                 *)
LEMMA PlanSettled ==
  ASSUME Base, Settled, NEW p \in HostProcs, NEW kind, NEW cand, Plan(p, kind, cand)
  PROVE  Settled'
<1>1. /\ change[p] = NoCommand /\ SameFiles
      /\ change' = [change EXCEPT ![p] = [NoCommand EXCEPT !.pc = "planned", !.kind = kind,
                                            !.base = saved, !.cand = cand]]
  BY DEF Plan, SameFiles, listener
<1>2. /\ change'[p].pc = "planned" /\ change'[p].moved = NoCommand.moved
      /\ \A o \in HostProcs : o # p => change'[o] = change[o]
  BY <1>1, NothingTyped DEF Base, HostType, HostCommands
<1>3. CommandSettled(p)'
  BY <1>2, CommandFree, NothingTyped, Counters
<1>4. ~Midway(p)
  BY <1>1, NothingTyped DEF Midway
<1> QED
  BY <1>1, <1>2, <1>3, <1>4, QuietSettled

(* A command at its next counter.                                          *)
LEMMA OnwardFields ==
  ASSUME Base, NEW p \in HostProcs, NEW at \in (Unlocked \cup Holding) \ {"idle"}, Moves(p, at)
  PROVE  /\ change'[p].pc = at /\ change'[p].base = change[p].base /\ change'[p].cand = change[p].cand
         /\ (change'[p].moved <=> change[p].moved)
         /\ \A o \in HostProcs : o # p => change'[o] = change[o]
<1>1. Takes(p, Onward(p, at, change[p].moved))
  BY MovesOn DEF Base
<1> QED
  BY <1>1 DEF Takes, Onward

(* A command that goes on before the last look.                            *)
LEMMA EarlySettled ==
  ASSUME Base, Settled, NEW p \in HostProcs, SameFiles, change[p].pc \notin Moving,
         NEW at \in (Unlocked \cup Holding) \ (Moved \cup {"idle", "swap"}), Moves(p, at)
  PROVE  Settled'
<1>1. /\ change'[p].pc = at /\ (change'[p].moved <=> change[p].moved)
      /\ \A o \in HostProcs : o # p => change'[o] = change[o]
  BY OnwardFields
<1>2. ~change[p].moved /\ ~Midway(p)
  BY NotMidway
<1>3. CommandSettled(p)'
  BY <1>1, <1>2, Counters DEF CommandSettled, Exposed, Midway, In
<1> QED
  BY <1>1, <1>2, <1>3, QuietSettled

(* A command that ends before the first rename.                            *)
LEMMA EarlyEnd ==
  ASSUME Base, Settled, NEW p \in HostProcs, SameFiles, change[p].pc \notin Moving, Gives(p)
  PROVE  Settled'
BY NotMidway, EndSettled

(* Before the lock, and up to the last look, the files are only looked at. *)
LEMMA LooksSettled ==
  ASSUME Base, Settled, NEW p \in HostProcs, Confirmed(p) \/ Lock(p) \/ Stage(p) \/ Verify(p)
  PROVE  Settled'
<1>1. SameFiles /\ change[p].pc \in {"planned", "lock", "stage", "verify"}
  BY DEF Confirmed, Lock, Stage, Verify, SameFiles, listener, In
<1>2. change[p].pc \notin Moving
  BY <1>1, Counters
<1>3. ASSUME NEW at \in {"record", "lock", "stage", "verify", "rename"}, Moves(p, at) PROVE Settled'
  BY <1>1, <1>2, <1>3, EarlySettled, Counters
<1>4. CASE Leaves(p)
  BY <1>1, <1>2, <1>4, EndsGives, EarlyEnd
<1>5. CASE Leave(p) /\ UNCHANGED flock /\ change[p].pc \in {"planned", "lock"}
  BY <1>1, <1>2, <1>5, EndsGives, EarlyEnd, Counters
<1>6. CASE Confirmed(p)
  BY <1>3, <1>5, <1>6 DEF Confirmed, In, listener
<1>7. CASE Lock(p)
  BY <1>3, <1>5, <1>7 DEF Lock, In
<1>8. CASE Stage(p)
  BY <1>3, <1>4, <1>8 DEF Stage
<1>9. CASE Verify(p)
  BY <1>3, <1>4, <1>9 DEF Verify
<1> QED
  BY <1>6, <1>7, <1>8, <1>9

(* A prepare stores a state that renders the same files.                   *)
LEMMA PrepareSettled ==
  ASSUME Base, Settled, NEW p \in HostProcs, PrepareSave(p)
  PROVE  Settled'
<1>1. /\ UNCHANGED <<live, runs, writer, flock>> /\ change[p].pc = "record"
      /\ Save(p, "idle", "idle", "idle", "idle") /\ Moves(p, "idle")
  BY DEF PrepareSave, listener, In, Save
<1>2. Render(saved') = Render(saved)
  <2>1. PlanOf(change[p]) /\ change[p].kind = "prepare"
    BY <1>1 DEF Base, PlanInv, PlanOf
  <2>2. saved' = saved \/ (saved' = change[p].cand /\ saved.gen = change[p].base.gen)
    BY <1>1 DEF Save
  <2> QED
    BY <1>1, <2>1, <2>2 DEF PlanOf
<1>3. change[p].pc \notin Moving
  BY <1>1, Counters
<1>4. Gives(p)
  BY <1>1, EndsGives, Counters
<1> QED
  BY <1>1, <1>2, <1>3, <1>4, EarlyEnd DEF SameFiles

(* The last look finds the files of the state that the change is based on; *)
(* with a writer at rest they are also those of the stored state.          *)
LEMMA LastLookSettled ==
  ASSUME Base, Settled, NEW p \in HostProcs, LastLook(p), unsettled' = "no"
  PROVE  Settled'
<1>1. /\ SameFiles /\ saved' = saved /\ change[p].pc = "rename"
  BY DEF LastLook, SameFiles, listener, In
<1>2. CASE Moves(p, "undo")
  BY <1>1, <1>2, EarlySettled, Counters
<1>3. CASE LiveIsPrevious(p) /\ Moves(p, "swap") /\ Unsettle("overlap", Holds)
  <2>1. /\ change'[p].pc = "swap" /\ change'[p].base = change[p].base
        /\ \A o \in HostProcs : o # p => change'[o] = change[o]
    BY <1>3, OnwardFields, Counters
  <2>2. ~Holds
    BY <1>3 DEF Unsettle
  <2>3. flock = p
    BY <1>1, Counters DEF Base, LockInv, LockOf
  <2>4. \A o \in HostProcs : ~Midway(o)
    BY <1>1, <2>3, NobodyMidway, NotMidway, Counters
  <2>5. writer.pc # "render" => Render(saved) = Render(change[p].base)
    BY <1>3, <2>2, <2>4 DEF Settled, FilesClean, Resting, Published, LiveIsPrevious
  <2>6. CommandSettled(p)'
    BY <1>1, <2>1, <2>2, <2>5 DEF CommandSettled, SameFiles, Holds
  <2> QED
    BY <1>1, <2>1, <2>4, <2>6, QuietSettled
<1> QED
  BY <1>2, <1>3 DEF LastLook

-----------------------------------------------------------------------------
(* The activation after its last look.                                     *)

(* The first rename puts files in hand; a failed one does not.             *)
LEMMA RenameConfigSettled ==
  ASSUME Base, Settled, NEW p \in HostProcs, RenameConfig(p)
  PROVE  Settled'
<1>1. /\ UNCHANGED <<saved, writer, runs, flock>> /\ change[p].pc = "swap" /\ Exposed(p)
      /\ CommandSettled(p) /\ change \in [HostProcs -> HostCommands]
  BY DEF RenameConfig, In, Settled, Base, HostType, Exposed
<1>2. CASE change' = [change EXCEPT ![p].pc = "mark", ![p].moved = TRUE]
  <2>0. change' = [change EXCEPT ![p] = [change[p] EXCEPT !.pc = "mark", !.moved = TRUE]]
    BY <1>1, <1>2
  <2>1. change'[p] = Onward(p, "mark", TRUE)
    BY <1>1, <2>0, Remade, Counters DEF Onward
  <2>2. /\ change'[p].pc = "mark" /\ change'[p].base = change[p].base
        /\ \A o \in HostProcs : o # p => change'[o] = change[o]
    BY <1>1, <2>0, <2>1 DEF Onward
  <2>3. Midway(p)'
    BY <2>1 DEF Midway, Onward, In
  <2>4. CommandSettled(p)'
    BY <1>1, <2>2 DEF CommandSettled, Holds
  <2> QED
    BY <1>1, <2>2, <2>3, <2>4, HolderSettled, Counters
<1>3. CASE Moves(p, "undo") /\ UNCHANGED live
  BY <1>1, <1>3, EarlySettled, Counters DEF SameFiles
<1> QED
  BY <1>2, <1>3 DEF RenameConfig

(* From one step of the activation to the next the files are in hand.      *)
LEMMA MovingSettled ==
  ASSUME Base, Settled, NEW p \in HostProcs, Midway(p), change[p].pc \in Holding,
         NEW at \in Moving \ {"finish"}, Moves(p, at), UNCHANGED writer,
         at \notin {"look", "uncertain"} /\ writer.pc # "render" => Render(saved') = Render(change[p].base),
         at \in {"commit", "look"} =>
           /\ live'.config = Render(change[p].cand) /\ live'.marker = Render(change[p].cand)
           /\ runs' = Render(change[p].cand)
  PROVE  Settled'
<1>1. /\ change'[p].pc = at /\ change'[p].base = change[p].base /\ change'[p].cand = change[p].cand
      /\ (change'[p].moved <=> change[p].moved)
      /\ \A o \in HostProcs : o # p => change'[o] = change[o]
  BY OnwardFields, Counters
<1>2. Midway(p)' /\ Exposed(p)
  BY <1>1 DEF Midway, Exposed, In
<1>3. ~Holds
  BY <1>2 DEF Settled, CommandSettled
<1>4. CommandSettled(p)'
  BY <1>1, <1>3 DEF CommandSettled, Published, Holds
<1> QED
  BY <1>1, <1>2, <1>4, HolderSettled

(* The second rename and the restart are midway.                           *)
LEMMA ActivateSettled ==
  ASSUME Base, Settled, NEW p \in HostProcs, RenameMarker(p) \/ Restart(p)
  PROVE  Settled'
<1>0. /\ CommandSettled(p) /\ change[p].pc \in {"mark", "restart"}
  BY DEF Settled, RenameMarker, Restart, In
<1>1. Midway(p) /\ Exposed(p) /\ change[p].pc \in Holding
  BY <1>0, IsMidway, Counters
<1>2. UNCHANGED <<saved, writer>>
  BY DEF RenameMarker, Restart
<1>3. writer.pc # "render" => Render(saved') = Render(change[p].base)
  BY <1>0, <1>1, <1>2 DEF CommandSettled
<1>4. PICK at \in {"restart", "undo", "commit"} :
        /\ Moves(p, at)
        /\ at = "commit" => Published(Render(change[p].cand)) /\ runs' = live.config /\ live' = live
  BY DEF RenameMarker, Restart
<1>5. at \in Moving \ {"finish"}
  BY Counters
<1>6. at \in {"commit", "look"} =>
         /\ live'.config = Render(change[p].cand) /\ live'.marker = Render(change[p].cand)
         /\ runs' = Render(change[p].cand)
  BY <1>4 DEF Published
<1> QED
  BY <1>1, <1>2, <1>3, <1>4, <1>5, <1>6, MovingSettled

(* A change whose state is the stored one is finished.                     *)
LEMMA FinishSettled ==
  ASSUME Base, Settled, NEW p \in HostProcs, change[p].pc \in {"commit", "look"}, Moves(p, "finish"),
         UNCHANGED <<writer, live, runs>>, saved' = change[p].cand
  PROVE  Settled'
<1>1. Exposed(p) /\ change[p].pc \in Holding
  BY IsMidway, Counters
<1>2. /\ change'[p].pc = "finish"
      /\ \A o \in HostProcs : o # p => change'[o] = change[o]
  BY OnwardFields, Counters
<1>3. CommandSettled(p)'
  BY <1>2 DEF CommandSettled, Exposed, Midway, In
<1>4. FilesClean'
  BY DEF Settled, CommandSettled, FilesClean, Published
<1> QED
  BY <1>1, <1>2, <1>3, <1>4, HolderSettled

(* The save that commits finds the candidate's files and listener.         *)
LEMMA CommitSettled ==
  ASSUME Base, Settled, NEW p \in HostProcs, CommitSave(p)
  PROVE  Settled'
<1>1. /\ UNCHANGED <<writer, live, runs>> /\ change[p].pc = "commit" /\ CommandSettled(p)
      /\ Save(p, "finish", "look", "look", "look")
  BY DEF CommitSave, listener, In, Settled
<1>2. /\ live.config = Render(change[p].cand) /\ live.marker = Render(change[p].cand)
      /\ runs = Render(change[p].cand)
  BY <1>1 DEF CommandSettled, Published
<1>3. Midway(p) /\ change[p].pc \in Holding
  BY <1>1, IsMidway, Counters
<1>4. CASE Moves(p, "look")
  BY <1>1, <1>2, <1>3, <1>4, MovingSettled, Counters
<1>5. CASE Moves(p, "finish") /\ saved' = change[p].cand
  BY <1>1, <1>5, FinishSettled
<1> QED
  BY <1>1, <1>4, <1>5 DEF Save

(* After a failed save the stored state decides, and the files fit it.     *)
LEMMA ReconcileSettled ==
  ASSUME Base, Settled, NEW p \in HostProcs, Reconcile(p)
  PROVE  Settled'
<1>1. /\ UNCHANGED <<saved, writer, live, runs>> /\ change[p].pc = "look"
  BY DEF Reconcile, listener, In
<1>2. Midway(p) /\ change[p].pc \in Holding
  BY <1>1, IsMidway, Counters
<1>3. CASE Moves(p, "uncertain")
  BY <1>1, <1>2, <1>3, MovingSettled, Counters
<1>4. CASE Moves(p, "undo") /\ saved = change[p].base
  BY <1>1, <1>2, <1>4, MovingSettled, Counters
<1>5. CASE Moves(p, "finish") /\ saved = change[p].cand
  BY <1>1, <1>5, FinishSettled
<1> QED
  BY <1>3, <1>4, <1>5 DEF Reconcile, AfterFailedSave

(* A rollback puts back the files of the state that is stored.             *)
LEMMA UndoSettled ==
  ASSUME Base, Settled, NEW p \in HostProcs, Undo(p) \/ UndoRestart(p), unsettled' = "no"
  PROVE  Settled'
<1>0. CommandSettled(p)
  BY DEF Settled
<1>1. CASE Undo(p) /\ change[p].moved
  <2>1. UNCHANGED <<saved, writer>> /\ change[p].pc = "undo" /\ Moves(p, "undone")
    BY <1>1 DEF Undo, In, Unsettle
  <2>2. Midway(p) /\ Exposed(p) /\ change[p].pc \in Holding
    BY <1>1, <2>1, IsMidway, Counters
  <2>3. writer.pc # "render" => Render(saved') = Render(change[p].base)
    BY <1>0, <2>1, <2>2 DEF CommandSettled
  <2> QED
    BY <2>1, <2>2, <2>3, MovingSettled, Counters
<1>2. CASE Undo(p) /\ ~change[p].moved
  <2>1. SameFiles /\ Leaves(p)
    BY <1>2 DEF Undo, SameFiles
  <2>2. ~Midway(p)
    BY <1>2 DEF Midway
  <2> QED
    BY <2>1, <2>2, EndsGives, EndSettled
<1>3. CASE UndoRestart(p)
  <2>1. /\ UNCHANGED <<saved, writer, live>> /\ change[p].pc = "undone" /\ Leaves(p)
        /\ Published(Render(change[p].base)) /\ runs' = live.config
    BY <1>3 DEF UndoRestart, In, Unsettle
  <2>2. Exposed(p) /\ change[p].pc \in Holding
    BY <2>1, IsMidway, Counters
  <2>3. writer.pc # "render" => Render(saved) = Render(change[p].base)
    BY <1>0, <2>1, <2>2 DEF CommandSettled
  <2>4. FilesClean'
    BY <2>1, <2>3 DEF FilesClean, Published, Resting, Holds
  <2>5. change'[p] = NoCommand /\ \A o \in HostProcs : o # p => change'[o] = change[o]
    BY <2>1, EndsGives DEF Gives, Takes
  <2>6. CommandSettled(p)'
    BY <2>5, CommandFree, NothingTyped, Counters
  <2> QED
    BY <2>1, <2>2, <2>4, <2>5, <2>6, HolderSettled
<1> QED
  BY <1>1, <1>2, <1>3

(* A command ends, or is killed, with no file in hand.                     *)
LEMMA EndsSettled ==
  ASSUME Base, Settled, NEW p \in HostProcs, Finish(p) \/ Uncertain(p) \/ HostKill(p), unsettled' = "no"
  PROVE  Settled'
<1>1. SameFiles /\ Leaves(p)
  BY DEF Finish, Uncertain, HostKill, SameFiles
<1>2. CASE Finish(p) \/ HostKill(p)
  <2>1. ~Midway(p)
    BY <1>2 DEF Finish, HostKill, In, Midway, Unsettle
  <2> QED
    BY <1>1, <2>1, EndsGives, EndSettled
<1>3. CASE Uncertain(p)
  BY <1>3 DEF Uncertain, Unsettle
<1> QED
  BY <1>2, <1>3

(* A step of a command that gives no reason for the two to differ.         *)
LEMMA StepSettled ==
  ASSUME Base, Settled, NEW p \in HostProcs, HostStep(p) \/ HostKill(p), unsettled' = "no"
  PROVE  Settled'
<1>1. CASE (\E h \in HostNames : PlanPrepare(p, h)) \/ PlanCommit(p) \/ PlanRollback(p)
  BY <1>1, PlanSettled DEF PlanPrepare, PlanCommit, PlanRollback
<1> QED
  BY <1>1, LooksSettled, PrepareSettled, LastLookSettled, RenameConfigSettled, ActivateSettled,
     CommitSettled, ReconcileSettled, UndoSettled, EndsSettled DEF HostStep

-----------------------------------------------------------------------------
(* The other writers and the files.                                        *)

(* A writer with something in hand shares the files with no activation.    *)
LEMMA HoldsAlone ==
  ASSUME Settled, Holds
  PROVE  ~SomeExposed
BY DEF Settled, CommandSettled, SomeExposed

(* A writer that goes on with what it has.                                 *)
LEMMA WriterOn ==
  ASSUME Base, Settled, NEW at \in {"marker", "restart", "save", "restore"}, WriterAt(at), Holds,
         UNCHANGED <<saved, change>>,
         writer.pc \in {"publish", "marker"} \/ writer.kind = "join",
         at = "marker" => writer.pc = "publish" /\ live'.config = writer.file,
         at = "restart" => writer.pc = "marker" /\ live'.config = writer.file /\ live'.marker = writer.file,
         at \in {"save", "restore"} => writer.kind = "join",
         at = "save" => live'.config = writer.file /\ live'.marker = writer.file /\ runs' = writer.file
  PROVE  Settled'
<1>1. ~SomeExposed /\ WriterSettled
  BY HoldsAlone DEF Settled
<1>2. WriterSettled'
  BY <1>1 DEF WriterSettled, WriterAt, Published
<1>3. FilesClean'
  <2>1. CASE writer.kind = "join"
    BY <2>1 DEF FilesClean, Resting, Holds, WriterAt
  <2>2. CASE at = "marker"
    BY <2>2 DEF FilesClean, Resting, Holds, WriterAt
  <2>3. CASE writer.kind # "join" /\ at = "restart"
    <3>1. writer.file = Render(saved)
      BY <1>1, <2>3 DEF WriterSettled
    <3> QED
      BY <2>3, <3>1 DEF FilesClean, Published, WriterAt
  <2> QED
    BY <2>1, <2>2, <2>3
<1> QED
  BY <1>1, <1>2, <1>3, WriterAlone

(* A writer that has ended leaves the files of the stored state.           *)
LEMMA WriterDone ==
  ASSUME Base, ~SomeExposed, UNCHANGED change, writer' = NoWriter,
         live'.config = Render(saved'), live'.marker = Render(saved'), runs' = Render(saved')
  PROVE  Settled'
<1>1. WriterSettled'
  BY NothingTyped DEF WriterSettled
<1>2. FilesClean'
  BY DEF FilesClean, Published
<1> QED
  BY <1>1, <1>2, WriterAlone

(* A writer that begins leaves the files of the state before it.           *)
LEMMA BeginSettled ==
  ASSUME Base, Settled, unsettled' = "no", NEW u \in Peers,
         StateFirst("client", u) \/ StateFirst("revoke", u) \/ JoinPublishes(u)
  PROVE  Settled'
<1>1. CASE StateFirst("client", u)
  <2>1. /\ writer'.pc = "render" /\ writer'.kind # "join" /\ UNCHANGED <<change, live, runs>>
    BY <1>1, Begun
  <2> QED
    BY <2>1, RenderQuiet
<1>2. CASE StateFirst("revoke", u)
  <2>1. /\ writer'.pc = "publish" /\ writer'.kind = "revoke" /\ writer'.file = Render(saved')
        /\ UNCHANGED change
    BY <1>2, Begun
  <2>2. ~SomeExposed
    BY <1>2 DEF StateFirst, Unsettle
  <2>3. WriterSettled' /\ FilesClean'
    BY <2>1 DEF WriterSettled, FilesClean, Resting, Holds
  <2> QED
    BY <2>1, <2>2, <2>3, WriterAlone
<1>3. CASE JoinPublishes(u)
  <2>1. /\ writer'.pc = "publish" /\ writer'.kind = "join" /\ writer'.file = Render(Toggled(u))
        /\ writer'.cand = Toggled(u) /\ writer'.old = live
        /\ UNCHANGED <<saved, change, live, runs>>
    BY <1>3, Begun
  <2>2. ~SomeExposed /\ writer = NoWriter
    BY <1>3 DEF JoinPublishes, Starts, Unsettle
  <2>3. \A p \in HostProcs : ~Midway(p)
    BY <2>2 DEF SomeExposed, Exposed
  <2>4. live.config = Render(saved) /\ live.marker = Render(saved)
    BY <2>2, <2>3, NothingTyped DEF Settled, FilesClean, Resting, Holds, Published
  <2>5. WriterSettled'
    BY <2>1, <2>4 DEF WriterSettled
  <2>6. FilesClean'
    BY <2>1 DEF FilesClean, Resting, Holds
  <2> QED
    BY <2>1, <2>2, <2>5, <2>6, WriterAlone
<1> QED
  BY <1>1, <1>2, <1>3

(* A writer renders the state that is stored.                              *)
LEMMA RendersSettled ==
  ASSUME Base, Settled, unsettled' = "no", WriterRenders
  PROVE  Settled'
<1>1. writer.pc = "render" /\ writer.kind # "join" /\ UNCHANGED <<saved, change>>
  BY DEF WriterRenders, Base, HostWriterInv
<1>2. Render(saved) \in Files
  BY Rendered DEF Base, HostType
<1>3. writer'.pc = "publish" /\ writer'.kind = writer.kind /\ writer'.file = Render(saved)
  BY <1>2, WriterRendered DEF WriterRenders
<1>4. ~SomeExposed
  BY DEF WriterRenders, Unsettle
<1>5. WriterSettled' /\ FilesClean'
  BY <1>1, <1>3 DEF WriterSettled, FilesClean, Resting, Holds
<1> QED
  BY <1>1, <1>4, <1>5, WriterAlone

(* A writer publishes what it rendered, one file after the other.          *)
LEMMA PublishesSettled ==
  ASSUME Base, Settled, unsettled' = "no", WriterPublishes \/ WriterMarks
  PROVE  Settled'
<1>1. /\ writer.pc \in {"publish", "marker"} /\ UNCHANGED <<saved, change, runs>> /\ Holds
      /\ live \in FilePairs /\ writer.file \in Files
  BY DEF WriterPublishes, WriterMarks, Holds, Base, HostType, HostWriters
<1>2. CASE WriterFails
  <2>1. writer.kind = "join" /\ WriterAt("restore")
    BY <1>2, WriterFailed
  <2> QED
    BY <1>1, <2>1, WriterOn
<1>3. CASE /\ writer.pc = "publish" /\ live' = [live EXCEPT !.config = writer.file]
           /\ writer' = [writer EXCEPT !.pc = "marker"]
  <2>1. WriterAt("marker") /\ live'.config = writer.file
    BY <1>1, <1>3, WriterGoes DEF WriterPCs, FilePairs
  <2> QED
    BY <1>1, <1>3, <2>1, WriterOn
<1>4. CASE /\ writer.pc = "marker" /\ live' = [live EXCEPT !.marker = writer.file]
           /\ writer' = [writer EXCEPT !.pc = "restart"]
  <2>1. WriterAt("restart")
    BY <1>4, WriterGoes DEF WriterPCs
  <2>2. live.config = writer.file
    BY <1>4 DEF Settled, WriterSettled
  <2>3. live'.config = writer.file /\ live'.marker = writer.file
    BY <1>1, <1>4, <2>2 DEF FilePairs
  <2> QED
    BY <1>1, <1>4, <2>1, <2>3, WriterOn
<1> QED
  BY <1>2, <1>3, <1>4 DEF WriterPublishes, WriterMarks

(* A restart of the listener by a writer at rest, which shares the files   *)
(* with an activation or leaves them clean.                                *)
LEMMA RestSettled ==
  ASSUME Base, Settled, writer.pc = "restart", writer.kind # "join", runs' = live.config,
         writer' = NoWriter, UNCHANGED <<saved, change, live>>
  PROVE  Settled'
<1>1. WriterSettled' /\ ~Holds' /\ Resting
  BY NothingTyped DEF WriterSettled, Holds, Resting
<1>2. ASSUME NEW p \in HostProcs PROVE CommandSettled(p)'
  BY <1>1 DEF Settled, CommandSettled, Published, Exposed, Midway, In
<1>3. ASSUME \A p \in HostProcs : ~Midway(p)' PROVE FilesClean'
  <2>1. \A p \in HostProcs : ~Midway(p)
    BY <1>3 DEF Midway, In
  <2>2. live.config = Render(saved) /\ live.marker = Render(saved)
    BY <1>1, <2>1 DEF Settled, FilesClean, Published
  <2> QED
    BY <2>2 DEF FilesClean, Published
<1> QED
  BY <1>1, <1>2, <1>3 DEF Settled

(* A restart runs what is published, and may settle a doubt.               *)
LEMMA RestartsSettled ==
  ASSUME Base, SettledInv, unsettled' = "no", WriterRestarts
  PROVE  Settled'
<1>1. writer.pc = "restart" /\ UNCHANGED <<saved, change, live>>
  BY DEF WriterRestarts
<1>2. CASE /\ writer.kind # "join" /\ runs' = live.config /\ writer' = NoWriter
           /\ unsettled' = IF Settles THEN "no" ELSE unsettled
  <2>1. CASE Settles
    <3>1. ~SomeExposed
      BY <2>1, NobodyMidway, HandshakeHostAssumptions DEF Settles, SomeExposed
    <3> QED
      BY <1>1, <1>2, <2>1, <3>1, WriterDone DEF Settles, Published
  <2>2. CASE ~Settles
    BY <1>1, <1>2, <2>2, RestSettled DEF SettledInv
  <2> QED
    BY <2>1, <2>2
<1>3. CASE WriterFails
  <2>1. writer.kind = "join" /\ WriterAt("restore") /\ Settled
    BY <1>3, WriterFailed DEF SettledInv
  <2> QED
    BY <1>1, <2>1, WriterOn DEF Holds
<1>4. CASE /\ writer.kind = "join" /\ runs' = live.config /\ unsettled' = unsettled
           /\ writer' = [writer EXCEPT !.pc = "save"]
  <2>1. WriterAt("save") /\ Settled
    BY <1>4, WriterGoes DEF WriterPCs, SettledInv
  <2>2. live.config = writer.file /\ live.marker = writer.file
    BY <1>1, <1>4, <2>1 DEF Settled, WriterSettled, Published
  <2> QED
    BY <1>1, <1>4, <2>1, <2>2, WriterOn DEF Holds
<1> QED
  BY <1>2, <1>3, <1>4 DEF WriterRestarts

(* A join stores what it published, or restores what was there.            *)
LEMMA JoinSettled ==
  ASSUME Base, Settled, unsettled' = "no", JoinSaves \/ JoinRestores
  PROVE  Settled'
<1>0. /\ writer.pc \in {"save", "restore"} /\ writer.kind = "join" /\ UNCHANGED change
      /\ WriterSettled /\ Holds /\ ~SomeExposed
  BY HoldsAlone DEF JoinSaves, JoinRestores, Base, HostWriterInv, Settled, Holds
<1>1. CASE JoinSaves
  <2>1. writer.pc = "save" /\ UNCHANGED <<live, runs>>
    BY <1>1 DEF JoinSaves, listener
  <2>2. CASE saved' = writer.cand /\ writer' = NoWriter
    BY <1>0, <2>1, <2>2, WriterDone DEF WriterSettled, Published
  <2>3. CASE writer' = [writer EXCEPT !.pc = "restore"] /\ UNCHANGED saved
    <3>1. WriterAt("restore")
      BY <2>3, WriterGoes DEF WriterPCs
    <3> QED
      BY <1>0, <2>3, <3>1, WriterOn
  <2> QED
    BY <1>1, <2>2, <2>3 DEF JoinSaves
<1>2. CASE JoinRestores
  <2>1. /\ UNCHANGED saved /\ writer' = NoWriter /\ live' = writer.old /\ runs' = writer.old.config
    BY <1>2 DEF JoinRestores, Unsettle
  <2> QED
    BY <1>0, <2>1, WriterDone DEF WriterSettled
<1> QED
  BY <1>1, <1>2

(* A step of another writer that gives no reason for the two to differ.    *)
LEMMA OtherSettled ==
  ASSUME Base, SettledInv, unsettled' = "no", OthersStep \/ WriterKill
  PROVE  Settled'
<1>1. CASE WriterRestarts
  BY <1>1, RestartsSettled
<1>2. CASE JoinUncertain \/ WriterKill
  BY <1>2 DEF JoinUncertain, WriterKill, Unsettle
<1>3. CASE WriterPublishes \/ WriterMarks
  <2>1. unsettled = "no"
    BY <1>3 DEF WriterPublishes, WriterMarks, WriterFails, Unsettle
  <2> QED
    BY <1>3, <2>1, PublishesSettled DEF SettledInv
<1>4. ASSUME NEW u \in Peers, StateFirst("client", u) \/ StateFirst("revoke", u) \/ JoinPublishes(u)
      PROVE  Settled'
  <2>1. unsettled = "no"
    BY <1>4 DEF StateFirst, JoinPublishes, Unsettle
  <2> QED
    BY <1>4, <2>1, BeginSettled DEF SettledInv
<1>5. CASE Repair
  <2>1. Settled /\ UNCHANGED <<change, live, runs>>
    BY <1>5 DEF Repair, SettledInv, listener
  <2>2. writer'.pc = "render" /\ writer'.kind # "join"
    BY <1>5, RepairBegins DEF Repair, Starts
  <2> QED
    BY <2>1, <2>2, RenderQuiet
<1>6. CASE WriterRenders
  <2>1. unsettled = "no"
    BY <1>6 DEF WriterRenders, Unsettle
  <2> QED
    BY <1>6, <2>1, RendersSettled DEF SettledInv
<1>7. CASE JoinSaves \/ JoinRestores
  <2>1. unsettled = "no"
    BY <1>7 DEF JoinSaves, JoinRestores, Unsettle
  <2> QED
    BY <1>7, <2>1, JoinSettled DEF SettledInv
<1>8. CASE OtherSave \/ WindowCloses
  <2>1. Settled /\ UNCHANGED <<change, live, runs, writer>>
    BY <1>8 DEF OtherSave, WindowCloses, SettledInv, listener
  <2>2. Render(saved') = Render(saved)
    BY <1>8 DEF OtherSave, WindowCloses, Render, Base, HostType, HostStates
  <2> QED
    BY <2>1, <2>2, SameSettled DEF SameFiles
<1> QED
  BY <1>1, <1>2, <1>3, <1>4, <1>5, <1>6, <1>7, <1>8 DEF OthersStep

(* A reboot starts the listener on the files that are there.               *)
LEMMA RebootSettled ==
  ASSUME Base, SettledInv, unsettled' = "no", HostReboot
  PROVE  Settled'
<1>1. unsettled = "no" /\ writer = NoWriter /\ \A p \in HostProcs : ~Midway(p)
  BY DEF HostReboot, Unsettle
<1>2. live.config = Render(saved) /\ live.marker = Render(saved)
  BY <1>1, NothingTyped DEF SettledInv, Settled, FilesClean, Resting, Holds, Published
<1>3. /\ UNCHANGED <<saved, live>> /\ writer' = NoWriter /\ runs' = live.config
      /\ \A p \in HostProcs : change'[p] = NoCommand
  BY DEF HostReboot
<1>4. FilesClean' /\ WriterSettled'
  BY <1>2, <1>3, NothingTyped DEF FilesClean, Published, WriterSettled
<1>5. ASSUME NEW p \in HostProcs PROVE CommandSettled(p)'
  BY <1>3, CommandFree, NothingTyped, Counters
<1> QED
  BY <1>4, <1>5 DEF Settled

-----------------------------------------------------------------------------
(* No step of a command takes a reason back.                               *)
LEMMA StepTold ==
  ASSUME NEW p \in HostProcs, HostStep(p) \/ HostKill(p), unsettled' = "no"
  PROVE  unsettled = "no"
<1>1. CASE (\E h \in HostNames : PlanPrepare(p, h)) \/ PlanCommit(p) \/ PlanRollback(p)
  BY <1>1 DEF PlanPrepare, PlanCommit, PlanRollback, Plan
<1>2. CASE LastLook(p) \/ HostKill(p)
  BY <1>2 DEF LastLook, HostKill, Unsettle
<1>3. CASE Undo(p) \/ UndoRestart(p) \/ Uncertain(p)
  BY <1>3 DEF Undo, UndoRestart, Uncertain, Unsettle
<1>4. CASE \/ Confirmed(p) \/ PrepareSave(p) \/ Lock(p) \/ Stage(p) \/ Verify(p) \/ RenameConfig(p)
           \/ RenameMarker(p) \/ Restart(p) \/ CommitSave(p) \/ Reconcile(p) \/ Finish(p)
  BY <1>4 DEF Confirmed, PrepareSave, Lock, Stage, Verify, RenameConfig, RenameMarker, Restart,
              CommitSave, Reconcile, Finish
<1> QED
  BY <1>1, <1>2, <1>3, <1>4 DEF HostStep

(* The initial state satisfies the invariant.                              *)
LEMMA HostStarts == HostInit => HostInv
<1> SUFFICES ASSUME HostInit PROVE HostInv
  OBVIOUS
<1> DEFINE h == CHOOSE n \in HostNames : TRUE
<1>1. h \in Names
  BY HandshakeHostAssumptions DEF Names
<1>2. saved = [NoState EXCEPT !.gen = 1, !.host = h]
  BY DEF HostInit
<1> HIDE DEF h
<1>3. saved \in HostStates /\ saved.change = NoChange
  BY <1>1, <1>2, NothingTyped DEF HostStates, NoState
<1>4. /\ live.config = Render(saved) /\ live.marker = Render(saved) /\ runs = Render(saved)
      /\ flock = "none" /\ writer = NoWriter /\ change \in [HostProcs -> HostCommands]
      /\ \A p \in HostProcs : change[p] = NoCommand
  BY NothingTyped DEF HostInit
<1>5. live \in FilePairs
  BY <1>3, Rendered DEF HostInit, FilePairs
<1>6. HostType
  BY <1>3, <1>4, <1>5, Rendered, NothingTyped DEF HostType
<1>7. PlanInv
  BY <1>3, <1>4, NothingTyped DEF PlanInv, PlanOf, Reviewed, NoChange
<1>8. LockInv
  BY <1>4, NothingTyped, Counters DEF LockInv, LockOf
<1>9. HostWriterInv
  BY <1>4, NothingTyped DEF HostWriterInv
<1>10. Settled
  <2>1. FilesClean
    BY <1>4 DEF FilesClean, Published
  <2>2. WriterSettled
    BY <1>4, NothingTyped DEF WriterSettled
  <2>3. ASSUME NEW p \in HostProcs PROVE CommandSettled(p)
    BY <1>4, NothingTyped DEF CommandSettled, Exposed, Midway, In
  <2> QED
    BY <2>1, <2>2, <2>3 DEF Settled
<1> QED
  BY <1>6, <1>7, <1>8, <1>9, <1>10 DEF HostInv, SettledInv

(* Every step preserves the invariant.                                     *)
LEMMA HostGoes == HostInv /\ [HostNext]_hostVars => HostInv'
<1> SUFFICES ASSUME HostInv, [HostNext]_hostVars PROVE HostInv'
  OBVIOUS
<1>0. Base /\ SettledInv
  BY DEF HostInv, Base
<1>1. ASSUME NEW p \in HostProcs, HostStep(p) \/ HostKill(p) PROVE Base' /\ SettledInv'
  <2>1. Base'
    BY <1>0, <1>1, StepShape, ShapeBase
  <2>2. ASSUME unsettled' = "no" PROVE Settled'
    <3>1. Settled
      BY <1>0, <1>1, <2>2, StepTold DEF SettledInv
    <3> QED
      BY <1>0, <1>1, <2>2, <3>1, StepSettled
  <2> QED
    BY <2>1, <2>2 DEF SettledInv
<1>2. ASSUME OthersStep \/ WriterKill PROVE Base' /\ SettledInv'
  <2>1. Base'
    BY <1>0, <1>2, OtherStepShape, OtherBase
  <2>2. ASSUME unsettled' = "no" PROVE Settled'
    BY <1>0, <1>2, <2>2, OtherSettled
  <2> QED
    BY <2>1, <2>2 DEF SettledInv
<1>3. ASSUME HostReboot PROVE Base' /\ SettledInv'
  <2>1. Base'
    BY <1>0, <1>3, RebootBase
  <2>2. ASSUME unsettled' = "no" PROVE Settled'
    BY <1>0, <1>3, <2>2, RebootSettled
  <2> QED
    BY <2>1, <2>2 DEF SettledInv
<1>4. ASSUME UNCHANGED hostVars PROVE Base' /\ SettledInv'
  <2>1. UNCHANGED <<saved, live, runs, flock, change, writer, unsettled>>
    BY <1>4 DEF hostVars, listener
  <2>2. Base'
    BY <1>0, <2>1 DEF Base, HostType, PlanInv, PlanOf, LockInv, LockOf, HostWriterInv, Reviewed
  <2>3. Settled => Settled'
    BY <2>1, SameSettled DEF SameFiles
  <2> QED
    BY <1>0, <2>1, <2>2, <2>3 DEF SettledInv
<1>5. Base' /\ SettledInv'
  BY <1>1, <1>2, <1>3, <1>4 DEF HostNext
<1> QED
  BY <1>5 DEF HostInv, Base

(* With nobody at work nobody is midway, so the files are those of the     *)
(* stored state.                                                           *)
LEMMA HostInvSound == HostInv => HostSound
<1> SUFFICES ASSUME HostInv PROVE HostSound
  OBVIOUS
<1>0. Base /\ SettledInv
  BY DEF HostInv, Base
<1>1. CommitReviewed
  BY <1>0 DEF Base, PlanInv, Reviewed, CommitReviewed
<1>2. ASSUME unsettled = "no", flock = "none", writer = NoWriter
      PROVE  Published(Render(saved)) /\ runs = Render(saved)
  <2>1. \A p \in HostProcs : ~Midway(p)
    BY <1>0, <1>2, NobodyMidway, HandshakeHostAssumptions
  <2> QED
    BY <1>0, <1>2, <2>1, NothingTyped DEF SettledInv, Settled, FilesClean, Resting, Holds
<1> QED
  BY <1>1, <1>2 DEF HostSound, ListenerFollowsState

(* For any number of commands, writers, failures, kills and reboots: with  *)
(* nothing at work, both files and the running listener are those of the   *)
(* stored state unless one of the four Reasons has occurred since a writer *)
(* last settled them, and a committed change affects exactly whom its      *)
(* review named.                                                           *)
THEOREM ListenerSound == HostSpec => []HostSound
<1>1. HostInit => HostInv
  BY HostStarts
<1>2. HostInv /\ [HostNext]_hostVars => HostInv'
  BY HostGoes
<1>3. HostInv => HostSound
  BY HostInvSound
<1> QED
  BY <1>1, <1>2, <1>3, PTL DEF HostSpec

(***************************************************************************)
(* The release                                                             *)
(***************************************************************************)

(* Types.                                                                  *)
OpIds == Procs \X Nat
Ledgers == UNION {[D -> Statuses] : D \in SUBSET OpIds}
Records == [gen : Nat \ {0}, version : Versions, ops : Ledgers,
            other : 0..MaxOther]
Keepsakes == [state : Records, to : Versions, applied : SUBSET Records]
Shelves == UNION {[D -> Keepsakes] : D \in SUBSET OpIds}
Rereads == [wrote : Records, ok : AllSteps, err : AllSteps]
UpdateJobs ==
  [cmd : {"update", "rollback"}, target : Versions, base : Records,
   bundle : Versions \cup {Null}, sums : Versions \cup {Null},
   persisted : Records, done : SUBSET ComponentNames, meta : BOOLEAN,
   resumed : BOOLEAN, snap : OpIds \cup {Null}, prior : Records \cup {Null},
   then : Rereads \cup {Null}]
Shipped(c) == {Build[c][v] : v \in Versions}
UpdateTypes ==
  /\ file \in [ComponentNames -> UNION {Shipped(c) : c \in ComponentNames}]
  /\ \A c \in ComponentNames : file[c] \in Shipped(c)
  /\ bundle \in Versions /\ sums \in Versions /\ state \in Records
  /\ dirs \in Shelves /\ mgmt \in BOOLEAN
  /\ pc \in [Procs -> AllSteps \cup {"idle"}]
  /\ job \in [Procs -> UpdateJobs \cup {NoJob}]
  /\ faults \in Nat

-----------------------------------------------------------------------------
(* What is known of the stored states, whoever runs beside whom and        *)
(* whatever fails: a generation names one state, and a command's own       *)
(* states hold nothing but what the one it has planned from held.          *)
BeforeSnapshot == {"inspect", "apply", "validate", "quiesce", "prepare",
                   "resume_only"}
UpdateSteps == {"prepare", "abort_begin", "finalize", "promote", "rb_abort"}
Stored(s) == s.gen <= state.gen /\ (s.gen = state.gen => s = state)
Descends(p, j, x) ==
  LET id == <<p, j.base.gen>> IN
  /\ j \in UpdateJobs /\ x \in AllSteps \ {"reread"} /\ j.then = Null
  /\ Stored(j.base) /\ Stored(j.persisted)
  /\ j.base.gen <= j.persisted.gen /\ j.persisted.other = j.base.other
  /\ x # "inspect" => j.bundle \in Versions /\ j.sums \in Versions
  /\ x \in UpdateSteps => j.cmd = "update"
  /\ x = "consume" => j.cmd = "rollback"
  /\ j.cmd = "rollback" /\ x # "inspect" =>
       j.prior \in Records /\ j.prior.other = j.base.other
  /\ j.cmd = "update" /\ x \notin BeforeSnapshot =>
       /\ j.snap = id
       /\ id \in DOMAIN dirs => dirs[id].state = j.base

(* A command that reads the state again may go on as if the save had       *)
(* succeeded or as if it had failed.                                       *)
AsWritten(j) == [j EXCEPT !.persisted = j.then.wrote, !.then = Null]
Refuted(j) == [j EXCEPT !.then = Null]
Lineage(p) ==
  IF pc[p] = "reread"
    THEN /\ job[p] \in UpdateJobs /\ job[p].then \in Rereads
         /\ Descends(p, AsWritten(job[p]), job[p].then.ok)
         /\ Descends(p, Refuted(job[p]), job[p].then.err)
    ELSE Descends(p, job[p], pc[p])

LineageInv ==
  /\ UpdateTypes
  /\ \A id \in DOMAIN dirs :
       \A s \in dirs[id].applied : s.other = dirs[id].state.other
  /\ \A p \in Procs : IF Running(p) THEN Lineage(p) ELSE job[p] = NoJob

-----------------------------------------------------------------------------
(* Ledgers, records and shelves.                                           *)

(* A ledger of operations: an operation changes its status or is added.    *)
LEMMA LedgerFacts ==
  ASSUME NEW f \in Ledgers
  PROVE  DOMAIN f \subseteq OpIds /\ f \in [DOMAIN f -> Statuses]
<1>1. PICK D \in SUBSET OpIds : f \in [D -> Statuses]
  BY DEF Ledgers
<1> QED
  BY <1>1

LEMMA LedgerSets ==
  ASSUME NEW f \in Ledgers, NEW id, NEW st \in Statuses
  PROVE  /\ [f EXCEPT ![id] = st] \in Ledgers
         /\ DOMAIN [f EXCEPT ![id] = st] = DOMAIN f
         /\ \A o \in DOMAIN f : [f EXCEPT ![id] = st][o] = IF o = id THEN st ELSE f[o]
<1>1. DOMAIN f \subseteq OpIds /\ f \in [DOMAIN f -> Statuses]
  BY LedgerFacts
<1>2. [f EXCEPT ![id] = st] \in [DOMAIN f -> Statuses]
  BY <1>1
<1> QED
  BY <1>1, <1>2 DEF Ledgers

LEMMA LedgerAdds ==
  ASSUME NEW f \in Ledgers, NEW id \in OpIds, NEW st \in Statuses, NEW g,
         g = [o \in DOMAIN f \cup {id} |-> IF o = id THEN st ELSE f[o]]
  PROVE  /\ g \in Ledgers /\ DOMAIN g = DOMAIN f \cup {id} /\ g[id] = st
         /\ \A o \in DOMAIN f \ {id} : g[o] = f[o]
<1>1. DOMAIN f \subseteq OpIds /\ f \in [DOMAIN f -> Statuses]
  BY LedgerFacts
<1>2. g \in [DOMAIN f \cup {id} -> Statuses]
  BY <1>1
<1> QED
  BY <1>1, <1>2 DEF Ledgers

(* The snapshots on the shelf: one is added, bound to a state, removed.    *)
LEMMA ShelfFacts ==
  ASSUME NEW f \in Shelves
  PROVE  DOMAIN f \subseteq OpIds /\ f \in [DOMAIN f -> Keepsakes]
<1>1. PICK D \in SUBSET OpIds : f \in [D -> Keepsakes]
  BY DEF Shelves
<1> QED
  BY <1>1

LEMMA ShelfAdds ==
  ASSUME NEW f \in Shelves, NEW id \in OpIds, NEW d \in Keepsakes
  PROVE  /\ With(f, id, d) \in Shelves
         /\ DOMAIN With(f, id, d) = DOMAIN f \cup {id} /\ With(f, id, d)[id] = d
         /\ \A o \in DOMAIN f \ {id} : With(f, id, d)[o] = f[o]
<1>1. DOMAIN f \subseteq OpIds /\ f \in [DOMAIN f -> Keepsakes]
  BY ShelfFacts
<1>2. With(f, id, d) \in [DOMAIN f \cup {id} -> Keepsakes]
  BY <1>1 DEF With
<1> QED
  BY <1>1, <1>2 DEF Shelves, With

LEMMA ShelfDrops ==
  ASSUME NEW f \in Shelves, NEW id
  PROVE  /\ Without(f, id) \in Shelves
         /\ DOMAIN Without(f, id) = DOMAIN f \ {id}
         /\ \A o \in DOMAIN f \ {id} : Without(f, id)[o] = f[o]
<1>1. DOMAIN f \subseteq OpIds /\ f \in [DOMAIN f -> Keepsakes]
  BY ShelfFacts
<1>2. Without(f, id) \in [DOMAIN f \ {id} -> Keepsakes]
  BY <1>1 DEF Without
<1> QED
  BY <1>1, <1>2 DEF Shelves, Without

Binding(f, id, s) == [f EXCEPT ![id].applied = {s}]
LEMMA ShelfBinds ==
  ASSUME NEW f \in Shelves, NEW id \in DOMAIN f, NEW s \in Records
  PROVE  /\ Binding(f, id, s) \in Shelves /\ DOMAIN Binding(f, id, s) = DOMAIN f
         /\ Binding(f, id, s)[id].applied = {s}
         /\ Binding(f, id, s)[id].state = f[id].state
         /\ Binding(f, id, s)[id].to = f[id].to
         /\ \A o \in DOMAIN f \ {id} : Binding(f, id, s)[o] = f[o]
<1>1. DOMAIN f \subseteq OpIds /\ f \in [DOMAIN f -> Keepsakes]
  BY ShelfFacts
<1>2. [f[id] EXCEPT !.applied = {s}] \in Keepsakes
  BY <1>1 DEF Keepsakes
<1>3. PICK g : g = Binding(f, id, s)
  OBVIOUS
<1>4. g \in [DOMAIN f -> Keepsakes]
  BY <1>1, <1>2, <1>3 DEF Binding
<1>5. g[id] = [f[id] EXCEPT !.applied = {s}] /\ \A o \in DOMAIN f \ {id} : g[o] = f[o]
  BY <1>1, <1>3 DEF Binding
<1>6. /\ g[id].applied = {s} /\ g[id].state = f[id].state /\ g[id].to = f[id].to
  BY <1>1, <1>5 DEF Keepsakes
<1>7. g \in Shelves /\ DOMAIN g = DOMAIN f
  BY <1>1, <1>4 DEF Shelves
<1> QED
  BY <1>3, <1>5, <1>6, <1>7

(* The states a command stores: one generation on, nobody else's writes.   *)
Successor(s, t) == t \in Records /\ t.gen = s.gen + 1

LEMMA RecordFacts ==
  ASSUME NEW s \in Records
  PROVE  /\ s.gen \in Nat \ {0} /\ s.version \in Versions /\ s.ops \in Ledgers
         /\ s.other \in 0..MaxOther
BY DEF Records

LEMMA StatusFacts ==
  "pending" \in Statuses /\ "active" \in Statuses /\ "completed" \in Statuses
  /\ "failed" \in Statuses
BY DEF Statuses

Opening(s, id) ==
  [s EXCEPT !.gen = NextGeneration(s),
     !.ops = [o \in DOMAIN s.ops \cup {id} |-> IF o = id THEN "pending" ELSE s.ops[o]]]
LEMMA BeginFacts ==
  ASSUME NEW s \in Records, NEW id \in OpIds
  PROVE  /\ Successor(s, Opening(s, id)) /\ Opening(s, id).version = s.version
         /\ Opening(s, id).other = s.other
         /\ DOMAIN Opening(s, id).ops = DOMAIN s.ops \cup {id}
         /\ Opening(s, id).ops[id] = "pending"
<1>1. s.gen + 1 \in Nat \ {0}
  BY RecordFacts
<1>2. PICK f \in Ledgers : f = s.ops
  BY RecordFacts
<1>3. PICK g : g = [o \in DOMAIN f \cup {id} |-> IF o = id THEN "pending" ELSE f[o]]
  OBVIOUS
<1>4. g \in Ledgers /\ g[id] = "pending" /\ DOMAIN g = DOMAIN f \cup {id}
  BY <1>3, LedgerAdds, StatusFacts
<1>5. PICK u : u = Opening(s, id)
  OBVIOUS
<1>6. u = [s EXCEPT !.gen = s.gen + 1, !.ops = g]
  BY <1>2, <1>3, <1>5 DEF NextGeneration, Opening
<1>7. /\ Successor(s, u) /\ u.version = s.version /\ u.other = s.other
      /\ u.ops = g
  BY <1>1, <1>2, <1>4, <1>6 DEF Records, Successor
<1> QED
  BY <1>2, <1>4, <1>5, <1>7

(* The later ones change the status of the operation.                      *)
Amending(s, t, v, id, st) ==
  [s EXCEPT !.gen = NextGeneration(t), !.version = v, !.ops = WithOp(t, id, st)]
LEMMA LaterFacts ==
  ASSUME NEW s \in Records, NEW t \in Records, NEW v \in Versions, NEW id,
         NEW st \in Statuses
  PROVE  /\ Successor(t, Amending(s, t, v, id, st))
         /\ Amending(s, t, v, id, st).version = v
         /\ Amending(s, t, v, id, st).other = s.other
         /\ DOMAIN Amending(s, t, v, id, st).ops = DOMAIN t.ops
         /\ \A o \in DOMAIN t.ops :
              Amending(s, t, v, id, st).ops[o] = IF o = id THEN st ELSE t.ops[o]
<1>1. t.gen + 1 \in Nat \ {0} /\ t.ops \in Ledgers
  BY RecordFacts
<1>2. PICK g, u : g = WithOp(t, id, st) /\ u = Amending(s, t, v, id, st)
  OBVIOUS
<1>3. /\ g \in Ledgers /\ DOMAIN g = DOMAIN t.ops
      /\ \A o \in DOMAIN t.ops : g[o] = IF o = id THEN st ELSE t.ops[o]
  BY <1>1, <1>2, LedgerSets DEF WithOp
<1>4. u = [s EXCEPT !.gen = t.gen + 1, !.version = v, !.ops = g]
  BY <1>2 DEF NextGeneration, Amending
<1>5. Successor(t, u) /\ u.version = v /\ u.other = s.other /\ u.ops = g
  BY <1>1, <1>3, <1>4 DEF Records, Successor
<1> QED
  BY <1>2, <1>3, <1>5

-----------------------------------------------------------------------------
(* LineageInv: how a command's knowledge survives.                         *)

Advance == state' = state \/ Successor(state, state')
SameShelf(id) ==
  id \in DOMAIN dirs' => id \in DOMAIN dirs /\ dirs'[id].state = dirs[id].state

(* What was stored stays known when the state moves on.                    *)
LEMMA StoredKept ==
  ASSUME state \in Records, Advance, NEW s \in Records, Stored(s)
  PROVE  Stored(s)'
<1>1. s.gen \in Nat /\ state.gen \in Nat
  BY RecordFacts
<1> QED
  BY <1>1 DEF Advance, Successor, Stored

LEMMA JobFacts ==
  ASSUME NEW j \in UpdateJobs
  PROVE  /\ j.base \in Records /\ j.persisted \in Records /\ j.target \in Versions
         /\ j.base.gen \in Nat \ {0} /\ j.persisted.gen \in Nat \ {0}
         /\ j.cmd \in {"update", "rollback"} /\ j.done \subseteq ComponentNames
         /\ j # NoJob
<1>1. /\ j.base \in Records /\ j.persisted \in Records /\ j.target \in Versions
      /\ j.cmd \in {"update", "rollback"} /\ j.done \subseteq ComponentNames
  BY DEF UpdateJobs
<1>2. j.base.gen \in Nat \ {0} /\ j.persisted.gen \in Nat \ {0}
  BY <1>1, RecordFacts
<1>3. j # NoJob
  BY <1>1, UpdateAssumptions DEF NoJob
<1> QED
  BY <1>1, <1>2, <1>3

LEMMA DescendsKept ==
  ASSUME state \in Records, Advance, NEW p \in Procs, NEW j, NEW x,
         Descends(p, j, x), SameShelf(<<p, j.base.gen>>)
  PROVE  Descends(p, j, x)'
<1>1. j \in UpdateJobs /\ Stored(j.base) /\ Stored(j.persisted)
  BY DEF Descends
<1>2. Stored(j.base)' /\ Stored(j.persisted)'
  BY <1>1, JobFacts, StoredKept
<1> QED
  BY <1>2 DEF Descends, SameShelf

LEMMA LineageKept ==
  ASSUME state \in Records, Advance, NEW p \in Procs, Lineage(p),
         UNCHANGED <<pc[p], job[p]>>, \A g \in Nat : SameShelf(<<p, g>>)
  PROVE  Lineage(p)'
<1>1. ASSUME NEW j, NEW x, Descends(p, j, x)
      PROVE  Descends(p, j, x)'
  <2>1. j.base.gen \in Nat
    BY <1>1, JobFacts DEF Descends
  <2> QED
    BY <1>1, <2>1, DescendsKept
<1>2. CASE pc[p] = "reread"
  <2>1. PICK a, b, x, y : /\ a = AsWritten(job[p]) /\ b = Refuted(job[p])
                          /\ x = job[p].then.ok /\ y = job[p].then.err
    OBVIOUS
  <2>2. Descends(p, a, x)' /\ Descends(p, b, y)'
    BY <1>1, <1>2, <2>1 DEF Lineage
  <2>3. /\ a = AsWritten(job'[p]) /\ b = Refuted(job'[p])
        /\ x = job'[p].then.ok /\ y = job'[p].then.err
    BY <2>1
  <2>4. Descends(p, AsWritten(job[p]), job[p].then.ok)'
        /\ Descends(p, Refuted(job[p]), job[p].then.err)'
    BY <2>2, <2>3 DEF Descends
  <2> QED
    BY <1>2, <2>4 DEF Lineage
<1>3. CASE pc[p] # "reread"
  <2>1. Descends(p, job[p], pc[p])'
    <3>1. PICK j, x : j = job[p] /\ x = pc[p]
      OBVIOUS
    <3>2. Descends(p, j, x)'
      BY <1>1, <1>3, <3>1 DEF Lineage
    <3> QED
      BY <3>1, <3>2 DEF Descends
  <2> QED
    BY <1>3, <2>1 DEF Lineage
<1> QED
  BY <1>2, <1>3

(* What a step of one command has to show.                                 *)
LEMMA LineageStep ==
  ASSUME LineageInv, NEW p \in Procs, UpdateTypes', Advance,
         \A q \in Procs \ {p} : pc'[q] = pc[q] /\ job'[q] = job[q],
         \A id \in DOMAIN dirs' : id[1] = p \/ SameShelf(id),
         (\A id \in DOMAIN dirs :
            \A s \in dirs[id].applied : s.other = dirs[id].state.other)',
         (IF Running(p) THEN Lineage(p) ELSE job[p] = NoJob)'
  PROVE  LineageInv'
<1>1. ASSUME NEW q \in Procs \ {p}
      PROVE  (IF Running(q) THEN Lineage(q) ELSE job[q] = NoJob)'
  <2>1. IF Running(q) THEN Lineage(q) ELSE job[q] = NoJob
    BY DEF LineageInv
  <2>2. pc'[q] = pc[q] /\ job'[q] = job[q]
    OBVIOUS
  <2>3. \A g \in Nat : SameShelf(<<q, g>>)
    BY DEF SameShelf
  <2>4. state \in Records
    BY DEF LineageInv, UpdateTypes
  <2>5. Running(q) => Lineage(q)'
    BY <2>1, <2>2, <2>3, <2>4, LineageKept
  <2> QED
    BY <2>1, <2>2, <2>5 DEF Running
<1>2. \A q \in Procs : (IF Running(q) THEN Lineage(q) ELSE job[q] = NoJob)'
  BY <1>1
<1> QED
  BY <1>2 DEF LineageInv

(* A step of a command, process by process.                                *)
HostTypes ==
  /\ file \in [ComponentNames -> UNION {Shipped(c) : c \in ComponentNames}]
  /\ \A c \in ComponentNames : file[c] \in Shipped(c)
  /\ bundle \in Versions /\ sums \in Versions /\ mgmt \in BOOLEAN /\ faults \in Nat
Proceeds(p, k, y) ==
  /\ pc' \in [Procs -> AllSteps \cup {"idle"}] /\ pc'[p] = y
  /\ job' \in [Procs -> UpdateJobs \cup {NoJob}] /\ job'[p] = k
  /\ \A q \in Procs \ {p} : pc'[q] = pc[q] /\ job'[q] = job[q]
AppliedSound ==
  \A id \in DOMAIN dirs : \A s \in dirs[id].applied : s.other = dirs[id].state.other
ShelfKept(p) ==
  /\ dirs' \in Shelves /\ AppliedSound'
  /\ \A id \in DOMAIN dirs' : id[1] = p \/ SameShelf(id)

LEMMA Proceeded ==
  ASSUME UpdateTypes, NEW p \in Procs, NEW y \in AllSteps \cup {"idle"},
         NEW k \in UpdateJobs \cup {NoJob},
         Go(p, y) \/ (UNCHANGED pc /\ y = pc[p]),
         job' = [job EXCEPT ![p] = k] \/ (UNCHANGED job /\ k = job[p])
  PROVE  Proceeds(p, k, y)
<1>1. /\ pc \in [Procs -> AllSteps \cup {"idle"}]
      /\ job \in [Procs -> UpdateJobs \cup {NoJob}]
  BY DEF UpdateTypes
<1>2. /\ pc' \in [Procs -> AllSteps \cup {"idle"}] /\ pc'[p] = y
      /\ \A q \in Procs \ {p} : pc'[q] = pc[q]
  BY <1>1 DEF Go
<1>3. /\ job' \in [Procs -> UpdateJobs \cup {NoJob}] /\ job'[p] = k
      /\ \A q \in Procs \ {p} : job'[q] = job[q]
  BY <1>1
<1> QED
  BY <1>2, <1>3 DEF Proceeds

LEMMA Returned ==
  ASSUME UpdateTypes, NEW p \in Procs, Return(p)
  PROVE  Proceeds(p, NoJob, "idle")
BY Proceeded DEF Return

LEMMA MoveLineage ==
  ASSUME LineageInv, NEW p \in Procs, NEW k, NEW y, Proceeds(p, k, y), Advance,
         state' \in Records, HostTypes', ShelfKept(p),
         \/ y \in AllSteps \ {"reread"} /\ Descends(p, k, y)'
         \/ y = "reread" /\ k \in UpdateJobs /\ k.then \in Rereads
            /\ Descends(p, AsWritten(k), k.then.ok)'
            /\ Descends(p, Refuted(k), k.then.err)'
         \/ y = "idle" /\ k = NoJob
  PROVE  LineageInv'
<1>1. UpdateTypes'
  BY DEF Proceeds, HostTypes, ShelfKept, UpdateTypes
<1>2. (IF Running(p) THEN Lineage(p) ELSE job[p] = NoJob)'
  <2>1. pc'[p] = y /\ job'[p] = k
    BY DEF Proceeds
  <2>2. CASE y \in AllSteps \ {"reread"} /\ Descends(p, k, y)'
    <3>1. Descends(p, job[p], pc[p])'
      BY <2>1, <2>2 DEF Descends
    <3> QED
      BY <2>1, <2>2, <3>1 DEF Running, Lineage, AllSteps
  <2>3. CASE y = "reread" /\ k \in UpdateJobs /\ k.then \in Rereads
             /\ Descends(p, AsWritten(k), k.then.ok)'
             /\ Descends(p, Refuted(k), k.then.err)'
    <3>1. Descends(p, AsWritten(job[p]), job[p].then.ok)'
          /\ Descends(p, Refuted(job[p]), job[p].then.err)'
      BY <2>1, <2>3 DEF Descends
    <3> QED
      BY <2>1, <2>3, <3>1 DEF Running, Lineage
  <2>4. CASE y = "idle" /\ k = NoJob
    BY <2>1, <2>4 DEF Running
  <2> QED
    BY <2>2, <2>3, <2>4
<1>3. \A q \in Procs \ {p} : pc'[q] = pc[q] /\ job'[q] = job[q]
  BY DEF Proceeds
<1>4. (\A id \in DOMAIN dirs :
         \A s \in dirs[id].applied : s.other = dirs[id].state.other)'
  BY DEF ShelfKept, AppliedSound
<1>5. \A id \in DOMAIN dirs' : id[1] = p \/ SameShelf(id)
  BY DEF ShelfKept
<1> QED
  BY <1>1, <1>2, <1>3, <1>4, <1>5, LineageStep

(* The snapshots stay as they are, or one is removed.                      *)
LEMMA ShelfStays ==
  ASSUME LineageInv, NEW p \in Procs,
         UNCHANGED dirs \/ \E x : dirs' = Without(dirs, x)
  PROVE  ShelfKept(p) /\ \A id : SameShelf(id)
<1>1. dirs \in Shelves /\ AppliedSound
  BY DEF LineageInv, UpdateTypes, AppliedSound
<1>2. CASE UNCHANGED dirs
  BY <1>1, <1>2 DEF ShelfKept, AppliedSound, SameShelf
<1>3. ASSUME NEW x, dirs' = Without(dirs, x)
      PROVE  ShelfKept(p) /\ \A id : SameShelf(id)
  <2>1. /\ dirs' \in Shelves /\ DOMAIN dirs' = DOMAIN dirs \ {x}
        /\ \A o \in DOMAIN dirs' : dirs'[o] = dirs[o]
    BY <1>1, <1>3, ShelfDrops
  <2> QED
    BY <1>1, <2>1 DEF ShelfKept, AppliedSound, SameShelf
<1> QED
  BY <1>2, <1>3

(* From step x to step y of one command, which keeps what it relies on.    *)
LEMMA Follows ==
  ASSUME NEW p \in Procs, NEW j, NEW x, Descends(p, j, x), x # "inspect",
         NEW k \in UpdateJobs, NEW y \in AllSteps \ {"reread", "inspect"},
         k.cmd = j.cmd, k.base = j.base, k.persisted = j.persisted, k.bundle = j.bundle,
         k.sums = j.sums, k.snap = j.snap, k.prior = j.prior, k.then = j.then,
         y \in UpdateSteps => j.cmd = "update",
         y = "consume" => j.cmd = "rollback",
         y \notin BeforeSnapshot => x \notin BeforeSnapshot \/ j.cmd = "rollback"
  PROVE  Descends(p, k, y)
BY DEF Descends

(* The job of a running command.                                           *)
LEMMA RunningFacts ==
  ASSUME LineageInv, NEW p \in Procs, pc[p] \in AllSteps \ {"reread"}
  PROVE  /\ Descends(p, job[p], pc[p]) /\ job[p] \in UpdateJobs
         /\ UpdateTypes /\ HostTypes /\ state \in Records
<1>1. pc[p] # "idle" /\ pc[p] # "reread"
  BY DEF AllSteps
<1>2. Lineage(p) /\ UpdateTypes
  BY <1>1 DEF LineageInv, Running
<1> QED
  BY <1>1, <1>2 DEF Lineage, Descends, UpdateTypes, HostTypes

(* A step that leaves the state alone and goes from x to y.                *)
LEMMA QuietStep ==
  ASSUME LineageInv, NEW p \in Procs, pc[p] \in AllSteps \ {"reread", "inspect"},
         NEW k \in UpdateJobs, NEW y \in AllSteps \ {"reread", "inspect"},
         Proceeds(p, k, y), UNCHANGED state, HostTypes', ShelfKept(p),
         \A id : SameShelf(id),
         k.cmd = job[p].cmd, k.base = job[p].base, k.persisted = job[p].persisted,
         k.bundle = job[p].bundle, k.sums = job[p].sums, k.snap = job[p].snap,
         k.prior = job[p].prior, k.then = job[p].then,
         y \in UpdateSteps => k.cmd = "update",
         y = "consume" => k.cmd = "rollback",
         y \notin BeforeSnapshot => pc[p] \notin BeforeSnapshot \/ k.cmd = "rollback"
  PROVE  LineageInv'
<1>1. Descends(p, job[p], pc[p]) /\ state \in Records
  BY RunningFacts
<1>2. PICK j, x : j = job[p] /\ x = pc[p]
  OBVIOUS
<1>3. Descends(p, j, x)
  BY <1>1, <1>2
<1>4. Descends(p, k, y)
  BY <1>2, <1>3, Follows
<1>5. Advance
  BY DEF Advance
<1>6. Descends(p, k, y)'
  BY <1>1, <1>4, <1>5, DescendsKept
<1> QED
  BY <1>1, <1>5, <1>6, MoveLineage

LEMMA ReturnStep ==
  ASSUME LineageInv, NEW p \in Procs, Return(p), UNCHANGED state, HostTypes',
         ShelfKept(p)
  PROVE  LineageInv'
<1>1. Proceeds(p, NoJob, "idle") /\ state \in Records
  BY Returned DEF LineageInv, UpdateTypes
<1> QED
  BY <1>1, MoveLineage DEF Advance

(* The types of what is installed, after any step of a command.            *)
LEMMA FaultTypes ==
  ASSUME faults \in Nat, NEW p, NEW kind, Fault(p, kind) \/ UNCHANGED faults
  PROVE  faults' \in Nat
BY DEF Fault

LEMMA ControllerTypes ==
  ASSUME mgmt \in BOOLEAN, StopController \/ StartController \/ UNCHANGED mgmt
  PROVE  mgmt' \in BOOLEAN
BY Zenon DEF StopController, StartController

LEMMA SameHost ==
  ASSUME HostTypes, UNCHANGED <<disk, mgmt, faults>>
  PROVE  HostTypes'
BY DEF HostTypes, disk

LEMMA ReplacedTypes ==
  ASSUME HostTypes, NEW c \in ComponentNames, NEW v \in Versions,
         file' = [file EXCEPT ![c] = Build[c][v]]
  PROVE  /\ file' \in [ComponentNames -> UNION {Shipped(d) : d \in ComponentNames}]
         /\ \A d \in ComponentNames : file'[d] \in Shipped(d)
<1>1. Build[c][v] \in Shipped(c)
  BY DEF Shipped
<1>2. file \in [ComponentNames -> UNION {Shipped(d) : d \in ComponentNames}]
      /\ \A d \in ComponentNames : file[d] \in Shipped(d)
  BY DEF HostTypes
<1> QED
  BY <1>1, <1>2

(* Planning.                                                               *)
LEMMA StartLineage ==
  ASSUME LineageInv, NEW p \in Procs, NEW c \in Commands, NEW v \in Versions,
         Start(p, c, v)
  PROVE  LineageInv'
<1>1. PICK k : k = NewJob(c, v)
  OBVIOUS
<1>2. UpdateTypes /\ state \in Records /\ HostTypes
  BY DEF LineageInv, UpdateTypes, HostTypes
<1>3. k \in UpdateJobs
  BY <1>1, <1>2, UpdateAssumptions DEF NewJob, UpdateJobs
<1>4. /\ k.cmd = c /\ k.base = state /\ k.persisted = state /\ k.then = Null
  BY <1>1 DEF NewJob
<1>5. Proceeds(p, k, "inspect")
  BY <1>1, <1>2, <1>3, Proceeded DEF Start, AllSteps
<1>6. Descends(p, k, "inspect")
  <2>1. state.gen \in Nat
    BY <1>2, RecordFacts
  <2> QED
    BY <1>3, <1>4, <2>1
    DEF Descends, Stored, AllSteps, UpdateSteps, BeforeSnapshot
<1>7. Advance /\ UNCHANGED <<state, dirs, disk, mgmt, faults>>
  BY DEF Start, Advance, snapshots
<1>8. ShelfKept(p) /\ \A id : SameShelf(id)
  BY <1>7, ShelfStays
<1>9. Descends(p, k, "inspect")'
  BY <1>2, <1>6, <1>7, <1>8, DescendsKept
<1> QED
  BY <1>2, <1>5, <1>7, <1>8, <1>9, SameHost, MoveLineage DEF AllSteps

LEMMA Inspected ==
  ASSUME LineageInv, NEW p \in Procs, pc[p] = "inspect", NEW k \in UpdateJobs,
         Proceeds(p, k, "apply"), UNCHANGED <<disk, state, snapshots, mgmt, faults>>,
         k.cmd = job[p].cmd, k.base = job[p].base, k.persisted = job[p].persisted,
         k.then = job[p].then, k.bundle \in Versions, k.sums \in Versions,
         k.cmd = "rollback" => k.prior \in Records /\ k.prior.other = k.base.other
  PROVE  LineageInv'
<1>1. Descends(p, job[p], pc[p]) /\ state \in Records /\ HostTypes
  BY RunningFacts DEF AllSteps
<1>2. Descends(p, k, "apply")
  BY <1>1 DEF Descends, AllSteps, UpdateSteps, BeforeSnapshot
<1>3. Advance
  BY DEF Advance
<1>4. ShelfKept(p) /\ \A id : SameShelf(id)
  BY ShelfStays DEF snapshots
<1>5. Descends(p, k, "apply")'
  BY <1>1, <1>2, <1>3, <1>4, DescendsKept
<1> QED
  BY <1>1, <1>3, <1>4, <1>5, SameHost, MoveLineage DEF AllSteps

LEMMA PlanUpdateLineage ==
  ASSUME LineageInv, NEW p \in Procs, PlanUpdate(p)
  PROVE  LineageInv'
<1>1. /\ pc[p] = "inspect" /\ job[p].cmd = "update"
      /\ UNCHANGED <<disk, state, snapshots, mgmt, faults>>
  BY DEF PlanUpdate
<1>2. /\ job[p] \in UpdateJobs /\ UpdateTypes /\ HostTypes
      /\ bundle \in Versions /\ sums \in Versions
      /\ job \in [Procs -> UpdateJobs \cup {NoJob}]
  BY <1>1, RunningFacts DEF AllSteps, HostTypes, UpdateTypes
<1>3. CASE Return(p)
  BY <1>1, <1>2, <1>3, SameHost, ShelfStays, ReturnStep DEF snapshots
<1>4. CASE ~ Return(p)
  <2>1. PICK k : k = [job[p] EXCEPT !.bundle = bundle, !.sums = sums]
    OBVIOUS
  <2>2. job' = [job EXCEPT ![p].bundle = bundle, ![p].sums = sums] /\ Go(p, "apply")
    BY <1>4 DEF PlanUpdate
  <2>3. job' = [job EXCEPT ![p] = k]
    BY <1>2, <2>1, <2>2
  <2>4. k \in UpdateJobs /\ k.cmd = job[p].cmd /\ k.base = job[p].base
        /\ k.persisted = job[p].persisted /\ k.then = job[p].then
        /\ k.bundle = bundle /\ k.sums = sums
    BY <1>2, <2>1 DEF UpdateJobs
  <2>5. Proceeds(p, k, "apply")
    BY <1>2, <2>2, <2>3, <2>4, Proceeded DEF AllSteps
  <2> QED
    BY <1>1, <1>2, <2>4, <2>5, Inspected
<1> QED
  BY <1>3, <1>4

LEMMA PlanRollbackLineage ==
  ASSUME LineageInv, NEW p \in Procs, PlanUpdateRollback(p)
  PROVE  LineageInv'
<1>1. /\ pc[p] = "inspect" /\ job[p].cmd = "rollback"
      /\ UNCHANGED <<disk, state, snapshots, mgmt, faults>>
  BY DEF PlanUpdateRollback
<1>2. /\ job[p] \in UpdateJobs /\ UpdateTypes /\ HostTypes
      /\ bundle \in Versions /\ sums \in Versions /\ dirs \in Shelves
      /\ job \in [Procs -> UpdateJobs \cup {NoJob}]
  BY <1>1, RunningFacts DEF AllSteps, HostTypes, UpdateTypes
<1>3. CASE Return(p)
  BY <1>1, <1>2, <1>3, SameHost, ShelfStays, ReturnStep DEF snapshots
<1>4. CASE ~ Return(p)
  <2>1. PICK s, t : s = dirs[previous].state /\ t = previous
    OBVIOUS
  <2>2. PICK k : k = [job[p] EXCEPT !.bundle = bundle, !.sums = sums,
                        !.target = s.version, !.snap = t, !.prior = s]
    OBVIOUS
  <2>3. /\ job' = [job EXCEPT ![p].bundle = bundle, ![p].sums = sums,
                     ![p].target = s.version, ![p].snap = t, ![p].prior = s]
        /\ Go(p, "apply") /\ t \in DOMAIN dirs /\ dirs[t].applied = {job[p].base}
    BY <1>4, <2>1 DEF PlanUpdateRollback, LoadPrevious
  <2>4. s \in Records /\ s.version \in Versions /\ t \in OpIds
    <3>1. dirs[t] \in Keepsakes /\ t \in OpIds
      BY <1>2, <2>3, ShelfFacts
    <3> QED
      BY <2>1, <3>1, RecordFacts DEF Keepsakes
  <2>5. s.other = job[p].base.other
    BY <2>1, <2>3 DEF LineageInv
  <2>6. job' = [job EXCEPT ![p] = k]
    BY <1>2, <2>2, <2>3
  <2>7. k \in UpdateJobs /\ k.cmd = job[p].cmd /\ k.base = job[p].base
        /\ k.persisted = job[p].persisted /\ k.then = job[p].then
        /\ k.bundle = bundle /\ k.sums = sums /\ k.prior = s
    BY <1>2, <2>2, <2>4 DEF UpdateJobs
  <2>8. Proceeds(p, k, "apply")
    BY <1>2, <2>3, <2>6, <2>7, Proceeded DEF AllSteps
  <2> QED
    BY <1>1, <1>2, <2>4, <2>5, <2>7, <2>8, Inspected
<1> QED
  BY <1>3, <1>4

(* Applying.                                                               *)
LEMMA QuietGo ==
  ASSUME LineageInv, NEW p \in Procs, pc[p] \in AllSteps \ {"reread", "inspect"},
         NEW y \in AllSteps \ {"reread", "inspect"}, Go(p, y),
         UNCHANGED <<state, job>>, HostTypes',
         UNCHANGED dirs \/ \E x : dirs' = Without(dirs, x),
         y \in UpdateSteps => job[p].cmd = "update",
         y = "consume" => job[p].cmd = "rollback",
         y \notin BeforeSnapshot => pc[p] \notin BeforeSnapshot \/ job[p].cmd = "rollback"
  PROVE  LineageInv'
<1>1. PICK k : k = job[p]
  OBVIOUS
<1>2. k \in UpdateJobs /\ UpdateTypes
  BY <1>1, RunningFacts
<1>3. Proceeds(p, k, y)
  BY <1>1, <1>2, Proceeded
<1>4. ShelfKept(p) /\ \A id : SameShelf(id)
  BY ShelfStays
<1> QED
  BY <1>1, <1>2, <1>3, <1>4, QuietStep

LEMMA UpdateStepFacts ==
  ASSUME LineageInv, NEW p \in Procs, pc[p] \in AllSteps \ {"reread"}
  PROVE  /\ pc[p] \in UpdateSteps => job[p].cmd = "update"
         /\ pc[p] = "consume" => job[p].cmd = "rollback"
         /\ job[p].cmd \in {"update", "rollback"}
         /\ HostTypes /\ UpdateTypes /\ job[p] \in UpdateJobs
         /\ pc[p] # "inspect" => job[p].bundle \in Versions /\ job[p].sums \in Versions
         /\ job[p].target \in Versions
         /\ job \in [Procs -> UpdateJobs \cup {NoJob}]
<1>1. Descends(p, job[p], pc[p]) /\ job[p] \in UpdateJobs /\ UpdateTypes /\ HostTypes
  BY RunningFacts
<1> QED
  BY <1>1, JobFacts DEF Descends, UpdateTypes

LEMMA CheckStateLineage ==
  ASSUME LineageInv, NEW p \in Procs, CheckState(p)
  PROVE  LineageInv'
<1>1. pc[p] = "apply" /\ UNCHANGED <<disk, state, snapshots, mgmt, faults>>
  BY DEF CheckState
<1>2. HostTypes'
  BY <1>1, UpdateStepFacts, SameHost DEF AllSteps
<1>3. CASE Return(p)
  BY <1>1, <1>2, <1>3, ShelfStays, ReturnStep DEF snapshots
<1>4. CASE Go(p, "validate") /\ UNCHANGED job
  BY <1>1, <1>2, <1>4, QuietGo DEF snapshots, AllSteps, BeforeSnapshot, UpdateSteps
<1> QED
  BY <1>3, <1>4 DEF CheckState

LEMMA ValidateLineage ==
  ASSUME LineageInv, NEW p \in Procs, ValidateInstalled(p)
  PROVE  LineageInv'
<1>1. pc[p] = "validate" /\ UNCHANGED <<disk, state, snapshots, mgmt, faults>>
  BY DEF ValidateInstalled
<1>2. HostTypes'
  BY <1>1, UpdateStepFacts, SameHost DEF AllSteps
<1>3. CASE Return(p)
  BY <1>1, <1>2, <1>3, ShelfStays, ReturnStep DEF snapshots
<1>4. CASE Go(p, "quiesce") /\ UNCHANGED job
  BY <1>1, <1>2, <1>4, QuietGo DEF snapshots, AllSteps, BeforeSnapshot, UpdateSteps
<1> QED
  BY <1>3, <1>4 DEF ValidateInstalled

LEMMA QuiesceLineage ==
  ASSUME LineageInv, NEW p \in Procs, QuiesceManagement(p)
  PROVE  LineageInv'
<1>1. pc[p] = "quiesce" /\ UNCHANGED <<disk, state, dirs, job>>
  BY DEF QuiesceManagement, snapshots
<1>2. job[p].cmd \in {"update", "rollback"} /\ HostTypes
  BY <1>1, UpdateStepFacts DEF AllSteps
<1>3. HostTypes'
  <2>1. faults' \in Nat
    BY <1>2, FaultTypes DEF QuiesceManagement, ControllerFault, HostTypes
  <2>2. mgmt' \in BOOLEAN
    BY <1>2, ControllerTypes DEF QuiesceManagement, HostTypes
  <2> QED
    BY <1>1, <1>2, <2>1, <2>2 DEF HostTypes, disk
<1>4. PICK y \in {"prepare", "begin", "resume_only"} :
        /\ Go(p, y) /\ (y = "prepare" => job[p].cmd = "update")
        /\ (y = "begin" => job[p].cmd = "rollback")
  BY <1>2 DEF QuiesceManagement
<1> QED
  BY <1>1, <1>3, <1>4, QuietGo DEF AllSteps, BeforeSnapshot, UpdateSteps

LEMMA ResumeOnlyLineage ==
  ASSUME LineageInv, NEW p \in Procs, ResumeOnly(p)
  PROVE  LineageInv'
<1>1. pc[p] = "resume_only" /\ UNCHANGED <<disk, state, dirs>> /\ Return(p)
  BY DEF ResumeOnly, snapshots
<1>2. HostTypes
  BY <1>1, UpdateStepFacts DEF AllSteps
<1>3. HostTypes'
  <2>1. faults' \in Nat
    BY <1>2, FaultTypes DEF ResumeOnly, ControllerFault, HostTypes
  <2>2. mgmt' \in BOOLEAN
    BY <1>2, ControllerTypes DEF ResumeOnly, HostTypes
  <2> QED
    BY <1>1, <1>2, <2>1, <2>2 DEF HostTypes, disk
<1> QED
  BY <1>1, <1>3, ShelfStays, ReturnStep

(* The snapshot of the release that is left.                               *)
LEMMA PrepareLineage ==
  ASSUME LineageInv, NEW p \in Procs, PrepareSnapshot(p)
  PROVE  LineageInv'
<1>1. pc[p] = "prepare" /\ UNCHANGED <<disk, state, mgmt>>
  BY DEF PrepareSnapshot
<1>2. /\ job[p].cmd = "update" /\ HostTypes /\ UpdateTypes /\ job[p] \in UpdateJobs
      /\ job \in [Procs -> UpdateJobs \cup {NoJob}]
      /\ Descends(p, job[p], "prepare") /\ state \in Records
  BY <1>1, UpdateStepFacts, RunningFacts DEF AllSteps, UpdateSteps
<1>3. HostTypes'
  <2>1. faults' \in Nat
    BY <1>2, FaultTypes DEF PrepareSnapshot, HostTypes
  <2> QED
    BY <1>1, <1>2, <2>1 DEF HostTypes, disk
<1>4. CASE Go(p, "resume_only") /\ UNCHANGED <<dirs, job>>
  BY <1>1, <1>3, <1>4, QuietGo DEF AllSteps, BeforeSnapshot, UpdateSteps
<1>5. CASE ~ (Go(p, "resume_only") /\ UNCHANGED <<dirs, job>>)
  <2>1. PICK id, d : id = OpId(p)
                     /\ d = [state |-> job[p].base, to |-> job[p].target, applied |-> {}]
    OBVIOUS
  <2>2. /\ id \notin DOMAIN dirs /\ dirs' = With(dirs, id, d)
        /\ job' = [job EXCEPT ![p].snap = id] /\ Go(p, "begin")
    BY <1>5, <2>1 DEF PrepareSnapshot
  <2>3. id \in OpIds /\ d \in Keepsakes /\ id = <<p, job[p].base.gen>> /\ id[1] = p
    BY <1>2, <2>1, JobFacts DEF OpId, OpIds, Keepsakes
  <2>4. dirs \in Shelves /\ AppliedSound
    BY DEF LineageInv, UpdateTypes, AppliedSound
  <2>5. /\ dirs' \in Shelves /\ DOMAIN dirs' = DOMAIN dirs \cup {id} /\ dirs'[id] = d
        /\ \A o \in DOMAIN dirs \ {id} : dirs'[o] = dirs[o]
    <3>1. PICK e : e = With(dirs, id, d)
      OBVIOUS
    <3>2. /\ e \in Shelves /\ DOMAIN e = DOMAIN dirs \cup {id} /\ e[id] = d
          /\ \A o \in DOMAIN dirs \ {id} : e[o] = dirs[o]
      BY <2>3, <2>4, <3>1, ShelfAdds
    <3> QED
      BY <2>2, <3>1, <3>2
  <2>6. ShelfKept(p)
    BY <2>1, <2>3, <2>4, <2>5 DEF ShelfKept, AppliedSound, SameShelf
  <2>7. PICK k : k = [job[p] EXCEPT !.snap = id]
    OBVIOUS
  <2>8. /\ k \in UpdateJobs /\ job' = [job EXCEPT ![p] = k] /\ k.snap = id
        /\ k.cmd = job[p].cmd /\ k.base = job[p].base /\ k.persisted = job[p].persisted
        /\ k.bundle = job[p].bundle /\ k.sums = job[p].sums /\ k.then = job[p].then
    BY <1>2, <2>2, <2>3, <2>7 DEF UpdateJobs
  <2>9. Proceeds(p, k, "begin")
    BY <1>2, <2>2, <2>8, Proceeded DEF AllSteps
  <2>10. Stored(k.base)' /\ Stored(k.persisted)'
    BY <1>1, <1>2, <2>8 DEF Descends, Stored
  <2>11. Descends(p, k, "begin")'
    BY <1>2, <2>1, <2>3, <2>5, <2>8, <2>10 DEF Descends, AllSteps, UpdateSteps
  <2> QED
    BY <1>1, <1>2, <1>3, <2>6, <2>9, <2>11, MoveLineage DEF Advance, AllSteps
<1> QED
  BY <1>4, <1>5

(* The replacement of the files and of the metadata.                       *)
LEMMA SmallestOf ==
  ASSUME NEW S \in SUBSET Nat, S # {}
  PROVE  \E i \in S : \A k \in S : i <= k
<1>1. PICK i \in S : \A k \in S : <<k, i>> \notin OpToRel(<, Nat)
  BY NatLessThanWellFounded, WFMin
<1>2. ASSUME NEW k \in S
      PROVE  i <= k
  <2>1. <<k, i>> \notin OpToRel(<, Nat)
    BY <1>1
  <2>2. ~ k < i
    BY <2>1 DEF OpToRel
  <2> QED
    BY <2>2
<1> QED
  BY <1>2

LEMMA FirstOf ==
  ASSUME NEW S \in SUBSET DOMAIN Components, S # {}
  PROVE  First(S) \in S /\ Components[First(S)] \in ComponentNames
<1>1. S \in SUBSET Nat
  BY UpdateAssumptions
<1>2. \E i \in S : \A k \in S : i <= k
  BY <1>1, SmallestOf
<1> QED
  BY <1>2 DEF First, ComponentNames

LEMMA LastOf ==
  ASSUME NEW S \in SUBSET DOMAIN Components, S # {}
  PROVE  Last(S) \in S /\ Components[Last(S)] \in ComponentNames
<1>1. PICK n \in Nat : S \subseteq 1..n
  BY UpdateAssumptions
<1>2. PICK T : T = {m \in Nat : \A i \in S : i <= m}
  OBVIOUS
<1>3. T \in SUBSET Nat /\ n \in T
  BY <1>1, <1>2
<1>4. PICK m \in T : \A k \in T : m <= k
  BY <1>3, SmallestOf
<1>5. m \in Nat /\ \A i \in S : i \in Nat /\ i <= m /\ i # 0
  BY <1>1, <1>2, <1>4
<1>6. m \in S
  <2>1. SUFFICES ASSUME m \notin S PROVE FALSE
    OBVIOUS
  <2>2. m # 0
    BY <1>5
  <2>3. m - 1 \in Nat /\ \A i \in S : i <= m - 1
    BY <1>5, <2>1, <2>2
  <2> QED
    BY <1>2, <1>4, <1>5, <2>3
<1>7. \E i \in S : \A k \in S : i >= k
  BY <1>5, <1>6
<1> QED
  BY <1>7 DEF Last, ComponentNames

(* A step that changes only what the command has done so far.              *)
LEMMA QuietWork ==
  ASSUME LineageInv, NEW p \in Procs,
         pc[p] \in AllSteps \ ({"reread", "inspect"} \cup BeforeSnapshot),
         NEW y \in AllSteps \ {"reread", "inspect"},
         Go(p, y) \/ (UNCHANGED pc /\ y = pc[p]),
         NEW D \in SUBSET ComponentNames, NEW m \in BOOLEAN, NEW r \in BOOLEAN,
         job' = [job EXCEPT ![p] = [job[p] EXCEPT !.done = D, !.meta = m, !.resumed = r]],
         UNCHANGED <<state, dirs>>, HostTypes',
         y \in UpdateSteps => job[p].cmd = "update",
         y = "consume" => job[p].cmd = "rollback"
  PROVE  LineageInv'
<1>1. PICK k : k = [job[p] EXCEPT !.done = D, !.meta = m, !.resumed = r]
  OBVIOUS
<1>2. job[p] \in UpdateJobs /\ UpdateTypes
  BY RunningFacts
<1>3. /\ k \in UpdateJobs
      /\ k.cmd = job[p].cmd /\ k.base = job[p].base /\ k.persisted = job[p].persisted
      /\ k.bundle = job[p].bundle /\ k.sums = job[p].sums /\ k.snap = job[p].snap
      /\ k.prior = job[p].prior /\ k.then = job[p].then
  BY <1>1, <1>2 DEF UpdateJobs
<1>4. Proceeds(p, k, y)
  BY <1>1, <1>2, <1>3, Proceeded
<1>5. ShelfKept(p) /\ \A id : SameShelf(id)
  BY ShelfStays
<1> QED
  BY <1>3, <1>4, <1>5, QuietStep

LEMMA DoneJob ==
  ASSUME NEW j \in UpdateJobs
  PROVE  /\ j.done \in SUBSET ComponentNames /\ j.meta \in BOOLEAN /\ j.resumed \in BOOLEAN
         /\ \A D : [j EXCEPT !.done = D]
                   = [j EXCEPT !.done = D, !.meta = j.meta, !.resumed = j.resumed]
         /\ \A m : [j EXCEPT !.meta = m]
                   = [j EXCEPT !.done = j.done, !.meta = m, !.resumed = j.resumed]
         /\ \A r : [j EXCEPT !.resumed = r]
                   = [j EXCEPT !.done = j.done, !.meta = j.meta, !.resumed = r]
BY DEF UpdateJobs

LEMMA ActivateComponentLineage ==
  ASSUME LineageInv, NEW p \in Procs, ActivateComponent(p)
  PROVE  LineageInv'
<1>1. /\ pc[p] = "activate" /\ ToActivate(job[p]) # {}
      /\ UNCHANGED <<bundle, sums, state, dirs, mgmt>>
  BY DEF ActivateComponent, snapshots
<1>2. /\ job[p] \in UpdateJobs /\ HostTypes /\ job[p].target \in Versions
      /\ job \in [Procs -> UpdateJobs \cup {NoJob}]
  BY <1>1, UpdateStepFacts DEF AllSteps
<1>3. PICK c : c = Components[First(ToActivate(job[p]))]
  OBVIOUS
<1>4. c \in ComponentNames
  BY <1>1, <1>3, FirstOf DEF ToActivate
<1>5. HostTypes'
  <2>1. faults' \in Nat
    BY <1>2, FaultTypes DEF ActivateComponent, HostTypes
  <2>2. file' = [file EXCEPT ![c] = Build[c][job[p].target]] \/ UNCHANGED file
    BY <1>3 DEF ActivateComponent
  <2>3. /\ file' \in [ComponentNames -> UNION {Shipped(d) : d \in ComponentNames}]
        /\ \A d \in ComponentNames : file'[d] \in Shipped(d)
    BY <1>2, <1>4, <2>2, ReplacedTypes DEF HostTypes
  <2> QED
    BY <1>1, <1>2, <2>1, <2>3 DEF HostTypes
<1>6. CASE UNCHANGED job /\ Go(p, "rb_quiesce")
  BY <1>1, <1>5, <1>6, QuietGo DEF AllSteps, BeforeSnapshot, UpdateSteps
<1>7. CASE ~ (UNCHANGED job /\ Go(p, "rb_quiesce"))
  <2>1. PICK D : D = job[p].done \cup {c}
    OBVIOUS
  <2>2. /\ job' = [job EXCEPT ![p].done = D]
        /\ \/ UNCHANGED pc
           \/ Go(p, "rb_quiesce")
    BY <1>3, <1>7, <2>1 DEF ActivateComponent
  <2>3. D \in SUBSET ComponentNames
    BY <1>2, <1>4, <2>1, DoneJob
  <2>4. job' = [job EXCEPT ![p] = [job[p] EXCEPT !.done = D, !.meta = job[p].meta,
                                     !.resumed = job[p].resumed]]
    BY <1>2, <2>2, DoneJob
  <2>5. PICK y \in {"activate", "rb_quiesce"} : Go(p, y) \/ (UNCHANGED pc /\ y = pc[p])
    BY <1>1, <2>2
  <2> QED
    BY <1>1, <1>2, <1>5, <2>3, <2>4, <2>5, DoneJob, QuietWork
    DEF AllSteps, BeforeSnapshot, UpdateSteps
<1> QED
  BY <1>6, <1>7

LEMMA ActivatedAllLineage ==
  ASSUME LineageInv, NEW p \in Procs, ActivatedAll(p)
  PROVE  LineageInv'
<1>1. /\ pc[p] = "activate" /\ Go(p, "publish_bundle")
      /\ UNCHANGED <<disk, state, dirs, mgmt, job, faults>>
  BY DEF ActivatedAll, snapshots
<1>2. HostTypes'
  BY <1>1, UpdateStepFacts, SameHost DEF AllSteps
<1> QED
  BY <1>1, <1>2, QuietGo DEF AllSteps, BeforeSnapshot, UpdateSteps

LEMMA PublishBundleLineage ==
  ASSUME LineageInv, NEW p \in Procs, PublishBundle(p)
  PROVE  LineageInv'
<1>1. pc[p] = "publish_bundle" /\ UNCHANGED <<file, sums, state, dirs, mgmt, job>>
  BY DEF PublishBundle, snapshots
<1>2. HostTypes /\ job[p].target \in Versions
  BY <1>1, UpdateStepFacts DEF AllSteps
<1>3. HostTypes'
  <2>1. faults' \in Nat
    BY <1>2, FaultTypes DEF PublishBundle, HostTypes
  <2>2. bundle' \in Versions
    BY <1>2 DEF PublishBundle, HostTypes
  <2> QED
    BY <1>1, <1>2, <2>1, <2>2 DEF HostTypes
<1>4. PICK y \in {"publish_sums", "rb_quiesce"} : Go(p, y)
  BY DEF PublishBundle
<1> QED
  BY <1>1, <1>3, <1>4, QuietGo DEF AllSteps, BeforeSnapshot, UpdateSteps

LEMMA PublishChecksumsLineage ==
  ASSUME LineageInv, NEW p \in Procs, PublishChecksums(p)
  PROVE  LineageInv'
<1>1. pc[p] = "publish_sums" /\ UNCHANGED <<file, state, dirs, mgmt>>
  BY DEF PublishChecksums, snapshots
<1>2. /\ job[p] \in UpdateJobs /\ HostTypes /\ job[p].target \in Versions
      /\ job[p].bundle \in Versions /\ job \in [Procs -> UpdateJobs \cup {NoJob}]
  BY <1>1, UpdateStepFacts DEF AllSteps
<1>3. HostTypes'
  <2>1. faults' \in Nat
    BY <1>2, FaultTypes DEF PublishChecksums, HostTypes
  <2>2. bundle' \in Versions /\ sums' \in Versions
    BY <1>2 DEF PublishChecksums, HostTypes
  <2> QED
    BY <1>1, <1>2, <2>1, <2>2 DEF HostTypes
<1>4. CASE UNCHANGED job /\ Go(p, "rb_quiesce")
  BY <1>1, <1>3, <1>4, QuietGo DEF AllSteps, BeforeSnapshot, UpdateSteps
<1>5. CASE job' = [job EXCEPT ![p].meta = TRUE] /\ Go(p, "active")
  <2>1. PICK D, m, r, y : /\ D = job[p].done /\ m = TRUE /\ r = job[p].resumed
                          /\ y = "active"
    OBVIOUS
  <2>2. job' = [job EXCEPT ![p] = [job[p] EXCEPT !.done = D, !.meta = m, !.resumed = r]]
    BY <1>2, <1>5, <2>1, DoneJob
  <2>3. D \in SUBSET ComponentNames /\ m \in BOOLEAN /\ r \in BOOLEAN
    BY <1>2, <2>1, DoneJob, Zenon
  <2>4. /\ y \in AllSteps \ {"reread", "inspect"} /\ Go(p, y)
        /\ y \notin UpdateSteps /\ y # "consume"
        /\ pc[p] \in AllSteps \ ({"reread", "inspect"} \cup BeforeSnapshot)
    BY <1>1, <1>5, <2>1 DEF AllSteps, BeforeSnapshot, UpdateSteps
  <2> QED
    BY <1>1, <1>3, <2>2, <2>3, <2>4, QuietWork
<1> QED
  BY <1>4, <1>5 DEF PublishChecksums

LEMMA ResumeLineage ==
  ASSUME LineageInv, NEW p \in Procs, ResumeManagement(p)
  PROVE  LineageInv'
<1>1. pc[p] = "resume" /\ UNCHANGED <<disk, state, dirs>>
  BY DEF ResumeManagement, snapshots
<1>2. /\ job[p] \in UpdateJobs /\ HostTypes
      /\ job \in [Procs -> UpdateJobs \cup {NoJob}]
  BY <1>1, UpdateStepFacts DEF AllSteps
<1>3. HostTypes'
  <2>1. faults' \in Nat
    BY <1>2, FaultTypes DEF ResumeManagement, ControllerFault, HostTypes
  <2>2. mgmt' \in BOOLEAN
    BY <1>2, ControllerTypes DEF ResumeManagement, HostTypes
  <2> QED
    BY <1>1, <1>2, <2>1, <2>2 DEF HostTypes, disk
<1>4. CASE UNCHANGED job /\ Go(p, "rb_quiesce")
  BY <1>1, <1>3, <1>4, QuietGo DEF AllSteps, BeforeSnapshot, UpdateSteps
<1>5. CASE job' = [job EXCEPT ![p].resumed = TRUE] /\ Go(p, "complete")
  <2>1. PICK D, m, r, y : /\ D = job[p].done /\ m = job[p].meta /\ r = TRUE
                          /\ y = "complete"
    OBVIOUS
  <2>2. job' = [job EXCEPT ![p] = [job[p] EXCEPT !.done = D, !.meta = m, !.resumed = r]]
    BY <1>2, <1>5, <2>1, DoneJob
  <2>3. D \in SUBSET ComponentNames /\ m \in BOOLEAN /\ r \in BOOLEAN
    BY <1>2, <2>1, DoneJob, Zenon
  <2>4. /\ y \in AllSteps \ {"reread", "inspect"} /\ Go(p, y)
        /\ y \notin UpdateSteps /\ y # "consume"
        /\ pc[p] \in AllSteps \ ({"reread", "inspect"} \cup BeforeSnapshot)
    BY <1>1, <1>5, <2>1 DEF AllSteps, BeforeSnapshot, UpdateSteps
  <2> QED
    BY <1>1, <1>3, <2>2, <2>3, <2>4, QuietWork
<1> QED
  BY <1>4, <1>5 DEF ResumeManagement

(* The snapshot is bound, promoted, consumed or removed.                   *)
LEMMA FinalizeLineage ==
  ASSUME LineageInv, NEW p \in Procs, Finalize(p)
  PROVE  LineageInv'
<1>1. pc[p] = "finalize" /\ UNCHANGED <<disk, state, mgmt, job>>
  BY DEF Finalize
<1>2. /\ job[p].cmd = "update" /\ HostTypes /\ UpdateTypes /\ job[p] \in UpdateJobs
      /\ Descends(p, job[p], "finalize") /\ state \in Records
  BY <1>1, UpdateStepFacts, RunningFacts DEF AllSteps, UpdateSteps
<1>3. HostTypes'
  <2>1. faults' \in Nat
    BY <1>2, FaultTypes DEF Finalize, HostTypes
  <2> QED
    BY <1>1, <1>2, <2>1 DEF HostTypes, disk
<1>4. CASE Go(p, "rb_quiesce") /\ UNCHANGED dirs
  BY <1>1, <1>3, <1>4, QuietGo DEF AllSteps, BeforeSnapshot, UpdateSteps
<1>5. CASE ~ (Go(p, "rb_quiesce") /\ UNCHANGED dirs)
  <2>1. PICK j, s, id : j = job[p] /\ s = j.persisted /\ id = j.snap
    OBVIOUS
  <2>2. id \in DOMAIN dirs /\ dirs' = [dirs EXCEPT ![id].applied = {s}] /\ Go(p, "promote")
    BY <1>5, <2>1 DEF Finalize
  <2>3. /\ s \in Records /\ s.other = j.base.other /\ dirs[id].state = j.base
        /\ id = <<p, j.base.gen>> /\ id[1] = p
    BY <1>2, <2>1, <2>2, JobFacts DEF Descends, BeforeSnapshot
  <2>4. dirs \in Shelves /\ AppliedSound
    BY DEF LineageInv, UpdateTypes, AppliedSound
  <2>5. PICK e : e = [dirs EXCEPT ![id].applied = {s}]
    OBVIOUS
  <2>6. /\ e \in Shelves /\ DOMAIN e = DOMAIN dirs /\ e[id].applied = {s}
        /\ e[id].state = dirs[id].state /\ \A o \in DOMAIN dirs \ {id} : e[o] = dirs[o]
    <3>1. PICK f : f = dirs
      OBVIOUS
    <3>2. f \in Shelves /\ id \in DOMAIN f /\ e = Binding(f, id, s)
      BY <2>2, <2>4, <2>5, <3>1 DEF Binding
    <3>3. s \in Records
      BY <2>3
    <3>4. e \in Shelves /\ DOMAIN e = DOMAIN f
      BY <3>2, <3>3, ShelfBinds
    <3>5. e[id].applied = {s} /\ e[id].state = f[id].state
      BY <3>2, <3>3, ShelfBinds
    <3>6. \A o \in DOMAIN f \ {id} : e[o] = f[o]
      BY <3>2, <3>3, ShelfBinds
    <3> QED
      BY <3>1, <3>4, <3>5, <3>6
  <2>7. dirs' = e
    BY <2>2, <2>5
  <2>8. ShelfKept(p) /\ \A o : SameShelf(o)
    BY <2>3, <2>4, <2>6, <2>7 DEF ShelfKept, AppliedSound, SameShelf
  <2>9. Proceeds(p, j, "promote")
    BY <1>1, <1>2, <2>1, <2>2, Proceeded DEF AllSteps
  <2> QED
    BY <1>1, <1>2, <1>3, <2>1, <2>8, <2>9, QuietStep
    DEF AllSteps, BeforeSnapshot, UpdateSteps
<1> QED
  BY <1>4, <1>5

LEMMA PromoteLineage ==
  ASSUME LineageInv, NEW p \in Procs, Promote(p)
  PROVE  LineageInv'
<1>1. pc[p] = "promote" /\ UNCHANGED <<disk, state, mgmt>>
  BY DEF Promote
<1>2. HostTypes
  BY <1>1, UpdateStepFacts DEF AllSteps
<1>3. HostTypes'
  <2>1. faults' \in Nat
    BY <1>2, FaultTypes DEF Promote, HostTypes
  <2> QED
    BY <1>1, <1>2, <2>1 DEF HostTypes, disk
<1>4. UNCHANGED dirs \/ \E x : dirs' = Without(dirs, x)
  BY DEF Promote, snapshots
<1>5. CASE Return(p)
  BY <1>1, <1>3, <1>4, <1>5, ShelfStays, ReturnStep
<1>6. CASE Go(p, "rb_quiesce") /\ UNCHANGED job
  BY <1>1, <1>3, <1>4, <1>6, QuietGo DEF AllSteps, BeforeSnapshot, UpdateSteps
<1> QED
  BY <1>5, <1>6 DEF Promote

LEMMA ConsumeLineage ==
  ASSUME LineageInv, NEW p \in Procs, ConsumePrevious(p)
  PROVE  LineageInv'
<1>1. pc[p] = "consume" /\ UNCHANGED <<disk, state, mgmt>> /\ Return(p)
  BY DEF ConsumePrevious
<1>2. HostTypes
  BY <1>1, UpdateStepFacts DEF AllSteps
<1>3. HostTypes'
  <2>1. faults' \in Nat
    BY <1>2, FaultTypes DEF ConsumePrevious, HostTypes
  <2> QED
    BY <1>1, <1>2, <2>1 DEF HostTypes, disk
<1>4. UNCHANGED dirs \/ \E x : dirs' = Without(dirs, x)
  BY DEF ConsumePrevious, snapshots
<1> QED
  BY <1>1, <1>3, <1>4, ShelfStays, ReturnStep

LEMMA AbortLineage ==
  ASSUME LineageInv, NEW p \in Procs,
         \/ pc[p] = "abort_begin" /\ Abort(p, "resume_only")
         \/ pc[p] = "rb_abort" /\ Abort(p, "idle")
  PROVE  LineageInv'
<1>1. pc[p] \in {"abort_begin", "rb_abort"} /\ UNCHANGED <<disk, state, mgmt>>
  BY DEF Abort
<1>2. HostTypes
  BY <1>1, UpdateStepFacts DEF AllSteps
<1>3. HostTypes'
  <2>1. faults' \in Nat
    BY <1>2, FaultTypes DEF Abort, HostTypes
  <2> QED
    BY <1>1, <1>2, <2>1 DEF HostTypes, disk
<1>4. UNCHANGED dirs \/ \E x : dirs' = Without(dirs, x)
  BY DEF Abort
<1>5. CASE Return(p)
  BY <1>1, <1>3, <1>4, <1>5, ShelfStays, ReturnStep
<1>6. CASE Go(p, "resume_only") /\ UNCHANGED job
  BY <1>1, <1>3, <1>4, <1>6, QuietGo DEF AllSteps, BeforeSnapshot, UpdateSteps
<1> QED
  BY <1>5, <1>6 DEF Abort

(* Undoing.                                                                *)
LEMMA UndoQuiesceLineage ==
  ASSUME LineageInv, NEW p \in Procs, UndoQuiesce(p)
  PROVE  LineageInv'
<1>1. pc[p] = "rb_quiesce" /\ UNCHANGED <<disk, state, dirs, job>> /\ Go(p, "rb_meta")
  BY DEF UndoQuiesce, snapshots
<1>2. HostTypes
  BY <1>1, UpdateStepFacts DEF AllSteps
<1>3. HostTypes'
  <2>1. faults' \in Nat
    BY <1>2, FaultTypes DEF UndoQuiesce, ControllerFault, HostTypes
  <2>2. mgmt' \in BOOLEAN
    BY <1>2, ControllerTypes DEF UndoQuiesce, HostTypes
  <2> QED
    BY <1>1, <1>2, <2>1, <2>2 DEF HostTypes, disk
<1> QED
  BY <1>1, <1>3, QuietGo DEF AllSteps, BeforeSnapshot, UpdateSteps

LEMMA RollbackMetadataLineage ==
  ASSUME LineageInv, NEW p \in Procs, RollbackMetadata(p)
  PROVE  LineageInv'
<1>1. /\ pc[p] = "rb_meta" /\ UNCHANGED <<file, state, dirs, mgmt, job>>
      /\ Go(p, "rb_files")
  BY DEF RollbackMetadata, snapshots
<1>2. HostTypes /\ job[p].bundle \in Versions /\ job[p].sums \in Versions
  BY <1>1, UpdateStepFacts DEF AllSteps
<1>3. HostTypes'
  <2>1. faults' \in Nat
    BY <1>2, FaultTypes DEF RollbackMetadata, HostTypes
  <2>2. bundle' \in Versions /\ sums' \in Versions
    BY <1>2 DEF RollbackMetadata, HostTypes
  <2> QED
    BY <1>1, <1>2, <2>1, <2>2 DEF HostTypes
<1> QED
  BY <1>1, <1>3, QuietGo DEF AllSteps, BeforeSnapshot, UpdateSteps

LEMMA RollbackComponentLineage ==
  ASSUME LineageInv, NEW p \in Procs, RollbackComponent(p)
  PROVE  LineageInv'
<1>1. PICK L : L = {i \in DOMAIN Components : Components[i] \in job[p].done}
  OBVIOUS
<1>2. PICK c : c = Components[Last(L)]
  OBVIOUS
<1>3. /\ pc[p] = "rb_files" /\ L # {}
      /\ UNCHANGED <<bundle, sums, state, dirs, mgmt, pc>>
      /\ job' = [job EXCEPT ![p].done = job[p].done \ {c}]
  BY <1>1, <1>2, UpdateStepFacts DEF RollbackComponent, snapshots, AllSteps
<1>4. /\ job[p] \in UpdateJobs /\ HostTypes /\ job[p].bundle \in Versions
      /\ job \in [Procs -> UpdateJobs \cup {NoJob}]
  BY <1>3, UpdateStepFacts DEF AllSteps
<1>5. c \in ComponentNames
  BY <1>1, <1>2, <1>3, LastOf
<1>6. HostTypes'
  <2>1. faults' \in Nat
    BY <1>4, FaultTypes DEF RollbackComponent, HostTypes
  <2>2. file' = [file EXCEPT ![c] = Build[c][job[p].bundle]] \/ UNCHANGED file
    BY <1>1, <1>2 DEF RollbackComponent
  <2>3. /\ file' \in [ComponentNames -> UNION {Shipped(d) : d \in ComponentNames}]
        /\ \A d \in ComponentNames : file'[d] \in Shipped(d)
    BY <1>4, <1>5, <2>2, ReplacedTypes DEF HostTypes
  <2> QED
    BY <1>3, <1>4, <2>1, <2>3 DEF HostTypes
<1>7. PICK D, m, r, y : /\ D = job[p].done \ {c} /\ m = job[p].meta /\ r = job[p].resumed
                        /\ y = "rb_files"
  OBVIOUS
<1>8. job' = [job EXCEPT ![p] = [job[p] EXCEPT !.done = D, !.meta = m, !.resumed = r]]
  BY <1>3, <1>4, <1>7, DoneJob
<1>9. D \in SUBSET ComponentNames /\ m \in BOOLEAN /\ r \in BOOLEAN
  BY <1>4, <1>7, DoneJob
<1>10. /\ y \in AllSteps \ {"reread", "inspect"} /\ UNCHANGED pc /\ y = pc[p]
       /\ y \notin UpdateSteps /\ y # "consume"
       /\ pc[p] \in AllSteps \ ({"reread", "inspect"} \cup BeforeSnapshot)
  BY <1>3, <1>7 DEF AllSteps, BeforeSnapshot, UpdateSteps
<1>11. UNCHANGED <<state, dirs>>
  BY <1>3
<1> QED
  BY <1>6, <1>8, <1>9, <1>10, <1>11, QuietWork

LEMMA RolledBackAllLineage ==
  ASSUME LineageInv, NEW p \in Procs, RolledBackAll(p)
  PROVE  LineageInv'
<1>1. /\ pc[p] = "rb_files" /\ Go(p, "rb_state")
      /\ UNCHANGED <<disk, state, dirs, mgmt, job, faults>>
  BY DEF RolledBackAll, snapshots
<1>2. HostTypes'
  BY <1>1, UpdateStepFacts, SameHost DEF AllSteps
<1> QED
  BY <1>1, <1>2, QuietGo DEF AllSteps, BeforeSnapshot, UpdateSteps

LEMMA UndoResumeLineage ==
  ASSUME LineageInv, NEW p \in Procs, UndoResume(p)
  PROVE  LineageInv'
<1>1. pc[p] = "rb_resume" /\ UNCHANGED <<disk, state, dirs>>
  BY DEF UndoResume, snapshots
<1>2. HostTypes /\ job[p].cmd \in {"update", "rollback"}
  BY <1>1, UpdateStepFacts DEF AllSteps
<1>3. HostTypes'
  <2>1. faults' \in Nat
    BY <1>2, FaultTypes DEF UndoResume, ControllerFault, HostTypes
  <2>2. mgmt' \in BOOLEAN
    BY <1>2, ControllerTypes DEF UndoResume, HostTypes
  <2> QED
    BY <1>1, <1>2, <2>1, <2>2 DEF HostTypes, disk
<1>4. CASE job[p].cmd = "rollback"
  BY <1>1, <1>3, <1>4, ShelfStays, ReturnStep DEF UndoResume
<1>5. CASE job[p].cmd = "update"
  <2>1. Go(p, "rb_abort") /\ UNCHANGED job
    BY <1>5 DEF UndoResume
  <2> QED
    BY <1>1, <1>3, <1>5, <2>1, QuietGo DEF AllSteps, BeforeSnapshot, UpdateSteps
<1> QED
  BY <1>2, <1>4, <1>5

(* A save of the next state of the command, whose outcome may be unknown.  *)
LEMMA SaveLineage ==
  ASSUME LineageInv, NEW p \in Procs, pc[p] \in AllSteps \ {"reread", "inspect"},
         NEW u, NEW ok \in AllSteps \ {"reread", "inspect"},
         NEW err \in AllSteps \ {"reread", "inspect"},
         SaveState(p, u, ok, err), UNCHANGED <<disk, dirs, mgmt>>,
         Successor(job[p].persisted, u), u.other = job[p].base.other,
         ok \in UpdateSteps => job[p].cmd = "update",
         ok = "consume" => job[p].cmd = "rollback",
         err \in UpdateSteps => job[p].cmd = "update", err # "consume",
         ok \notin BeforeSnapshot \/ err \notin BeforeSnapshot =>
           pc[p] \notin BeforeSnapshot \/ job[p].cmd = "rollback"
  PROVE  LineageInv' /\ state'.other >= state.other
<1>1. PICK j, x : j = job[p] /\ x = pc[p]
  OBVIOUS
<1>2. /\ Descends(p, j, x) /\ j \in UpdateJobs /\ UpdateTypes /\ HostTypes
      /\ state \in Records /\ job \in [Procs -> UpdateJobs \cup {NoJob}]
  BY <1>1, RunningFacts, UpdateStepFacts
<1>3. Descends(p, j, err) /\ Descends(p, j, ok)
  BY <1>1, <1>2, Follows
<1>4. HostTypes'
  <2>1. faults' \in Nat
    BY <1>2, FaultTypes DEF SaveState, HostTypes
  <2> QED
    BY <1>2, <2>1 DEF HostTypes, disk
<1>5. ShelfKept(p) /\ \A id : SameShelf(id)
  BY ShelfStays
<1>6. state.other \in Nat /\ j.base \in Records /\ u \in Records
  BY <1>1, <1>2, RecordFacts, JobFacts, UpdateAssumptions DEF Successor
<1>7. CASE UNCHANGED <<state, job>> /\ Go(p, err)
  <2>1. LineageInv'
    BY <1>1, <1>4, <1>7, QuietGo
  <2> QED
    BY <1>6, <1>7, <2>1
<1>8. CASE state.gen = job[p].persisted.gen /\ state' = u
  <2>1. j.persisted = state
    BY <1>1, <1>2, <1>8 DEF Descends, Stored
  <2>2. Advance /\ state' \in Records
    BY <1>1, <1>8, <2>1 DEF Advance, Successor
  <2>3. state'.other = state.other
    BY <1>1, <1>2, <1>8, <2>1 DEF Descends
  <2>4. PICK w : w = [j EXCEPT !.persisted = u]
    OBVIOUS
  <2>5. /\ w \in UpdateJobs /\ w.persisted = u
        /\ w.cmd = j.cmd /\ w.base = j.base /\ w.bundle = j.bundle /\ w.sums = j.sums
        /\ w.snap = j.snap /\ w.prior = j.prior /\ w.then = j.then
    BY <1>2, <1>6, <2>4 DEF UpdateJobs
  <2>6. Descends(p, w, ok)'
    <3>1. Stored(j.base)'
      BY <1>2, <1>6, <2>2, StoredKept DEF Descends
    <3>2. Stored(u)' /\ j.base.gen <= u.gen
      BY <1>2, <1>6, <1>8, <2>1, RecordFacts DEF Stored, Descends, Advance, Successor
    <3>3. dirs' = dirs
      OBVIOUS
    <3> QED
      BY <1>1, <1>3, <2>5, <3>1, <3>2, <3>3 DEF Descends
  <2>7. CASE job' = [job EXCEPT ![p].persisted = u] /\ Go(p, ok)
    <3>1. job' = [job EXCEPT ![p] = w]
      BY <1>1, <1>2, <2>4, <2>7
    <3>2. Proceeds(p, w, ok)
      BY <1>2, <2>5, <2>7, <3>1, Proceeded
    <3>3. LineageInv'
      BY <1>4, <1>5, <2>2, <2>6, <3>2, MoveLineage
    <3> QED
      BY <1>6, <2>3, <3>3
  <2>8. CASE /\ job' = [job EXCEPT ![p].then = [wrote |-> u, ok |-> ok, err |-> err]]
             /\ Go(p, "reread")
    <3>1. PICK t : t = [wrote |-> u, ok |-> ok, err |-> err]
      OBVIOUS
    <3>2. PICK k : k = [j EXCEPT !.then = t]
      OBVIOUS
    <3>3. t \in Rereads /\ t.wrote = u /\ t.ok = ok /\ t.err = err
      BY <1>6, <3>1 DEF Rereads
    <3>4. k \in UpdateJobs /\ k.then = t
      BY <1>2, <3>2, <3>3 DEF UpdateJobs
    <3>5. job' = [job EXCEPT ![p] = k]
      BY <1>1, <1>2, <2>8, <3>1, <3>2
    <3>6. Proceeds(p, k, "reread")
      BY <1>2, <2>8, <3>4, <3>5, Proceeded DEF AllSteps
    <3>7. AsWritten(k) = w /\ Refuted(k) = j
      <4>1. j.then = Null
        BY <1>2 DEF Descends
      <4> QED
        BY <1>2, <2>4, <3>2, <3>3, <3>4, <4>1 DEF AsWritten, Refuted, UpdateJobs
    <3>8. Descends(p, j, err)'
      BY <1>2, <1>3, <1>5, <2>2, DescendsKept
    <3>9. Descends(p, AsWritten(k), k.then.ok)' /\ Descends(p, Refuted(k), k.then.err)'
      BY <2>6, <3>3, <3>4, <3>7, <3>8
    <3>10. LineageInv'
      BY <1>4, <1>5, <2>2, <3>3, <3>4, <3>6, <3>9, MoveLineage
    <3> QED
      BY <1>6, <2>3, <3>10
  <2> QED
    BY <1>7, <1>8, <2>7, <2>8 DEF SaveState
<1> QED
  BY <1>7, <1>8 DEF SaveState

LEMMA SavePoint ==
  ASSUME LineageInv, NEW p \in Procs, pc[p] \in AllSteps \ {"reread", "inspect"},
         job[p].cmd = "rollback" \/ pc[p] \notin BeforeSnapshot
  PROVE  /\ OpId(p) \in OpIds /\ OpId(p) = <<p, job[p].base.gen>>
         /\ job[p].persisted \in Records /\ job[p].base \in Records
         /\ job[p].persisted.other = job[p].base.other
         /\ job[p].base.version \in Versions /\ job[p].target \in Versions
         /\ job[p].cmd \in {"update", "rollback"}
         /\ job[p].cmd = "rollback" =>
              /\ job[p].prior \in Records /\ job[p].prior.version \in Versions
              /\ job[p].prior.other = job[p].base.other
<1>1. Descends(p, job[p], pc[p]) /\ job[p] \in UpdateJobs
  BY RunningFacts
<1>2. /\ job[p].persisted \in Records /\ job[p].base \in Records
      /\ job[p].target \in Versions /\ job[p].cmd \in {"update", "rollback"}
      /\ job[p].base.gen \in Nat
  BY <1>1, JobFacts
<1>3. OpId(p) \in OpIds /\ OpId(p) = <<p, job[p].base.gen>>
  BY <1>2 DEF OpId, OpIds
<1>4. /\ job[p].persisted.other = job[p].base.other
      /\ job[p].cmd = "rollback" =>
           job[p].prior \in Records /\ job[p].prior.other = job[p].base.other
  BY <1>1 DEF Descends
<1> QED
  BY <1>2, <1>3, <1>4, RecordFacts

(* The five states that are stored.                                        *)
Opens(p, u) ==
  LET s == job[p].persisted IN
  /\ Successor(s, u) /\ u.version = s.version /\ u.other = job[p].base.other
  /\ DOMAIN u.ops = DOMAIN s.ops \cup {OpId(p)} /\ u.ops[OpId(p)] = "pending"
Amends(p, u, v, st) ==
  LET s == job[p].persisted IN
  /\ Successor(s, u) /\ u.version = v /\ u.other = job[p].base.other
  /\ DOMAIN u.ops = DOMAIN s.ops
  /\ \A o \in DOMAIN s.ops : u.ops[o] = IF o = OpId(p) THEN st ELSE s.ops[o]

LEMMA BeginOpens ==
  ASSUME LineageInv, NEW p \in Procs, pc[p] \in AllSteps \ {"reread", "inspect"},
         job[p].cmd = "rollback" \/ pc[p] \notin BeforeSnapshot
  PROVE  Opens(p, BeginState(p))
<1>1. PICK s, id, u : s = job[p].persisted /\ id = OpId(p) /\ u = BeginState(p)
  OBVIOUS
<1>2. s \in Records /\ id \in OpIds /\ s.other = job[p].base.other
  BY <1>1, SavePoint
<1>3. u = Opening(s, id)
  BY <1>1 DEF BeginState, Opening
<1>4. /\ Successor(s, u) /\ u.version = s.version /\ u.other = s.other
      /\ DOMAIN u.ops = DOMAIN s.ops \cup {id} /\ u.ops[id] = "pending"
  BY <1>2, <1>3, BeginFacts
<1> QED
  BY <1>1, <1>2, <1>4 DEF Opens

LEMMA StateRecords ==
  ASSUME LineageInv, NEW p \in Procs, pc[p] \in AllSteps \ {"reread", "inspect"},
         job[p].cmd = "rollback" \/ pc[p] \notin BeforeSnapshot
  PROVE  /\ Amends(p, ActivateUpdateState(p), job[p].target, "active")
         /\ job[p].cmd = "rollback" =>
              Amends(p, ActivateRollbackState(p), job[p].prior.version, "active")
         /\ Amends(p, CompleteState(p), job[p].persisted.version, "completed")
         /\ Amends(p, FailUpdateState(p), job[p].base.version, "failed")
         /\ Amends(p, FailRollbackState(p), job[p].base.version, "failed")
<1>1. PICK s, b, r, id : /\ s = job[p].persisted /\ b = job[p].base
                         /\ r = job[p].prior /\ id = OpId(p)
  OBVIOUS
<1>2. /\ s \in Records /\ b \in Records /\ s.other = b.other /\ s.version \in Versions
      /\ b.version \in Versions /\ job[p].target \in Versions
      /\ job[p].cmd = "rollback" =>
           r \in Records /\ r.version \in Versions /\ r.other = b.other
  BY <1>1, SavePoint, RecordFacts
<1>3. ASSUME NEW t \in Records, t.other = b.other, NEW v \in Versions,
             NEW st \in Statuses
      PROVE  Amends(p, Amending(t, s, v, id, st), v, st)
  <2>1. PICK u : u = Amending(t, s, v, id, st)
    OBVIOUS
  <2>2. /\ Successor(s, u) /\ u.version = v /\ u.other = t.other
        /\ DOMAIN u.ops = DOMAIN s.ops
        /\ \A o \in DOMAIN s.ops : u.ops[o] = IF o = id THEN st ELSE s.ops[o]
    BY <1>2, <1>3, <2>1, LaterFacts
  <2>3. Amends(p, u, v, st)
    BY <1>1, <1>3, <2>2 DEF Amends
  <2> QED
    BY <2>1, <2>3
<1>4. Amends(p, ActivateUpdateState(p), job[p].target, "active")
  <2>1. ActivateUpdateState(p) = Amending(s, s, job[p].target, id, "active")
    BY <1>1, <1>2 DEF ActivateUpdateState, Amending, Records
  <2> QED
    BY <1>1, <1>2, <1>3, <2>1, StatusFacts
<1>5. ASSUME job[p].cmd = "rollback"
      PROVE  Amends(p, ActivateRollbackState(p), job[p].prior.version, "active")
  <2>1. ActivateRollbackState(p) = Amending(r, s, r.version, id, "active")
    BY <1>1, <1>2, <1>5 DEF ActivateRollbackState, Amending, Records
  <2> QED
    BY <1>1, <1>2, <1>3, <2>1, StatusFacts, <1>5
<1>6. Amends(p, CompleteState(p), s.version, "completed")
  <2>1. CompleteState(p) = Amending(s, s, s.version, id, "completed")
    BY <1>1, <1>2 DEF CompleteState, Amending, Records
  <2> QED
    BY <1>1, <1>2, <1>3, <2>1, StatusFacts
<1>7. Amends(p, FailUpdateState(p), b.version, "failed")
  <2>1. FailUpdateState(p) = Amending(s, s, b.version, id, "failed")
    BY <1>1, <1>2 DEF FailUpdateState, Amending, Records
  <2> QED
    BY <1>1, <1>2, <1>3, <2>1, StatusFacts
<1>8. Amends(p, FailRollbackState(p), b.version, "failed")
  <2>1. FailRollbackState(p) = Amending(b, s, b.version, id, "failed")
    BY <1>1, <1>2 DEF FailRollbackState, Amending, Records
  <2> QED
    BY <1>1, <1>2, <1>3, <2>1, StatusFacts
<1> QED
  BY <1>1, <1>4, <1>5, <1>6, <1>7, <1>8

LEMMA BeginLineage ==
  ASSUME LineageInv, NEW p \in Procs, BeginUpdate(p)
  PROVE  LineageInv' /\ state'.other >= state.other
<1>1. pc[p] = "begin" /\ UNCHANGED <<disk, dirs, mgmt>>
  BY DEF BeginUpdate, snapshots
<1>2. PICK u, err : /\ u = BeginState(p)
                    /\ err = IF job[p].cmd = "update" THEN "abort_begin" ELSE "resume_only"
  OBVIOUS
<1>3. SaveState(p, u, "activate", err)
  BY <1>2 DEF BeginUpdate
<1>4. Opens(p, u)
  BY <1>1, <1>2, BeginOpens DEF AllSteps, BeforeSnapshot
<1>5. Successor(job[p].persisted, u) /\ u.other = job[p].base.other
  BY <1>4 DEF Opens
<1>6. /\ err \in AllSteps \ {"reread", "inspect"} /\ err # "consume"
      /\ err \in UpdateSteps => job[p].cmd = "update"
      /\ "activate" \in AllSteps \ {"reread", "inspect"}
      /\ "activate" \notin UpdateSteps /\ pc[p] \notin BeforeSnapshot
      /\ pc[p] \in AllSteps \ {"reread", "inspect"}
  BY <1>1, <1>2 DEF AllSteps, UpdateSteps, BeforeSnapshot
<1> QED
  BY <1>1, <1>3, <1>5, <1>6, SaveLineage

LEMMA ActivateLineage ==
  ASSUME LineageInv, NEW p \in Procs, Activate(p)
  PROVE  LineageInv' /\ state'.other >= state.other
<1>1. pc[p] = "active" /\ UNCHANGED <<disk, dirs, mgmt>>
  BY DEF Activate, snapshots
<1>2. PICK u : u = IF job[p].cmd = "update" THEN ActivateUpdateState(p)
                                            ELSE ActivateRollbackState(p)
  OBVIOUS
<1>3. SaveState(p, u, "resume", "rb_quiesce")
  BY <1>2 DEF Activate
<1>4. /\ {"resume", "rb_quiesce"} \subseteq AllSteps \ {"reread", "inspect"}
      /\ {"resume", "rb_quiesce"} \cap UpdateSteps = {}
      /\ pc[p] \notin BeforeSnapshot /\ pc[p] \in AllSteps \ {"reread", "inspect"}
  BY <1>1 DEF AllSteps, UpdateSteps, BeforeSnapshot
<1>5. Successor(job[p].persisted, u) /\ u.other = job[p].base.other
  <2>1. job[p].cmd \in {"update", "rollback"}
    BY <1>4, SavePoint
  <2> QED
    BY <1>2, <1>4, <2>1, StateRecords DEF Amends
<1> QED
  BY <1>1, <1>3, <1>4, <1>5, SaveLineage

LEMMA CompleteLineage ==
  ASSUME LineageInv, NEW p \in Procs, Complete(p)
  PROVE  LineageInv' /\ state'.other >= state.other
<1>1. pc[p] = "complete" /\ UNCHANGED <<disk, dirs, mgmt>>
  BY DEF Complete, snapshots
<1>2. PICK u, ok : /\ u = CompleteState(p)
                   /\ ok = IF job[p].cmd = "update" THEN "finalize" ELSE "consume"
  OBVIOUS
<1>3. SaveState(p, u, ok, "rb_quiesce")
  BY <1>2 DEF Complete
<1>4. /\ "rb_quiesce" \in AllSteps \ {"reread", "inspect"}
      /\ "rb_quiesce" \notin UpdateSteps /\ ok \in AllSteps \ {"reread", "inspect"}
      /\ pc[p] \notin BeforeSnapshot /\ pc[p] \in AllSteps \ {"reread", "inspect"}
  BY <1>1, <1>2 DEF AllSteps, UpdateSteps, BeforeSnapshot
<1>5. /\ ok \in UpdateSteps => job[p].cmd = "update"
      /\ ok = "consume" => job[p].cmd = "rollback"
  <2>1. job[p].cmd \in {"update", "rollback"}
    BY <1>4, SavePoint
  <2> QED
    BY <1>2, <2>1 DEF UpdateSteps
<1>6. Successor(job[p].persisted, u) /\ u.other = job[p].base.other
  BY <1>2, <1>4, StateRecords DEF Amends
<1> QED
  BY <1>1, <1>3, <1>4, <1>5, <1>6, SaveLineage

LEMMA FailureLineage ==
  ASSUME LineageInv, NEW p \in Procs, RecordFailure(p)
  PROVE  LineageInv' /\ state'.other >= state.other
<1>1. pc[p] = "rb_state" /\ UNCHANGED <<disk, dirs, mgmt>>
  BY DEF RecordFailure, snapshots
<1>2. PICK u : u = IF job[p].cmd = "update" THEN FailUpdateState(p)
                                            ELSE FailRollbackState(p)
  OBVIOUS
<1>3. /\ "rb_resume" \in AllSteps \ {"reread", "inspect"}
      /\ "rb_resume" \notin UpdateSteps
      /\ pc[p] \notin BeforeSnapshot /\ pc[p] \in AllSteps \ {"reread", "inspect"}
  BY <1>1 DEF AllSteps, UpdateSteps, BeforeSnapshot
<1>4. Successor(job[p].persisted, u) /\ u.other = job[p].base.other
  BY <1>2, <1>3, StateRecords DEF Amends
<1>5. CASE SaveState(p, u, "rb_resume", "rb_resume")
  BY <1>1, <1>3, <1>4, <1>5, SaveLineage
<1>6. CASE Go(p, "rb_resume") /\ UNCHANGED <<state, job, faults>>
  <2>1. HostTypes' /\ state.other \in Nat
    BY <1>1, <1>3, <1>6, UpdateStepFacts, RunningFacts, RecordFacts, SameHost, UpdateAssumptions
  <2>2. LineageInv'
    BY <1>1, <1>3, <1>6, <2>1, QuietGo
  <2> QED
    BY <1>6, <2>1, <2>2
<1> QED
  BY <1>2, <1>5, <1>6 DEF RecordFailure

(* The answer to a save whose outcome was unknown.                         *)
LEMMA RereadLineage ==
  ASSUME LineageInv, NEW p \in Procs, Reread(p)
  PROVE  LineageInv'
<1>1. pc[p] = "reread" /\ UNCHANGED <<disk, state, dirs, mgmt, faults>>
  BY DEF Reread, snapshots
<1>2. /\ UpdateTypes /\ HostTypes /\ state \in Records
      /\ job \in [Procs -> UpdateJobs \cup {NoJob}]
  BY DEF LineageInv, UpdateTypes, HostTypes
<1>3. PICK j, t : j = job[p] /\ t = j.then
  OBVIOUS
<1>4. /\ j \in UpdateJobs /\ t \in Rereads
      /\ Descends(p, AsWritten(j), t.ok) /\ Descends(p, Refuted(j), t.err)
  BY <1>1, <1>3 DEF LineageInv, Running, Lineage
<1>5. ShelfKept(p) /\ \A id : SameShelf(id)
  BY <1>1, ShelfStays
<1>6. Advance
  BY <1>1 DEF Advance
<1>7. HostTypes'
  BY <1>1, <1>2, SameHost
<1>8. ASSUME NEW k, NEW y, Descends(p, k, y), Go(p, y), job' = [job EXCEPT ![p] = k]
      PROVE  LineageInv'
  <2>1. k \in UpdateJobs /\ y \in AllSteps \ {"reread"}
    BY <1>8 DEF Descends
  <2>2. Proceeds(p, k, y)
    BY <1>2, <1>8, <2>1, Proceeded
  <2>3. Descends(p, k, y)'
    BY <1>2, <1>5, <1>6, <1>8, DescendsKept
  <2> QED
    BY <1>1, <1>2, <1>5, <1>6, <1>7, <2>1, <2>2, <2>3, MoveLineage
<1>9. CASE state = t.wrote
  <2>1. PICK k, y : k = AsWritten(j) /\ y = t.ok
    OBVIOUS
  <2>2. job' = [job EXCEPT ![p] = k] /\ Go(p, y)
    <3>1. k = [j EXCEPT !.then = Null, !.persisted = t.wrote]
      BY <1>3, <1>4, <2>1 DEF AsWritten, UpdateJobs
    <3> QED
      BY <1>2, <1>3, <1>9, <2>1, <3>1 DEF Reread
  <2> QED
    BY <1>4, <1>8, <2>1, <2>2
<1>10. CASE state # t.wrote
  <2>1. PICK k, y : k = Refuted(j) /\ y = t.err
    OBVIOUS
  <2>2. job' = [job EXCEPT ![p] = k] /\ Go(p, y)
    BY <1>2, <1>3, <1>10, <2>1 DEF Reread, Refuted
  <2> QED
    BY <1>4, <1>8, <2>1, <2>2
<1> QED
  BY <1>9, <1>10

(* The environment.                                                        *)
LEMMA OtherWriteLineage ==
  ASSUME LineageInv, NEW w \in Writers, OtherWrite(w)
  PROVE  LineageInv' /\ state'.other >= state.other
<1>1. UNCHANGED <<disk, dirs, mgmt, pc, job, faults>> /\ state.other < MaxOther
  BY DEF OtherWrite, snapshots
<1>2. state \in Records /\ UpdateTypes
  BY DEF LineageInv, UpdateTypes
<1>3. state.other \in 0..MaxOther /\ state.gen \in Nat \ {0}
  BY <1>2, RecordFacts
<1>4. /\ state' \in Records /\ state'.gen = state.gen + 1
      /\ state'.other = state.other + 1
  <2>1. PICK g, n : g = state.gen + 1 /\ n = state.other + 1
    OBVIOUS
  <2>2. state' = [state EXCEPT !.gen = g, !.other = n]
    BY <2>1 DEF OtherWrite, NextGeneration
  <2>3. MaxOther \in Nat
    BY UpdateAssumptions
  <2>4. g \in Nat \ {0} /\ n \in 0..MaxOther
    BY <1>1, <1>3, <2>1, <2>3
  <2> QED
    BY <1>2, <2>1, <2>2, <2>4 DEF Records
<1>5. Advance
  BY <1>4 DEF Advance, Successor
<1>6. UpdateTypes'
  BY <1>1, <1>2, <1>4 DEF UpdateTypes, disk
<1>7. ASSUME NEW p \in Procs
      PROVE  (IF Running(p) THEN Lineage(p) ELSE job[p] = NoJob)'
  <2>1. IF Running(p) THEN Lineage(p) ELSE job[p] = NoJob
    BY DEF LineageInv
  <2>2. \A g \in Nat : SameShelf(<<p, g>>)
    BY <1>1 DEF SameShelf
  <2>3. Running(p) => Lineage(p)'
    BY <1>1, <1>2, <1>5, <2>1, <2>2, LineageKept
  <2> QED
    BY <1>1, <2>1, <2>3 DEF Running
<1>8. LineageInv'
  BY <1>1, <1>6, <1>7 DEF LineageInv
<1> QED
  BY <1>3, <1>4, <1>8, UpdateAssumptions

LEMMA KillLineage ==
  ASSUME LineageInv, NEW p \in Procs, KillUpdate(p)
  PROVE  LineageInv'
<1>1. UNCHANGED <<disk, state, dirs, mgmt, faults>> /\ Return(p)
  BY DEF KillUpdate, snapshots
<1>2. HostTypes
  BY DEF LineageInv, UpdateTypes, HostTypes
<1>3. HostTypes' /\ ShelfKept(p)
  BY <1>1, <1>2, SameHost, ShelfStays
<1> QED
  BY <1>1, <1>3, ReturnStep

LEMMA RebootLineage ==
  ASSUME LineageInv, RebootHost
  PROVE  LineageInv'
<1>1. /\ UNCHANGED <<disk, state, dirs, faults>> /\ mgmt' = TRUE
      /\ pc' = [p \in Procs |-> "idle"] /\ job' = [p \in Procs |-> NoJob]
  BY DEF RebootHost, snapshots, StartController
<1>2. UpdateTypes
  BY DEF LineageInv
<1>3. UpdateTypes'
  <2>1. mgmt' \in BOOLEAN
    BY <1>1
  <2>2. pc' \in [Procs -> AllSteps \cup {"idle"}]
        /\ job' \in [Procs -> UpdateJobs \cup {NoJob}]
    BY <1>1
  <2> QED
    BY <1>1, <1>2, <2>1, <2>2 DEF UpdateTypes, disk
<1> QED
  BY <1>1, <1>3 DEF LineageInv, Running

LEMMA OldestRelease == Oldest \in Versions
<1>1. \E v \in Versions : \A w \in Versions : v <= w
  BY UpdateAssumptions, SmallestOf
<1> QED
  BY <1>1 DEF Oldest

LEMMA NothingKept == /\ <<>> \in Ledgers /\ <<>> \in Shelves
                     /\ DOMAIN <<>> = {}
<1>1. DOMAIN <<>> = {} /\ <<>> \in [{} -> Statuses] /\ <<>> \in [{} -> Keepsakes]
  OBVIOUS
<1> QED
  BY <1>1 DEF Ledgers, Shelves

LEMMA LineageInit == Init => LineageInv
<1> SUFFICES ASSUME Init PROVE LineageInv
  OBVIOUS
<1>1. state \in Records
  BY OldestRelease, NothingKept, UpdateAssumptions DEF Init, Records
<1>2. /\ file \in [ComponentNames -> UNION {Shipped(c) : c \in ComponentNames}]
      /\ \A c \in ComponentNames : file[c] \in Shipped(c)
  BY OldestRelease DEF Init, Shipped
<1>3. mgmt \in BOOLEAN
  BY DEF Init
<1>4. pc \in [Procs -> AllSteps \cup {"idle"}] /\ job \in [Procs -> UpdateJobs \cup {NoJob}]
  BY DEF Init
<1>5. UpdateTypes
  BY <1>1, <1>2, <1>3, <1>4, OldestRelease, NothingKept DEF Init, UpdateTypes
<1> QED
  BY <1>5, NothingKept DEF Init, LineageInv, Running

LEMMA LineageUpdateStep ==
  ASSUME LineageInv, NEW p \in Procs, UpdateStep(p)
  PROVE  LineageInv' /\ state'.other >= state.other
<1>0. state.other \in Nat
  BY RecordFacts, UpdateAssumptions DEF LineageInv, UpdateTypes
<1>1. CASE PlanUpdate(p) \/ PlanUpdateRollback(p) \/ CheckState(p)
           \/ ValidateInstalled(p)
  <2>1. LineageInv'
    BY <1>1, PlanUpdateLineage, PlanRollbackLineage, CheckStateLineage, ValidateLineage
  <2>2. UNCHANGED state
    BY <1>1 DEF PlanUpdate, PlanUpdateRollback, CheckState, ValidateInstalled
  <2> QED
    BY <1>0, <2>1, <2>2
<1>2. CASE QuiesceManagement(p) \/ ResumeOnly(p) \/ PrepareSnapshot(p)
  BY <1>0, <1>2, QuiesceLineage, ResumeOnlyLineage, PrepareLineage
  DEF QuiesceManagement, ResumeOnly, PrepareSnapshot
<1>3. CASE BeginUpdate(p) \/ Activate(p) \/ Complete(p) \/ RecordFailure(p)
  BY <1>3, BeginLineage, ActivateLineage, CompleteLineage, FailureLineage
<1>4. CASE ActivateComponent(p) \/ ActivatedAll(p) \/ PublishBundle(p)
           \/ PublishChecksums(p) \/ ResumeManagement(p)
  <2>1. LineageInv'
    BY <1>4, ActivateComponentLineage, ActivatedAllLineage, PublishBundleLineage,
       PublishChecksumsLineage, ResumeLineage
  <2>2. UNCHANGED state
    BY <1>4 DEF ActivateComponent, ActivatedAll, PublishBundle, PublishChecksums,
                ResumeManagement
  <2> QED
    BY <1>0, <2>1, <2>2
<1>5. CASE Finalize(p) \/ Promote(p) \/ ConsumePrevious(p) \/ AbortBegin(p)
           \/ UndoSnapshot(p)
  <2>1. LineageInv'
    BY <1>5, FinalizeLineage, PromoteLineage, ConsumeLineage, AbortLineage
    DEF AbortBegin, UndoSnapshot
  <2>2. UNCHANGED state
    BY <1>5 DEF Finalize, Promote, ConsumePrevious, AbortBegin, UndoSnapshot, Abort
  <2> QED
    BY <1>0, <2>1, <2>2
<1>6. CASE UndoQuiesce(p) \/ RollbackMetadata(p) \/ RollbackComponent(p)
           \/ RolledBackAll(p) \/ UndoResume(p) \/ Reread(p)
  <2>1. LineageInv'
    BY <1>6, UndoQuiesceLineage, RollbackMetadataLineage, RollbackComponentLineage,
       RolledBackAllLineage, UndoResumeLineage, RereadLineage
  <2>2. UNCHANGED state
    BY <1>6 DEF UndoQuiesce, RollbackMetadata, RollbackComponent, RolledBackAll,
                UndoResume, Reread
  <2> QED
    BY <1>0, <2>1, <2>2
<1> QED
  BY <1>1, <1>2, <1>3, <1>4, <1>5, <1>6 DEF UpdateStep

LEMMA LineageNext ==
  ASSUME LineageInv, [Next]_vars
  PROVE  LineageInv' /\ state'.other >= state.other
<1>0. state.other \in Nat
  BY RecordFacts, UpdateAssumptions DEF LineageInv, UpdateTypes
<1>1. ASSUME NEW p \in Procs, NEW c \in Commands, NEW v \in Versions, Start(p, c, v)
      PROVE  LineageInv' /\ state'.other >= state.other
  <2>1. LineageInv'
    BY <1>1, StartLineage
  <2>2. UNCHANGED state
    BY <1>1 DEF Start
  <2> QED
    BY <1>0, <2>1, <2>2
<1>2. ASSUME NEW p \in Procs, UpdateStep(p)
      PROVE  LineageInv' /\ state'.other >= state.other
  BY <1>2, LineageUpdateStep
<1>3. ASSUME NEW w \in Writers, OtherWrite(w)
      PROVE  LineageInv' /\ state'.other >= state.other
  BY <1>3, OtherWriteLineage
<1>4. ASSUME NEW p \in Procs, KillUpdate(p)
      PROVE  LineageInv' /\ state'.other >= state.other
  BY <1>0, <1>4, KillLineage DEF KillUpdate
<1>5. CASE RebootHost
  BY <1>0, <1>5, RebootLineage DEF RebootHost
<1>6. CASE UNCHANGED vars
  <2>1. UNCHANGED <<file, bundle, sums, state, dirs, mgmt, pc, job, faults>>
    BY <1>6 DEF vars
  <2>2. UpdateTypes'
    BY <2>1 DEF UpdateTypes, LineageInv
  <2>3. ASSUME NEW p \in Procs
        PROVE  (IF Running(p) THEN Lineage(p) ELSE job[p] = NoJob)'
    <3>1. IF Running(p) THEN Lineage(p) ELSE job[p] = NoJob
      BY DEF LineageInv
    <3>2. Advance /\ state \in Records /\ \A g \in Nat : SameShelf(<<p, g>>)
      BY <2>1 DEF Advance, SameShelf, LineageInv, UpdateTypes
    <3>3. Running(p) => Lineage(p)'
      BY <2>1, <3>1, <3>2, LineageKept
    <3> QED
      BY <2>1, <3>1, <3>3 DEF Running
  <2> QED
    BY <1>0, <2>1, <2>2, <2>3 DEF LineageInv
<1> QED
  BY <1>1, <1>2, <1>3, <1>4, <1>5, <1>6 DEF Next

(* What another command has stored is never undone by an update or a       *)
(* rollback, whatever runs beside it and whatever fails: a rollback that   *)
(* stores the kept state has compared the stored one with the one the      *)
(* update had left, and every save compares generations                    *)
(* (update_rollback.go, PlanRollback; update.go, saveState).               *)
THEOREM WritesAreKept == Spec => NoWriteLost
<1>1. Init => LineageInv
  BY LineageInit
<1>2. LineageInv /\ [Next]_vars => LineageInv'
  BY LineageNext
<1>3. LineageInv /\ [Next]_vars => [state'.other >= state.other]_vars
  BY LineageNext
<1> QED
  BY <1>1, <1>2, <1>3, PTL DEF Spec, NoWriteLost
=============================================================================
