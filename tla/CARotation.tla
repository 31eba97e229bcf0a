----------------------------- MODULE CARotation -----------------------------
(***************************************************************************)
(* Replacing the gateway's control CA while nodes stay manageable, and     *)
(* renewing the gateway's control leaf (internal/controller/ca_rotation.go *)
(* and renewal.go), with the TLS state of the control listener             *)
(* (internal/control/rpc_server.go), the authorizer that reads the state   *)
(* on every request (control/state_authorizer.go) and the start of the     *)
(* controller (controller/system_rpc.go).                                  *)
(*                                                                         *)
(* An operation of the controller runs under mutationMu: it loads the      *)
(* state, puts secrets, saves one new state, swaps the listener's TLS      *)
(* state, and deletes secrets.  These are separate steps here, because the *)
(* controller can be killed between any two of them and because other      *)
(* commands write the state without the mutex.  The save refuses a state   *)
(* whose generation is no longer the one loaded.                           *)
(*                                                                         *)
(* CA 0 is the one of gateway init; rotation k creates CA k.  A            *)
(* certificate record is [kind, owner, ca, scope, serial]: "ca" is the CA  *)
(* that issued it, "scope" the rotation whose ID prefixes its secret       *)
(* reference (0: none), "serial" tells renewed leaves apart and is the     *)
(* credential generation of a node's certificate.                          *)
(***************************************************************************)
EXTENDS Integers, Sequences, FiniteSets

CONSTANTS
  Nodes,       \* nodes that are or may become members
  Members,     \* the nodes that are active at first
  Host,        \* the owner of the gateway's own certificates
  Writes,      \* what else is written: pairs of "join", "replace", "revoke"
               \* or "delete" and a node
  Faults,      \* the faults that may happen, as pairs of an operation and a kind
  MaxRotations, MaxRenewals, MaxCredential, MaxFaults,  \* bounds
  Null

ASSUME RotationAssumption ==
  /\ Members \subseteq Nodes /\ Host \notin Nodes
  /\ {MaxRotations, MaxRenewals, MaxCredential, MaxFaults} \subseteq Nat
  /\ MaxCredential > 0
  /\ Writes \subseteq {"join", "replace", "revoke", "delete"} \X Nodes

VARIABLES
  state,     \* the authoritative gateway state
  secrets,   \* the references the secret store holds
  listener,  \* the TLS state of the control listener; Null: not running
  job,       \* the operation that holds mutationMu; Null: none
  writer,    \* a command that has loaded the state and will save it; or Null
  holds,     \* the CAs a node trusts and the certificates it has keys for
  inbox,     \* the trust update a node has received and not yet installed
  acks,      \* the acknowledgements nodes have sent
  minted,    \* how many rotation IDs were allocated
  renewed,   \* how many leaves were issued by renewal
  faults     \* how many of the bounded faults have happened

vars == <<state, secrets, listener, job, writer, holds, inbox, acks, minted,
          renewed, faults>>
nodeVars == <<holds, inbox, acks>>

CAs == 0..MaxRotations

Certificates ==
  [kind : {"ca", "server", "node"}, owner : Nodes \cup {Host}, ca : CAs,
   scope : CAs, serial : 0..(MaxRenewals + MaxCredential)]

HostCertificate(kind, ca, scope, serial) ==
  [kind |-> kind, owner |-> Host, ca |-> ca, scope |-> scope, serial |-> serial]

NodeCertificate(n, ca, scope, credential) ==
  [kind |-> "node", owner |-> n, ca |-> ca, scope |-> scope, serial |-> credential]

\* The references of a record's PEM and of its private key.
CertRef(c) == <<"cert", c>>
KeyRef(c) == <<"key", c>>
Refs(c) == IF c.kind = "node" THEN {CertRef(c)} ELSE {CertRef(c), KeyRef(c)}

Sole(S) == CHOOSE x \in S : TRUE
OfKind(s, kind) == {c \in s.certs : c.kind = kind}

-----------------------------------------------------------------------------
(* What the code looks up in a loaded state.                               *)

ActiveRotations(s) == {o \in s.ops : o.status = "pending"}
Rotating(s) == Cardinality(ActiveRotations(s)) = 1
Rotation(s) == Sole(ActiveRotations(s))

\* soleControlCAAndServer
SoleCAAndServer(s) ==
  Cardinality(OfKind(s, "ca")) = 1 /\ Cardinality(OfKind(s, "server")) = 1

\* rotationCertificateIsStaged, with the operation's ID as the prefix.
Staged(c, k) == c.scope = k

Old(s, kind) == {c \in OfKind(s, kind) : ~Staged(c, Rotation(s).id)}
New(s, kind) == {c \in OfKind(s, kind) : Staged(c, Rotation(s).id)}

\* rotationCertificateGenerations finds each of the four exactly once.
GenerationsComplete(s) ==
  \A kind \in {"ca", "server"} :
    Cardinality(Old(s, kind)) = 1 /\ Cardinality(New(s, kind)) = 1

StagedNodeCertificates(s, n) == {c \in New(s, "node") : c.owner = n}

\* The CA and the leaf in force: of the old generation during a rotation.
CurrentCA(s) == Sole(IF Rotating(s) THEN Old(s, "ca") ELSE OfKind(s, "ca"))
CurrentServer(s) ==
  Sole(IF Rotating(s) THEN Old(s, "server") ELSE OfKind(s, "server"))

ActiveNodes(s) == {n \in Nodes : s.life[n] = "active"}

\* A mutant of RotationReady: a node counts once its certificate is issued.
RotationReadyIssued(s) ==
  \A n \in ActiveNodes(s) : StagedNodeCertificates(s, n) # {}

\* validateRotationReady
RotationReady(s) ==
  \A n \in ActiveNodes(s) :
    /\ Rotation(s).steps[n] = "completed"
    /\ StagedNodeCertificates(s, n) # {}

\* AuthorizeRPC: the record of exactly this certificate, for the node's
\* current credential generation.
Authorized(s, n, c) ==
  /\ s.life[n] = "active"
  /\ c \in s.certs /\ c.kind = "node" /\ c.owner = n
  /\ c.serial = s.cred[n]

\* A complete TLS state, and what PrepareGatewayControlTLS demands of it.
TLS(leaf, cas) == [leaf |-> leaf, cas |-> cas]
ValidTLS(tls) == tls.leaf.ca \in tls.cas

\* What a started controller serves: RestoreRuntime accepts both CAs.
RuntimeOf(s) ==
  TLS(CurrentServer(s),
      {CurrentCA(s).ca} \cup {c.ca : c \in IF Rotating(s) THEN New(s, "ca") ELSE {}})

\* The secrets a start reads.
StartMaterial(s) ==
  {CertRef(CurrentCA(s)), CertRef(CurrentServer(s)), KeyRef(CurrentServer(s))}
    \cup {CertRef(c) : c \in IF Rotating(s) THEN New(s, "ca") ELSE {}}

\* systemControlIdentity and RestoreRuntime find what they need.
CanStart(s) ==
  /\ Cardinality(ActiveRotations(s)) <= 1
  /\ IF Rotating(s) THEN GenerationsComplete(s) ELSE SoleCAAndServer(s)
  /\ StartMaterial(s) \subseteq secrets

-----------------------------------------------------------------------------
InitialCerts ==
  {HostCertificate("ca", 0, 0, 0), HostCertificate("server", 0, 0, 0)}
    \cup {NodeCertificate(n, 0, 0, 1) : n \in Members}

Init ==
  /\ state = [gen |-> 1, ops |-> {}, certs |-> InitialCerts,
              life |-> [n \in Nodes |-> IF n \in Members THEN "active" ELSE "absent"],
              cred |-> [n \in Nodes |-> IF n \in Members THEN 1 ELSE 0]]
  /\ secrets = UNION {Refs(c) : c \in InitialCerts}
  /\ listener = TLS(HostCertificate("server", 0, 0, 0), {0})
  /\ job = Null /\ writer = Null
  /\ holds = [n \in Nodes |->
                IF n \in Members
                THEN [trust |-> {0}, ids |-> {NodeCertificate(n, 0, 0, 1)}]
                ELSE [trust |-> {}, ids |-> {}]]
  /\ inbox = [n \in Nodes |-> Null]
  /\ acks = {} /\ minted = 0 /\ renewed = 0 /\ faults = 0

-----------------------------------------------------------------------------
(* One operation under mutationMu.  "todo" are the secrets still to be     *)
(* put, "put" those it has put, "next" the state to save, "tls" the        *)
(* prepared TLS state (Null: none), "drop" the secrets to delete at last.  *)

Idle == listener # Null /\ job = Null

NewJob(kind, n, todo, next, tls, drop) ==
  [kind |-> kind, node |-> n, base |-> state.gen, todo |-> todo, put |-> {},
   next |-> next, tls |-> tls, drop |-> drop, pc |-> "put"]

\* The next generation of a state, with these operations and certificates.
Candidate(s, ops, certs) ==
  [s EXCEPT !.gen = @ + 1, !.ops = ops, !.certs = certs]

At(pc) == job # Null /\ job.pc = pc
Goto(pc) == job' = [job EXCEPT !.pc = pc]

(***************************************************************************)
(* "io": a file operation fails without effect.  "sync": the save reports  *)
(* an error after its write landed.  "delete": a secret is not deleted.    *)
(* "lost": the answer does not reach the node.                             *)
(***************************************************************************)
Fault(operation, kind) ==
  /\ <<operation, kind>> \in Faults /\ faults < MaxFaults
  /\ faults' = faults + 1

\* A save that reports an error after its write, in the operations that then
\* delete secrets the stored state names, or leave the listener as it was.
LateErrors == {"stage", "finish", "renew"} \X {"sync"}

\* PutIfAbsent of the next secret.  It refuses a reference that exists.
PutSecret ==
  /\ At("put") /\ job.todo # <<>>
  /\ \/ /\ Head(job.todo) \notin secrets
        /\ secrets' = secrets \cup {Head(job.todo)}
        /\ job' = [job EXCEPT !.todo = Tail(@), !.put = @ \cup {Head(job.todo)}]
        /\ UNCHANGED faults
     \/ /\ Head(job.todo) \in secrets
        /\ Goto("cleanup")
        /\ UNCHANGED <<secrets, faults>>
     \/ Fault(job.kind, "io") /\ Goto("cleanup") /\ UNCHANGED secrets
  /\ UNCHANGED <<state, listener, writer, nodeVars, minted, renewed>>

AfterSave == CASE job.kind = "update" -> "answer"
               [] job.tls # Null -> "activate"
               [] OTHER -> "return"

\* A mutant of Save: the secrets of removed records go before the save.
SaveAfterDelete ==
  /\ At("put") /\ job.todo = <<>>
  /\ secrets' = secrets \ job.drop
  /\ \/ /\ state.gen = job.base
        /\ state' = job.next
        /\ Goto(AfterSave)
        /\ UNCHANGED faults
     \/ state.gen # job.base /\ Goto("cleanup") /\ UNCHANGED <<state, faults>>
     \/ Fault(job.kind, "io") /\ Goto("cleanup") /\ UNCHANGED state
  /\ UNCHANGED <<listener, writer, nodeVars, minted, renewed>>

\* StateStore.Save, with the TLS state prepared: refused when the generation
\* has moved.
Save ==
  /\ At("put") /\ job.todo = <<>>
  /\ \/ /\ state.gen = job.base
        /\ state' = job.next
        /\ Goto(AfterSave)
        /\ UNCHANGED faults
     \/ state.gen # job.base /\ Goto("cleanup") /\ UNCHANGED <<state, faults>>
     \/ Fault(job.kind, "io") /\ Goto("cleanup") /\ UNCHANGED state
     \/ /\ Fault(job.kind, "sync") /\ state.gen = job.base
        /\ state' = job.next
        /\ Goto("cleanup")
  /\ UNCHANGED <<secrets, listener, writer, nodeVars, minted, renewed>>

\* deleteSecrets goes on after a failure: one reference stays.
DeleteSecrets(references) ==
  \/ secrets' = secrets \ references /\ UNCHANGED faults
  \/ /\ Fault(job.kind, "delete")
     /\ \E kept \in references \cap secrets :
          secrets' = (secrets \ references) \cup {kept}

\* An operation that fails deletes the secrets it put.
Cleanup ==
  /\ At("cleanup")
  /\ DeleteSecrets(job.put)
  /\ job' = Null
  /\ UNCHANGED <<state, listener, writer, nodeVars, minted, renewed>>

\* One pointer swap: the leaf and the accepted CAs change together.
Activate ==
  /\ At("activate")
  /\ listener' = job.tls
  /\ Goto("return")
  /\ UNCHANGED <<state, secrets, writer, nodeVars, minted, renewed, faults>>

\* The secrets of the removed records go last.
Return ==
  /\ At("return")
  /\ DeleteSecrets(job.drop)
  /\ job' = Null
  /\ UNCHANGED <<state, listener, writer, nodeVars, minted, renewed>>

\* nodeTrustUpdate: the node's new leaf, and both CAs to trust.
TrustUpdate(s, n) ==
  [cert |-> Sole(StagedNodeCertificates(s, n)),
   bundle |-> {c.ca : c \in OfKind(s, "ca")}]

\* A node waits for one answer at a time; what it does not get is lost.
Deliver(n, update) ==
  \/ inbox' = [inbox EXCEPT ![n] = update] /\ UNCHANGED faults
  \/ Fault("update", "lost") /\ UNCHANGED inbox

Answer ==
  /\ At("answer")
  /\ Deliver(job.node, TrustUpdate(job.next, job.node))
  /\ job' = Null
  /\ UNCHANGED <<state, secrets, listener, writer, holds, acks, minted, renewed>>

-----------------------------------------------------------------------------
(* The operations.                                                         *)

Stage ==
  LET k == minted + 1
      ca == HostCertificate("ca", k, k, 0)
      server == HostCertificate("server", k, k, 0)
      steps == [n \in Nodes |-> IF n \in ActiveNodes(state) THEN "pending" ELSE "none"]
  IN /\ Idle /\ minted < MaxRotations
     /\ ActiveRotations(state) = {}
     /\ SoleCAAndServer(state)
     /\ StartMaterial(state) \subseteq secrets
     /\ job' = NewJob("stage", Null,
                <<CertRef(ca), KeyRef(ca), CertRef(server), KeyRef(server)>>,
                Candidate(state,
                  state.ops \cup {[id |-> k, status |-> "pending", steps |-> steps]},
                  state.certs \cup {ca, server}),
                TLS(CurrentServer(state), {CurrentCA(state).ca, k}), {})
     /\ minted' = k
     /\ UNCHANGED <<state, secrets, listener, writer, nodeVars, renewed, faults>>

\* The CA certificates an answer carries, and in the second case the staged
\* CA's key, must be readable.
UpdateMaterial(s) == {CertRef(c) : c \in OfKind(s, "ca")}

\* The node may be updated: it is active and was when the rotation was staged.
InImpact(n) ==
  /\ Rotating(state) /\ GenerationsComplete(state)
  /\ state.life[n] = "active" /\ Rotation(state).steps[n] # "none"

\* Can node n reach the gateway and be authorized, with certificate c?
Connects(n, c) ==
  /\ listener # Null
  /\ listener.leaf.ca \in holds[n].trust
  /\ c \in holds[n].ids /\ c.ca \in listener.cas
  /\ Authorized(state, n, c)

\* A node that does not hold its staged certificate asks for it.
Asks(n) ==
  /\ inbox[n] = Null /\ \E c \in holds[n].ids : Connects(n, c)
  /\ holds[n].ids \cap StagedNodeCertificates(state, n) = {}

\* A mutant of RepeatNodeTrust: a recorded certificate is not sent again.
RepeatNodeTrustRefused(n) == FALSE /\ UNCHANGED vars

\* UpdateNodeTrust when the certificate is recorded: the same one again.
RepeatNodeTrust(n) ==
  /\ Idle /\ InImpact(n) /\ Asks(n)
  /\ StagedNodeCertificates(state, n) # {}
  /\ UpdateMaterial(state) \subseteq secrets
  /\ CertRef(Sole(StagedNodeCertificates(state, n))) \in secrets
  /\ Deliver(n, TrustUpdate(state, n))
  /\ UNCHANGED <<state, secrets, listener, job, writer, holds, acks, minted, renewed>>

\* UpdateNodeTrust when it is not: a leaf is issued under the staged CA.
UpdateNodeTrust(n) ==
  LET k == Rotation(state).id
      leaf == NodeCertificate(n, k, k, state.cred[n])
  IN /\ Idle /\ InImpact(n) /\ Asks(n)
     /\ StagedNodeCertificates(state, n) = {}
     /\ Rotation(state).steps[n] # "completed"
     /\ UpdateMaterial(state) \cup {KeyRef(Sole(New(state, "ca")))} \subseteq secrets
     /\ job' = NewJob("update", n, <<CertRef(leaf)>>,
                      Candidate(state, state.ops, state.certs \cup {leaf}), Null, {})
     /\ UNCHANGED <<state, secrets, listener, writer, nodeVars, minted, renewed, faults>>

\* The node installs the bundle and the new identity in one step, and keeps
\* its old certificate.
Install(n) ==
  /\ inbox[n] # Null
  /\ holds' = [holds EXCEPT ![n] = [trust |-> inbox[n].bundle,
                                    ids |-> @.ids \cup {inbox[n].cert}]]
  /\ inbox' = [inbox EXCEPT ![n] = Null]
  /\ UNCHANGED <<state, secrets, listener, job, writer, acks, minted, renewed, faults>>

\* It then acknowledges over the new certificate.  The request may be served
\* at any later time, and more than once.
SendAcknowledgement(n) ==
  \E c \in holds[n].ids :
    /\ c.scope # 0 /\ Connects(n, c)
    /\ acks' = acks \cup {[node |-> n, cert |-> c]}
    /\ acks' # acks
    /\ UNCHANGED <<state, secrets, listener, job, writer, holds, inbox, minted,
                   renewed, faults>>

AcknowledgeNodeTrust(m) ==
  LET o == Rotation(state)
  IN /\ Idle /\ m \in acks /\ InImpact(m.node)
     /\ m.cert \in StagedNodeCertificates(state, m.node)
     /\ o.steps[m.node] # "completed"
     /\ job' = NewJob("ack", m.node, <<>>,
                Candidate(state,
                  (state.ops \ {o}) \cup {[o EXCEPT !.steps[m.node] = "completed"]},
                  state.certs), Null, {})
     /\ UNCHANGED <<state, secrets, listener, writer, nodeVars, minted, renewed, faults>>

\* The records a commit or a rollback removes.
Removed(s, commit) ==
  {c \in s.certs : commit # Staged(c, Rotation(s).id)}

\* finish, with commit or rollback.
Finish(commit) ==
  LET o == Rotation(state)
      ca == Sole(IF commit THEN New(state, "ca") ELSE Old(state, "ca"))
      server == Sole(IF commit THEN New(state, "server") ELSE Old(state, "server"))
      gone == Removed(state, commit)
  IN /\ Idle /\ Rotating(state) /\ GenerationsComplete(state)
     /\ commit => RotationReady(state)
     /\ {CertRef(ca), CertRef(server), KeyRef(server)} \subseteq secrets
     /\ job' = NewJob("finish", Null, <<>>,
                Candidate(state,
                  (state.ops \ {o}) \cup
                    {[o EXCEPT !.status = IF commit THEN "completed" ELSE "failed"]},
                  state.certs \ gone),
                TLS(server, {ca.ca}), UNION {Refs(c) : c \in gone})
     /\ UNCHANGED <<state, secrets, listener, writer, nodeVars, minted, renewed, faults>>

\* RenewIfNeeded, when the leaf in force has reached its window: a new leaf
\* of the same CA.  The listener keeps the CAs it accepts, and the secrets of
\* the old leaf stay.
RenewIfNeeded ==
  LET leaf == HostCertificate("server", CurrentCA(state).ca, 0, renewed + 1)
  IN /\ Idle /\ renewed < MaxRenewals
     /\ Rotating(state) \/ SoleCAAndServer(state)
     /\ {CertRef(CurrentCA(state)), KeyRef(CurrentCA(state))} \subseteq secrets
     /\ job' = NewJob("renew", Null, <<CertRef(leaf), KeyRef(leaf)>>,
                Candidate(state, state.ops,
                  (state.certs \ {CurrentServer(state)}) \cup {leaf}),
                TLS(leaf, listener.cas), {})
     /\ renewed' = renewed + 1
     /\ UNCHANGED <<state, secrets, listener, writer, nodeVars, minted, faults>>

-----------------------------------------------------------------------------
(* The other commands that write the state.  Each loads it, builds the     *)
(* next state and saves that on the generation it loaded; the state is     *)
(* then still the one it was built from.                                   *)

CertsOf(s, n) == {c \in s.certs : c.owner = n}

\* Join and credential replacement issue from the only control CA
\* (loadJoinAuthority): both are refused while two are recorded.
IssueTo(s, n) ==
  LET leaf == NodeCertificate(n, Sole(OfKind(s, "ca")).ca, 0, s.cred[n] + 1)
  IN [gen |-> s.gen + 1, ops |-> s.ops, life |-> [s.life EXCEPT ![n] = "active"],
      cred |-> [s.cred EXCEPT ![n] = @ + 1],
      certs |-> (s.certs \ CertsOf(s, n)) \cup {leaf}]

Written(s, kind, n) ==
  CASE kind \in {"join", "replace"} -> IssueTo(s, n)
    [] kind = "revoke" -> [s EXCEPT !.gen = @ + 1, !.life[n] = "revoked"]
    [] kind = "delete" -> [s EXCEPT !.gen = @ + 1, !.life[n] = "deleted",
                                    !.certs = @ \ CertsOf(s, n)]

Writable(s, kind, n) ==
  CASE kind = "join" -> s.life[n] = "absent" /\ Cardinality(OfKind(s, "ca")) = 1
    [] kind = "replace" -> /\ s.life[n] = "active" /\ s.cred[n] < MaxCredential
                           /\ Cardinality(OfKind(s, "ca")) = 1
                           /\ Cardinality(CertsOf(s, n)) = 1
    [] kind = "revoke" -> s.life[n] = "active"
    [] kind = "delete" -> s.life[n] = "revoked"

\* Enrollment runs in the controller and saves under mutationMu.
InController(kind) == kind \in {"join", "replace"}

LoadForWrite(kind, n) ==
  /\ writer = Null /\ Writable(state, kind, n)
  /\ InController(kind) => listener # Null
  /\ writer' = [kind |-> kind, node |-> n, base |-> state.gen]
  /\ UNCHANGED <<state, secrets, listener, job, nodeVars, minted, renewed, faults>>

\* What an issued node has: the new certificate, and the CA that came with it.
IssuedTo(n, s) == [trust |-> {c.ca : c \in OfKind(s, "ca")}, ids |-> CertsOf(s, n)]

SaveWrite ==
  LET n == writer.node
      next == Written(state, writer.kind, n)
  IN /\ writer # Null
     /\ InController(writer.kind) => job = Null
     /\ \/ /\ state.gen = writer.base
           /\ state' = next
           /\ IF InController(writer.kind)
              THEN /\ holds' = [holds EXCEPT ![n] = IssuedTo(n, next)]
                   /\ secrets' = (secrets \ {CertRef(c) : c \in CertsOf(state, n)})
                                    \cup {CertRef(c) : c \in CertsOf(next, n)}
              ELSE UNCHANGED <<holds, secrets>>
        \/ state.gen # writer.base /\ UNCHANGED <<state, holds, secrets>>
     /\ writer' = Null
     /\ UNCHANGED <<listener, job, inbox, acks, minted, renewed, faults>>

-----------------------------------------------------------------------------
\* The controller is killed: what it was doing is lost, the files stay.
Crash ==
  /\ listener # Null
  /\ Fault("controller", "crash")
  /\ listener' = Null /\ job' = Null
  /\ writer' = IF writer # Null /\ InController(writer.kind) THEN Null ELSE writer
  /\ UNCHANGED <<state, secrets, nodeVars, minted, renewed>>

\* newSystemControlRPC: the identity in force, then RestoreRuntime.
Start ==
  /\ listener = Null
  /\ CanStart(state)
  /\ listener' = RuntimeOf(state)
  /\ UNCHANGED <<state, secrets, job, writer, nodeVars, minted, renewed, faults>>

\* The action a rollback names for a node, or a tidy-up after a commit, once
\* that has returned: the node keeps only the CA and the certificate in force.
Shrink(n) ==
  /\ ActiveRotations(state) = {} /\ state.life[n] = "active" /\ inbox[n] = Null
  /\ job # Null => job.kind # "finish"
  /\ holds' = [holds EXCEPT ![n] = [trust |-> {CurrentCA(state).ca},
                                    ids |-> @.ids \cap state.certs]]
  /\ holds' # holds
  /\ UNCHANGED <<state, secrets, listener, job, writer, inbox, acks, minted,
                 renewed, faults>>

Proceed == PutSecret \/ Save \/ Cleanup \/ Activate \/ Return \/ Answer

Next ==
  \/ Proceed
  \/ Stage
  \/ \E n \in Nodes : \/ RepeatNodeTrust(n) \/ UpdateNodeTrust(n)
                       \/ Install(n) \/ SendAcknowledgement(n) \/ Shrink(n)
  \/ \E m \in acks : AcknowledgeNodeTrust(m)
  \/ \E commit \in BOOLEAN : Finish(commit)
  \/ RenewIfNeeded
  \/ \E w \in Writes : LoadForWrite(w[1], w[2])
  \/ SaveWrite
  \/ Crash \/ Start

Spec == Init /\ [][Next]_vars

(***************************************************************************)
(* Operations run to their end, systemd starts the controller again, and   *)
(* the nodes of the impact keep asking, install what they receive and      *)
(* acknowledge it.  Whether to commit or to roll back is the operator's    *)
(* choice: nothing is assumed of it.                                       *)
(***************************************************************************)
Fairness ==
  /\ WF_vars(Proceed) /\ WF_vars(Start)
  /\ \A n \in Nodes :
       /\ WF_vars(RepeatNodeTrust(n)) /\ WF_vars(UpdateNodeTrust(n))
       /\ WF_vars(Install(n)) /\ WF_vars(SendAcknowledgement(n))
       /\ WF_vars(\E m \in acks : m.node = n /\ AcknowledgeNodeTrust(m))

FairSpec == Spec /\ Fairness

-----------------------------------------------------------------------------
Operations ==
  [id : 1..MaxRotations, status : {"pending", "completed", "failed"},
   steps : [Nodes -> {"none", "pending", "completed"}]]

States ==
  [gen : Nat, ops : SUBSET Operations, certs : SUBSET Certificates,
   life : [Nodes -> {"absent", "active", "revoked", "deleted"}],
   cred : [Nodes -> 0..MaxCredential]]

References == {"cert", "key"} \X Certificates
TLSStates == [leaf : Certificates, cas : SUBSET CAs]
Updates == [cert : Certificates, bundle : SUBSET CAs]

Jobs ==
  [kind : {"stage", "update", "ack", "finish", "renew"}, node : Nodes \cup {Null},
   base : Nat, todo : Seq(References), put : SUBSET References, next : States,
   tls : TLSStates \cup {Null}, drop : SUBSET References,
   pc : {"put", "cleanup", "activate", "return", "answer"}]

ASSUME NullAssumption == Null \notin TLSStates /\ Null \notin Jobs

\* The variables' types; the listener has a leaf and accepts one or two CAs
\* (PrepareGatewayControlTLS refuses more).
TypeOK ==
  /\ state \in States /\ secrets \subseteq References
  /\ listener \in TLSStates \cup {Null}
  /\ listener # Null => Cardinality(listener.cas) \in 1..2
  /\ job \in Jobs \cup {Null}
  /\ writer \in [kind : {"join", "replace", "revoke", "delete"}, node : Nodes,
                 base : Nat] \cup {Null}
  /\ holds \in [Nodes -> [trust : SUBSET CAs, ids : SUBSET Certificates]]
  /\ inbox \in [Nodes -> Updates \cup {Null}]
  /\ acks \subseteq [node : Nodes, cert : Certificates]
  /\ minted \in 0..MaxRotations /\ renewed \in 0..MaxRenewals
  /\ faults \in 0..MaxFaults

\* Whenever the control listener runs, every active node can reach it and is
\* authorized: at no point of a rotation, a renewal, a restart or a
\* concurrent change of members is a node locked out.
NodesManageable ==
  listener # Null =>
    \A n \in ActiveNodes(state) : \E c \in holds[n].ids : Connects(n, c)

\* Between operations the running listener is what a restart would build from
\* the stored state: a restart changes nothing a node can see.  And what an
\* operation has prepared is never a leaf of a CA it does not accept.
RuntimeMatchesState ==
  /\ Idle => listener = RuntimeOf(state)
  /\ job # Null => (job.tls # Null => ValidTLS(job.tls))

\* At every moment the stored state names an identity whose secrets exist, so
\* that the controller can be started after a crash at this point.
IdentityLoadable == CanStart(state)

\* Outside a rotation there is one CA and one leaf of it, and each active node
\* has one certificate, of its current credential generation and that CA; no
\* second rotation is ever active.
IdentityConsistent ==
  /\ Cardinality(ActiveRotations(state)) <= 1
  /\ ActiveRotations(state) = {} =>
       /\ SoleCAAndServer(state)
       /\ CurrentServer(state).ca = CurrentCA(state).ca
       /\ \A n \in ActiveNodes(state) :
            /\ Cardinality(CertsOf(state, n)) = 1
            /\ \A c \in CertsOf(state, n) : /\ c.serial = state.cred[n]
                                            /\ c.ca = CurrentCA(state).ca

\* The stored identity is well-formed, complete and consistent, and the
\* controller runs on it.
IdentitySound ==
  TypeOK /\ IdentityLoadable /\ IdentityConsistent /\ RuntimeMatchesState

\* An update that was killed or failed half-way has left the reference of the
\* node's staged certificate without its record, or the record without it.
HalfIssued(n) ==
  LET leaf == NodeCertificate(n, Rotation(state).id, Rotation(state).id, state.cred[n])
  IN (CertRef(leaf) \in secrets) # (leaf \in state.certs)

\* Every staged rotation becomes ready to commit, or is rolled back, however
\* answers are lost and the controller restarts; except that one node's
\* half-issued certificate can block it (then only a rollback ends it).
RotationGetsReady ==
  \A k \in 1..MaxRotations :
    (Rotating(state) /\ Rotation(state).id = k)
      ~> \/ ~(Rotating(state) /\ Rotation(state).id = k)
         \/ RotationReady(state)
         \/ \E n \in ActiveNodes(state) : HalfIssued(n)
=============================================================================
