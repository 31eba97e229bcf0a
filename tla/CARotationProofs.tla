-------------------------- MODULE CARotationProofs --------------------------
(***************************************************************************)
(* CA rotation and the renewal of the control leaf for any number of       *)
(* nodes, rotations, renewals, commands, crashes and faults: no active     *)
(* node is ever locked out of a running listener, and the stored identity  *)
(* is always complete, consistent and the one the listener runs on.  The   *)
(* theorems leave out one kind of fault, LateErrors, which the code does   *)
(* not survive.                                                            *)
(*                                                                         *)
(* The invariant relates five things: the stored state (StateInv), what    *)
(* the nodes hold, await and have acknowledged (NodesInv), the secrets     *)
(* (SecretsInv), the operation at work with the listener (ListenerInv) and *)
(* a command that has loaded the state (WriterInv).  An operation that has *)
(* not saved yet refers to secrets the state does not name, and what it    *)
(* will save still follows from the state, or its save is refused.         *)
(***************************************************************************)
EXTENDS CARotation, FiniteSetTheorems, TLAPS

-----------------------------------------------------------------------------
(* What a state says, without the choice of a sole element.                *)

PendingIds(s) == {o.id : o \in ActiveRotations(s)}
Present(s, kind) == {c \in OfKind(s, kind) : c.scope \notin PendingIds(s)}
Coming(s, kind) == {c \in OfKind(s, kind) : c.scope \in PendingIds(s)}
PresentOf(s, n) == {c \in Present(s, "node") : c.owner = n}
ComingOf(s, n) == {c \in Coming(s, "node") : c.owner = n}
Accepted(s) == {c.ca : c \in OfKind(s, "ca")}
KnownScopes(s) == {0} \cup {o.id : o \in s.ops}
Single(S) == \E x \in S : S = {x}

\* One rotation at most, and one CA and one leaf of it in each generation.
Generations(s) ==
  /\ \A o, p \in ActiveRotations(s) : o = p
  /\ Single(Present(s, "ca")) /\ Single(Present(s, "server"))
  /\ PendingIds(s) # {} => Single(Coming(s, "ca")) /\ Single(Coming(s, "server"))
  /\ \A a \in Present(s, "ca"), b \in Present(s, "server") : b.ca = a.ca
  /\ \A c \in Coming(s, "ca") \cup Coming(s, "server") : c.ca = c.scope

Records(s) ==
  /\ \A c \in s.certs : (c.kind = "node") # (c.owner = Host)
  /\ \A c \in s.certs : c.scope \in KnownScopes(s)

\* An active node has one certificate of the generation in force, and one of
\* the coming generation at most.
Issued(s) ==
  \A n \in ActiveNodes(s) :
    /\ Single(PresentOf(s, n))
    /\ \A c \in PresentOf(s, n) :
         c.serial = s.cred[n] /\ \A a \in Present(s, "ca") : c.ca = a.ca
    /\ \A c \in ComingOf(s, n) : c.serial = s.cred[n] /\ c.ca = c.scope
    /\ \A c, d \in ComingOf(s, n) : c = d

Unissued(s) == \A n \in Nodes : s.life[n] = "absent" => s.cred[n] = 0

StateInv(s) ==
  s \in States /\ Generations(s) /\ Records(s) /\ Issued(s) /\ Unissued(s)

-----------------------------------------------------------------------------
(* What the nodes hold (h), await (i) and have acknowledged (a).           *)

NodeTypes(h, i, a) ==
  /\ h \in [Nodes -> [trust : SUBSET CAs, ids : SUBSET Certificates]]
  /\ i \in [Nodes -> Updates \cup {Null}]
  /\ a \subseteq [node : Nodes, cert : Certificates]

\* Certificates outside the state carry no scope the state does not know.
Scopes(s, h, i, a) ==
  /\ \A n \in Nodes : \A c \in h[n].ids : c.scope \in KnownScopes(s)
  /\ \A n \in Nodes : i[n] # Null => i[n].cert.scope \in KnownScopes(s)
  /\ \A m \in a : m.cert.scope \in KnownScopes(s)

\* A node trusts the CA in force and has the certificate the state records
\* under it.
Equipped(s, h, n) ==
  /\ PresentOf(s, n) \subseteq h[n].ids
  /\ \A c \in Present(s, "ca") : c.ca \in h[n].trust

\* What is on its way to a node keeps it equipped.
Awaits(s, i, n) ==
  i[n] # Null =>
    /\ \A c \in Present(s, "ca") : c.ca \in i[n].bundle
    /\ i[n].cert.scope \in PendingIds(s) =>
         i[n].cert \in ComingOf(s, n) /\ i[n].bundle = Accepted(s)

\* A node with a certificate of the coming generation trusts both CAs and
\* awaits nothing.
Updated(s, h, i, n) ==
  \A c \in h[n].ids : c.scope \in PendingIds(s) =>
    c \in ComingOf(s, n) /\ h[n].trust = Accepted(s) /\ i[n] = Null

\* A node that has acknowledged one has it.
Acknowledged(s, h, a, n) ==
  /\ \A m \in a : m.node = n /\ m.cert.scope \in PendingIds(s) => m.cert \in h[n].ids
  /\ \A o \in ActiveRotations(s) : o.steps[n] = "completed" =>
       ComingOf(s, n) # {} /\ ComingOf(s, n) \subseteq h[n].ids

NodeInv(s, h, i, a, n) ==
  Equipped(s, h, n) /\ Awaits(s, i, n) /\ Updated(s, h, i, n) /\ Acknowledged(s, h, a, n)

NodesInv(s, h, i, a) ==
  /\ NodeTypes(h, i, a) /\ Scopes(s, h, i, a)
  /\ \A n \in ActiveNodes(s) : NodeInv(s, h, i, a, n)
  /\ \A n \in Nodes : s.life[n] = "absent" => i[n] = Null

-----------------------------------------------------------------------------
(* The secrets, and the operation at work.                                 *)

\* The secrets a start reads.
Material(s) ==
  {CertRef(c) : c \in OfKind(s, "ca")}
    \cup {CertRef(c) : c \in Present(s, "server")} \cup {KeyRef(c) : c \in Present(s, "server")}

SecretsInv(s, x) == x \subseteq References /\ Material(s) \subseteq x

\* References of certificates that a state names as the gateway's own.
HostRefs(s) == UNION {Refs(c) : c \in {d \in s.certs : d.kind # "node"}}

Wanted(j) == j.put \cup {j.todo[k] : k \in DOMAIN j.todo}
Swaps(j) == j.kind \in {"stage", "finish", "renew"}

\* The job of an operation is still what the operation makes of state s.
StagesFrom(s, j, k) ==
  /\ ActiveRotations(s) = {} /\ k \in 1..MaxRotations /\ k \notin KnownScopes(s)
  /\ \E steps \in [Nodes -> {"none", "pending"}] :
       j.next = Candidate(s,
                  s.ops \cup {[id |-> k, status |-> "pending", steps |-> steps]},
                  s.certs \cup {HostCertificate("ca", k, k, 0),
                                HostCertificate("server", k, k, 0)})
  /\ j.tls = TLS(CurrentServer(s), Accepted(s) \cup {k})
  /\ CertRef(HostCertificate("ca", k, k, 0)) \in Wanted(j)

UpdatesFrom(s, j, i) ==
  /\ j.node \in ActiveNodes(s) /\ i[j.node] = Null /\ ComingOf(s, j.node) = {}
  /\ \E k \in PendingIds(s) :
       j.next = Candidate(s, s.ops,
                  s.certs \cup {NodeCertificate(j.node, k, k, s.cred[j.node])})
  /\ j.tls = Null

AcknowledgesFrom(s, j, a) ==
  /\ \E m \in a : m.node = j.node /\ m.cert \in ComingOf(s, j.node)
  /\ \E o \in ActiveRotations(s) :
       j.next = Candidate(s,
                  (s.ops \ {o}) \cup {[o EXCEPT !.steps[j.node] = "completed"]}, s.certs)
  /\ j.tls = Null

Ready(s) ==
  \A n \in ActiveNodes(s) : \A o \in ActiveRotations(s) : o.steps[n] = "completed"

FinishesBy(s, j, x, o, commit) ==
  LET gone == {c \in s.certs : commit # (c.scope = o.id)}
  IN /\ commit => Ready(s)
     /\ j.next = Candidate(s,
                   (s.ops \ {o}) \cup
                     {[o EXCEPT !.status = IF commit THEN "completed" ELSE "failed"]},
                   s.certs \ gone)
     /\ j.drop = UNION {Refs(c) : c \in gone}
     /\ Material(j.next) \subseteq x
     /\ j.tls = RuntimeOf(j.next)

FinishesFrom(s, j, x) ==
  \E o \in ActiveRotations(s), commit \in BOOLEAN : FinishesBy(s, j, x, o, commit)

RenewsFrom(s, j, r) ==
  \E c \in Present(s, "ca") :
    LET leaf == HostCertificate("server", c.ca, 0, r)
    IN /\ j.next = Candidate(s, s.ops, (s.certs \ Present(s, "server")) \cup {leaf})
       /\ {CertRef(leaf), KeyRef(leaf)} \subseteq Wanted(j)
       /\ j.tls = TLS(leaf, Accepted(s))
       /\ r \in 1..MaxRenewals

Follows(s, j) ==
  CASE j.kind = "stage" -> StagesFrom(s, j, minted)
    [] j.kind = "update" -> UpdatesFrom(s, j, inbox)
    [] j.kind = "ack" -> AcknowledgesFrom(s, j, acks)
    [] j.kind = "finish" -> FinishesFrom(s, j, secrets)
    [] j.kind = "renew" -> RenewsFrom(s, j, renewed)

AtPut ==
  /\ job.put \subseteq secrets
  /\ Wanted(job) \cap HostRefs(state) = {}
  /\ job.base <= state.gen
  /\ state.gen = job.base => Follows(state, job)

AtCleanup == job.put \cap HostRefs(state) = {}

\* Before the swap the listener accepts the CA in force, and its leaf is of
\* that CA or of one that every active node still trusts.
AtActivate ==
  /\ job.tls = RuntimeOf(state)
  /\ job.drop \cap HostRefs(state) = {}
  /\ listener \in TLSStates /\ Cardinality(listener.cas) \in 1..2
  /\ \A c \in Present(state, "ca") :
       /\ c.ca \in listener.cas
       /\ \/ listener.leaf.ca = c.ca
          \/ /\ job.kind = "finish"
             /\ \A n \in ActiveNodes(state) :
                  inbox[n] = Null /\ listener.leaf.ca \in holds[n].trust

AtReturn == job.drop \cap HostRefs(state) = {}

AtAnswer ==
  LET n == job.node
      u == TrustUpdate(job.next, n)
  IN /\ n \in Nodes /\ state.life[n] # "absent" /\ inbox[n] = Null
     /\ u \in Updates /\ u.cert.scope \in KnownScopes(state)
     /\ n \in ActiveNodes(state) =>
          /\ \A c \in Present(state, "ca") : c.ca \in u.bundle
          /\ u.cert \in ComingOf(state, n) /\ u.bundle = Accepted(state)
          /\ \A c \in holds[n].ids : c.scope \notin PendingIds(state)

JobInv ==
  /\ listener # Null /\ job \in Jobs
  /\ job.tls # Null => ValidTLS(job.tls)
  /\ Swaps(job) <=> job.tls # Null
  /\ job.kind # "finish" => job.drop = {}
  /\ job.pc # "activate" => listener = RuntimeOf(state)
  /\ job.pc = "put" => AtPut
  /\ job.pc = "cleanup" => AtCleanup
  /\ job.pc = "activate" => AtActivate
  /\ job.pc = "return" => AtReturn
  /\ job.pc = "answer" => AtAnswer

ListenerInv ==
  /\ job # Null => JobInv
  /\ job = Null /\ listener # Null => listener = RuntimeOf(state)

WriteKinds == {"join", "replace", "revoke", "delete"}

WriterInv ==
  writer # Null =>
    /\ writer \in [kind : WriteKinds, node : Nodes, base : Nat]
    /\ InController(writer.kind) => listener # Null
    /\ writer.base <= state.gen
    /\ state.gen = writer.base => Writable(state, writer.kind, writer.node)

CountsInv ==
  /\ minted \in 0..MaxRotations /\ renewed \in 0..MaxRenewals /\ faults \in 0..MaxFaults
  /\ \A o \in state.ops : o.id <= minted
  /\ \A c \in OfKind(state, "server") : c.serial <= renewed

RotationInv ==
  /\ StateInv(state) /\ NodesInv(state, holds, inbox, acks)
  /\ SecretsInv(state, secrets) /\ CountsInv /\ ListenerInv /\ WriterInv

-----------------------------------------------------------------------------
(* Reading a state.                                                        *)

LEMMA SoleOf ==
  ASSUME NEW S, Single(S)
  PROVE  S = {Sole(S)} /\ Cardinality(S) = 1
<1>1. PICK x \in S : S = {x}
  BY DEF Single
<1>2. Sole(S) = x
  BY <1>1 DEF Sole
<1> QED
  BY <1>1, <1>2, FS_Singleton

\* The code's lookups, in a state with one rotation at most and one CA and
\* leaf in each generation.
LEMMA View ==
  ASSUME NEW s, Generations(s)
  PROVE  /\ Rotating(s) <=> PendingIds(s) # {}
         /\ Cardinality(ActiveRotations(s)) <= 1
         /\ PendingIds(s) # {} =>
              /\ ActiveRotations(s) = {Rotation(s)} /\ PendingIds(s) = {Rotation(s).id}
              /\ \A kind : New(s, kind) = Coming(s, kind) /\ Old(s, kind) = Present(s, kind)
         /\ PendingIds(s) = {} =>
              /\ ActiveRotations(s) = {}
              /\ \A kind : Coming(s, kind) = {} /\ OfKind(s, kind) = Present(s, kind)
<1>1. CASE ActiveRotations(s) = {}
  <2>1. Cardinality(ActiveRotations(s)) = 0
    BY <1>1, FS_EmptySet
  <2>2. PendingIds(s) = {}
    BY <1>1 DEF PendingIds
  <2> QED
    BY <1>1, <2>1, <2>2 DEF Rotating, Coming, Present
<1>2. CASE ActiveRotations(s) # {}
  <2>1. Single(ActiveRotations(s))
    BY <1>2 DEF Generations, Single
  <2>2. ActiveRotations(s) = {Rotation(s)} /\ Cardinality(ActiveRotations(s)) = 1
    BY <2>1, SoleOf DEF Rotation
  <2>3. PendingIds(s) = {Rotation(s).id}
    BY <2>2 DEF PendingIds
  <2>4. \A kind : New(s, kind) = Coming(s, kind) /\ Old(s, kind) = Present(s, kind)
    BY <2>3 DEF New, Old, Coming, Present, Staged
  <2> QED
    BY <2>2, <2>3, <2>4 DEF Rotating
<1> QED
  BY <1>1, <1>2

LEMMA InForce ==
  ASSUME NEW s, Generations(s)
  PROVE  /\ Present(s, "ca") = {CurrentCA(s)}
         /\ Present(s, "server") = {CurrentServer(s)}
         /\ CurrentServer(s).ca = CurrentCA(s).ca
         /\ RuntimeOf(s) = TLS(CurrentServer(s), Accepted(s))
         /\ StartMaterial(s) = Material(s)
         /\ CurrentCA(s).ca \in Accepted(s)
<1>1. Present(s, "ca") = {Sole(Present(s, "ca"))}
      /\ Present(s, "server") = {Sole(Present(s, "server"))}
  BY SoleOf DEF Generations
<1>2. CurrentCA(s) = Sole(Present(s, "ca")) /\ CurrentServer(s) = Sole(Present(s, "server"))
  BY View DEF CurrentCA, CurrentServer
<1>3. Present(s, "ca") = {CurrentCA(s)} /\ Present(s, "server") = {CurrentServer(s)}
  BY <1>1, <1>2
<1>4. CurrentServer(s).ca = CurrentCA(s).ca
  BY <1>3 DEF Generations
<1>5. (IF Rotating(s) THEN New(s, "ca") ELSE {}) = Coming(s, "ca")
  BY View
<1>6. OfKind(s, "ca") = {CurrentCA(s)} \cup Coming(s, "ca")
  <2>1. OfKind(s, "ca") = Present(s, "ca") \cup Coming(s, "ca")
    BY DEF Present, Coming
  <2> QED
    BY <2>1, <1>3
<1>7. Accepted(s) = {CurrentCA(s).ca} \cup {c.ca : c \in Coming(s, "ca")}
  BY <1>6 DEF Accepted
<1>8. RuntimeOf(s) = TLS(CurrentServer(s), Accepted(s))
  BY <1>5, <1>7 DEF RuntimeOf
<1>9. StartMaterial(s) = Material(s)
  <2>1. {CertRef(c) : c \in OfKind(s, "ca")}
          = {CertRef(CurrentCA(s))} \cup {CertRef(c) : c \in Coming(s, "ca")}
    BY <1>6
  <2>2. /\ {CertRef(c) : c \in Present(s, "server")} = {CertRef(CurrentServer(s))}
        /\ {KeyRef(c) : c \in Present(s, "server")} = {KeyRef(CurrentServer(s))}
    BY <1>3
  <2>3. StartMaterial(s) =
          {CertRef(CurrentCA(s)), CertRef(CurrentServer(s)), KeyRef(CurrentServer(s))}
            \cup {CertRef(c) : c \in Coming(s, "ca")}
    BY <1>5 DEF StartMaterial
  <2> QED
    BY <2>1, <2>2, <2>3 DEF Material
<1> QED
  BY <1>3, <1>4, <1>7, <1>8, <1>9

LEMMA Startable ==
  ASSUME NEW s, Generations(s), Material(s) \subseteq secrets
  PROVE  CanStart(s)
<1>1. StartMaterial(s) \subseteq secrets /\ Cardinality(ActiveRotations(s)) <= 1
  BY InForce, View
<1>2. CASE PendingIds(s) # {}
  <2>1. GenerationsComplete(s)
    BY <1>2, View, SoleOf DEF GenerationsComplete, Generations
  <2> QED
    BY <1>1, <1>2, <2>1, View DEF CanStart
<1>3. CASE PendingIds(s) = {}
  <2>1. SoleCAAndServer(s)
    BY <1>3, View, SoleOf DEF SoleCAAndServer, Generations
  <2> QED
    BY <1>1, <1>3, <2>1, View DEF CanStart
<1> QED
  BY <1>2, <1>3

\* The lookups read the gateway's own certificates and the rotation under way.
LEMMA SameHost ==
  ASSUME NEW s, NEW t, Generations(s),
         \A o, p \in ActiveRotations(t) : o = p,
         PendingIds(t) = PendingIds(s),
         OfKind(t, "ca") = OfKind(s, "ca"), OfKind(t, "server") = OfKind(s, "server")
  PROVE  /\ Generations(t)
         /\ \A kind \in {"ca", "server"} :
              Present(t, kind) = Present(s, kind) /\ Coming(t, kind) = Coming(s, kind)
         /\ Accepted(t) = Accepted(s) /\ Material(t) = Material(s)
         /\ RuntimeOf(t) = RuntimeOf(s)
         /\ CurrentCA(t) = CurrentCA(s)
<1>1. \A kind \in {"ca", "server"} :
        Present(t, kind) = Present(s, kind) /\ Coming(t, kind) = Coming(s, kind)
  BY DEF Present, Coming
<1>2. Generations(t)
  BY <1>1 DEF Generations
<1>3. Accepted(t) = Accepted(s) /\ Material(t) = Material(s)
  BY <1>1 DEF Accepted, Material
<1>4. {CurrentServer(t)} = {CurrentServer(s)} /\ {CurrentCA(t)} = {CurrentCA(s)}
  BY <1>1, <1>2, InForce
<1>5. CurrentServer(t) = CurrentServer(s) /\ CurrentCA(t) = CurrentCA(s)
  BY <1>4
<1>6. RuntimeOf(t) = RuntimeOf(s)
  BY <1>2, <1>3, <1>5, InForce
<1> QED
  BY <1>1, <1>2, <1>3, <1>5, <1>6

-----------------------------------------------------------------------------
(* What the operations make of a state.                                    *)

\* The nodes are as before where the state says no less to them.
LEMMA SameNodes ==
  ASSUME NEW s, NEW t, NEW h, NEW i, NEW a, NodesInv(s, h, i, a),
         PendingIds(t) = PendingIds(s), Present(t, "ca") = Present(s, "ca"),
         Accepted(t) = Accepted(s), KnownScopes(s) \subseteq KnownScopes(t),
         ActiveNodes(t) \subseteq ActiveNodes(s),
         \A n \in Nodes : t.life[n] = "absent" => s.life[n] = "absent",
         \A n \in ActiveNodes(t) :
           /\ PresentOf(t, n) = PresentOf(s, n) /\ ComingOf(s, n) \subseteq ComingOf(t, n)
           /\ \A o \in ActiveRotations(t) : o.steps[n] = "completed" =>
                ComingOf(t, n) # {} /\ ComingOf(t, n) \subseteq h[n].ids
  PROVE  NodesInv(t, h, i, a)
<1>1. NodeTypes(h, i, a) /\ Scopes(t, h, i, a)
  BY DEF NodesInv, Scopes
<1>2. ASSUME NEW n \in ActiveNodes(t)
      PROVE  NodeInv(t, h, i, a, n)
  <2>1. NodeInv(s, h, i, a, n)
    BY <1>2 DEF NodesInv
  <2>2. Equipped(t, h, n)
    BY <1>2, <2>1 DEF NodeInv, Equipped
  <2>3. Awaits(t, i, n)
    BY <1>2, <2>1 DEF NodeInv, Awaits
  <2>4. Updated(t, h, i, n)
    BY <1>2, <2>1 DEF NodeInv, Updated
  <2>5. Acknowledged(t, h, a, n)
    BY <1>2, <2>1 DEF NodeInv, Acknowledged
  <2> QED
    BY <2>2, <2>3, <2>4, <2>5 DEF NodeInv
<1>3. \A n \in Nodes : t.life[n] = "absent" => i[n] = Null
  BY DEF NodesInv
<1> QED
  BY <1>1, <1>2, <1>3 DEF NodesInv

\* Two states with the same gateway certificates name the same references.
LEMMA SameHostRefs ==
  ASSUME NEW s \in States, NEW t \in States, 
         OfKind(t, "ca") = OfKind(s, "ca"), OfKind(t, "server") = OfKind(s, "server")
  PROVE  HostRefs(t) = HostRefs(s)
<1>1. \A u \in States : {d \in u.certs : d.kind # "node"} = OfKind(u, "ca") \cup OfKind(u, "server")
  BY DEF States, Certificates, OfKind
<1> QED
  BY <1>1 DEF HostRefs

\* A command revokes or deletes nodes.
LEMMA FewerMembers ==
  ASSUME NEW s, NEW t \in States, StateInv(s),
         t.ops = s.ops, t.cred = s.cred, t.certs \subseteq s.certs,
         OfKind(t, "ca") = OfKind(s, "ca"), OfKind(t, "server") = OfKind(s, "server"),
         ActiveNodes(t) \subseteq ActiveNodes(s),
         \A n \in Nodes : t.life[n] = "absent" => s.life[n] = "absent",
         \A n \in ActiveNodes(t) : \A c \in s.certs : c.owner = n => c \in t.certs
  PROVE  /\ StateInv(t) /\ ActiveRotations(t) = ActiveRotations(s)
         /\ PendingIds(t) = PendingIds(s) /\ KnownScopes(t) = KnownScopes(s)
         /\ Present(t, "ca") = Present(s, "ca") /\ Accepted(t) = Accepted(s)
         /\ \A n \in ActiveNodes(t) :
              PresentOf(t, n) = PresentOf(s, n) /\ ComingOf(t, n) = ComingOf(s, n)
         /\ Material(t) = Material(s) /\ HostRefs(t) = HostRefs(s)
         /\ RuntimeOf(t) = RuntimeOf(s)
<1>1. ActiveRotations(t) = ActiveRotations(s) /\ PendingIds(t) = PendingIds(s)
      /\ KnownScopes(t) = KnownScopes(s)
  BY DEF ActiveRotations, PendingIds, KnownScopes
<1>2. /\ Generations(t) /\ Accepted(t) = Accepted(s) /\ Material(t) = Material(s)
      /\ RuntimeOf(t) = RuntimeOf(s) /\ Present(t, "ca") = Present(s, "ca")
  <2>1. Generations(s) /\ \A o, p \in ActiveRotations(t) : o = p
    BY <1>1 DEF StateInv, Generations
  <2> QED
    BY <1>1, <2>1, SameHost
<1>3. \A n \in ActiveNodes(t) :
        PresentOf(t, n) = PresentOf(s, n) /\ ComingOf(t, n) = ComingOf(s, n)
  BY <1>1 DEF PresentOf, ComingOf, Present, Coming, OfKind
<1>4. Issued(t)
  <2> SUFFICES ASSUME NEW n \in ActiveNodes(t)
               PROVE  /\ Single(PresentOf(t, n))
                      /\ \A c \in PresentOf(t, n) :
                           /\ c.serial = t.cred[n]
                           /\ \A a \in Present(t, "ca") : c.ca = a.ca
                      /\ \A c \in ComingOf(t, n) : c.serial = t.cred[n] /\ c.ca = c.scope
                      /\ \A c, d \in ComingOf(t, n) : c = d
    BY DEF Issued
  <2>1. n \in ActiveNodes(s) /\ Issued(s)
    BY DEF StateInv
  <2> QED
    BY <1>2, <1>3, <2>1 DEF Issued
<1>5. Records(t) /\ Unissued(t)
  BY <1>1 DEF StateInv, Records, Unissued
<1>6. HostRefs(t) = HostRefs(s)
  BY SameHostRefs DEF StateInv
<1> QED
  BY <1>1, <1>2, <1>3, <1>4, <1>5, <1>6 DEF StateInv

LEMMA StateFields ==
  ASSUME NEW s \in States
  PROVE  /\ s.gen \in Nat /\ s.ops \in SUBSET Operations /\ s.certs \in SUBSET Certificates
         /\ s.life \in [Nodes -> {"absent", "active", "revoked", "deleted"}]
         /\ s.cred \in [Nodes -> 0..MaxCredential]
BY DEF States

LEMMA CandidateFields ==
  ASSUME NEW s \in States, NEW x, NEW y
  PROVE  /\ Candidate(s, x, y).gen = s.gen + 1
         /\ Candidate(s, x, y).ops = x /\ Candidate(s, x, y).certs = y
         /\ Candidate(s, x, y).life = s.life /\ Candidate(s, x, y).cred = s.cred
BY DEF Candidate, States

LEMMA CandidateType ==
  ASSUME NEW s \in States, NEW x \in SUBSET Operations, NEW y \in SUBSET Certificates
  PROVE  Candidate(s, x, y) \in States
<1>1. s.gen + 1 \in Nat
  BY DEF States
<1> QED
  BY <1>1 DEF Candidate, States

\* stage: a rotation under way, with a CA and a leaf of its own.
LEMMA StageState ==
  ASSUME NEW s, NEW j, NEW k, NEW h, NEW i, NEW a,
         StateInv(s), NodesInv(s, h, i, a), StagesFrom(s, j, k)
  PROVE  /\ StateInv(j.next) /\ NodesInv(j.next, h, i, a)
         /\ j.next.gen = s.gen + 1
         /\ Present(j.next, "ca") = Present(s, "ca")
         /\ ActiveNodes(j.next) = ActiveNodes(s)
         /\ j.tls = RuntimeOf(j.next)
         /\ Material(j.next) \subseteq Material(s) \cup Wanted(j)
         /\ \A o \in j.next.ops : o \in s.ops \/ o.id = k
         /\ \A c \in OfKind(j.next, "server") : c \in s.certs \/ c.serial = 0
<1> DEFINE ca == HostCertificate("ca", k, k, 0)
           server == HostCertificate("server", k, k, 0)
           t == j.next
<1>1. PICK steps \in [Nodes -> {"none", "pending"}] :
        t = Candidate(s, s.ops \cup {[id |-> k, status |-> "pending", steps |-> steps]},
                      s.certs \cup {ca, server})
  BY DEF StagesFrom
<1> DEFINE o == [id |-> k, status |-> "pending", steps |-> steps]
<1>2. /\ s \in States /\ ActiveRotations(s) = {} /\ k \in 1..MaxRotations
      /\ k \notin KnownScopes(s)
  BY DEF StateInv, StagesFrom
<1>3. /\ t.gen = s.gen + 1 /\ t.certs = s.certs \cup {ca, server}
      /\ t.ops = s.ops \cup {o} /\ t.life = s.life /\ t.cred = s.cred
  BY <1>1, <1>2, CandidateFields
<1>4. ca \in Certificates /\ server \in Certificates /\ o \in Operations
  BY <1>2, RotationAssumption DEF HostCertificate, Certificates, CAs, Operations
<1>5. t \in States
  BY <1>1, <1>2, <1>4, CandidateType, StateFields
<1> HIDE DEF o
<1>6. ActiveRotations(t) = {o} /\ PendingIds(t) = {k} /\ o.steps = steps
  <2>1. o.status = "pending" /\ o.id = k /\ o.steps = steps
    BY DEF o
  <2> QED
    BY <1>2, <1>3, <2>1 DEF ActiveRotations, PendingIds
<1>7. \A c \in s.certs : c.scope # k
  BY <1>2 DEF StateInv, Records
<1>8. PendingIds(s) = {}
  BY <1>2 DEF PendingIds
<1>9. /\ ca.kind = "ca" /\ ca.scope = k /\ ca.ca = k /\ ca.owner = Host
      /\ server.kind = "server" /\ server.scope = k /\ server.ca = k /\ server.owner = Host
      /\ server.serial = 0
  BY DEF HostCertificate
<1> HIDE DEF ca, server, t
<1>10. \A kind : Present(t, kind) = Present(s, kind)
  BY <1>3, <1>6, <1>7, <1>8, <1>9 DEF Present, OfKind
<1>11. /\ Coming(t, "ca") = {ca} /\ Coming(t, "server") = {server}
       /\ Coming(t, "node") = {}
  BY <1>3, <1>6, <1>7, <1>9 DEF Coming, OfKind
<1>12. Generations(t)
  BY <1>6, <1>9, <1>10, <1>11 DEF Generations, Single, StateInv
<1>13. KnownScopes(t) = KnownScopes(s) \cup {k}
  <2>1. o.id = k
    BY DEF o
  <2> QED
    BY <1>3, <2>1 DEF KnownScopes
<1>14. Records(t)
  BY <1>3, <1>9, <1>13 DEF Records, StateInv
<1>15. \A n : PresentOf(t, n) = PresentOf(s, n) /\ ComingOf(t, n) = {}
  BY <1>10, <1>11 DEF PresentOf, ComingOf
<1>16. ActiveNodes(t) = ActiveNodes(s)
  BY <1>3 DEF ActiveNodes
<1>17. Issued(t) /\ Unissued(t)
  BY <1>3, <1>10, <1>15, <1>16 DEF Issued, Unissued, StateInv
<1>18. StateInv(t)
  BY <1>5, <1>12, <1>14, <1>17 DEF StateInv
<1>19. NodesInv(t, h, i, a)
  <2>1. NodeTypes(h, i, a) /\ Scopes(t, h, i, a)
    BY <1>13 DEF NodesInv, Scopes
  <2>2. ASSUME NEW n \in ActiveNodes(t)
        PROVE  NodeInv(t, h, i, a, n)
    <3>1. NodeInv(s, h, i, a, n) /\ n \in Nodes
      BY <1>16, <2>2 DEF NodesInv, ActiveNodes
    <3>2. Scopes(s, h, i, a)
      BY DEF NodesInv
    <3>3. Equipped(t, h, n)
      BY <1>10, <1>15, <3>1 DEF NodeInv, Equipped
    <3>4. Awaits(t, i, n)
      BY <1>2, <1>6, <1>10, <3>1, <3>2 DEF NodeInv, Awaits, Scopes
    <3>5. Updated(t, h, i, n)
      BY <1>2, <1>6, <3>1, <3>2 DEF Updated, Scopes
    <3>6. Acknowledged(t, h, a, n)
      BY <1>1, <1>2, <1>6, <3>1, <3>2 DEF Acknowledged, Scopes
    <3> QED
      BY <3>3, <3>4, <3>5, <3>6 DEF NodeInv
  <2>3. \A n \in Nodes : t.life[n] = "absent" => i[n] = Null
    BY <1>3 DEF NodesInv
  <2> QED
    BY <2>1, <2>2, <2>3 DEF NodesInv
<1>20. OfKind(t, "ca") = OfKind(s, "ca") \cup {ca}
  BY <1>3, <1>9 DEF OfKind
<1>21. Accepted(t) = Accepted(s) \cup {k}
  BY <1>20, <1>9 DEF Accepted
<1>22. j.tls = RuntimeOf(t)
  <2>1. Generations(s)
    BY DEF StateInv
  <2>2. {CurrentServer(t)} = {CurrentServer(s)}
    BY <1>10, <1>12, <2>1, InForce
  <2>3. RuntimeOf(t) = TLS(CurrentServer(s), Accepted(s) \cup {k})
    BY <1>12, <1>21, <2>2, InForce
  <2> QED
    BY <2>3 DEF StagesFrom
<1>23. Material(t) \subseteq Material(s) \cup Wanted(j)
  <2>1. CertRef(ca) \in Wanted(j)
    BY DEF StagesFrom, ca
  <2> QED
    BY <1>10, <1>20, <2>1 DEF Material
<1>24. \A x \in t.ops : x \in s.ops \/ x.id = k
  <2>1. o.id = k
    BY DEF o
  <2> QED
    BY <1>3, <2>1
<1>25. \A c \in OfKind(t, "server") : c \in s.certs \/ c.serial = 0
  BY <1>3, <1>9 DEF OfKind
<1> QED
  BY <1>3, <1>10, <1>16, <1>18, <1>19, <1>22, <1>23, <1>24, <1>25 DEF t

\* UpdateNodeTrust: one more certificate, of the coming generation.
LEMMA UpdateState ==
  ASSUME NEW s, NEW j, NEW h, NEW i, NEW a,
         StateInv(s), NodesInv(s, h, i, a), UpdatesFrom(s, j, i)
  PROVE  /\ StateInv(j.next) /\ NodesInv(j.next, h, i, a)
         /\ j.next.gen = s.gen + 1 /\ j.next.ops = s.ops
         /\ RuntimeOf(j.next) = RuntimeOf(s) /\ Material(j.next) = Material(s)
         /\ HostRefs(j.next) = HostRefs(s)
         /\ OfKind(j.next, "server") = OfKind(s, "server")
         /\ ActiveNodes(j.next) = ActiveNodes(s)
         /\ Present(j.next, "ca") = Present(s, "ca")
         /\ Single(ComingOf(j.next, j.node)) /\ PendingIds(j.next) # {}
         /\ \A c \in h[j.node].ids : c.scope \notin PendingIds(j.next)
<1> DEFINE t == j.next
           n == j.node
<1>1. PICK k \in PendingIds(s) :
        t = Candidate(s, s.ops, s.certs \cup {NodeCertificate(n, k, k, s.cred[n])})
  BY DEF UpdatesFrom
<1> DEFINE leaf == NodeCertificate(n, k, k, s.cred[n])
<1>2. s \in States /\ n \in Nodes /\ n \in ActiveNodes(s) /\ ComingOf(s, n) = {}
  BY DEF StateInv, UpdatesFrom, ActiveNodes
<1>3. /\ t.gen = s.gen + 1 /\ t.certs = s.certs \cup {leaf}
      /\ t.ops = s.ops /\ t.life = s.life /\ t.cred = s.cred
  BY <1>1, <1>2, CandidateFields
<1>4. PICK o \in s.ops : o.id = k
  BY <1>1 DEF PendingIds, ActiveRotations
<1>5. k \in 1..MaxRotations /\ k \in KnownScopes(s)
  BY <1>2, <1>4 DEF States, Operations, KnownScopes
<1>6. leaf \in Certificates
  <2>1. s.cred[n] \in 0..(MaxRenewals + MaxCredential)
    <3>1. s.cred[n] \in 0..MaxCredential
      BY <1>2 DEF States
    <3> QED
      BY <3>1, RotationAssumption
  <2>2. k \in CAs
    BY <1>5 DEF CAs
  <2> QED
    BY <1>2, <2>1, <2>2 DEF NodeCertificate, Certificates
<1>7. t \in States
  BY <1>1, <1>2, <1>6, CandidateType, StateFields
<1>8. /\ leaf.kind = "node" /\ leaf.owner = n /\ leaf.ca = k /\ leaf.scope = k
      /\ leaf.serial = s.cred[n]
  BY DEF NodeCertificate
<1> HIDE DEF leaf, t, n
<1>9. /\ ActiveRotations(t) = ActiveRotations(s) /\ PendingIds(t) = PendingIds(s)
      /\ KnownScopes(t) = KnownScopes(s) /\ ActiveNodes(t) = ActiveNodes(s)
  BY <1>3 DEF ActiveRotations, PendingIds, KnownScopes, ActiveNodes
<1>10. OfKind(t, "ca") = OfKind(s, "ca") /\ OfKind(t, "server") = OfKind(s, "server")
  BY <1>3, <1>8 DEF OfKind
<1>11. Generations(s) /\ \A x, y \in ActiveRotations(t) : x = y
  BY <1>9 DEF StateInv, Generations
<1>12. /\ Generations(t) /\ Present(t, "ca") = Present(s, "ca")
       /\ Accepted(t) = Accepted(s) /\ Material(t) = Material(s)
       /\ RuntimeOf(t) = RuntimeOf(s)
  BY <1>9, <1>10, <1>11, SameHost
<1>13. \A x : PresentOf(t, x) = PresentOf(s, x)
  BY <1>1, <1>3, <1>8, <1>9 DEF PresentOf, Present, OfKind
<1>14. ComingOf(t, n) = {leaf} /\ \A x : x # n => ComingOf(t, x) = ComingOf(s, x)
  <2>1. \A x : ComingOf(t, x) = ComingOf(s, x) \cup {c \in {leaf} : c.owner = x}
    BY <1>1, <1>3, <1>8, <1>9 DEF ComingOf, Coming, OfKind
  <2> QED
    BY <1>2, <1>8, <2>1
<1>15. Issued(t)
  <2> SUFFICES ASSUME NEW x \in ActiveNodes(t)
               PROVE  /\ Single(PresentOf(t, x))
                      /\ \A c \in PresentOf(t, x) :
                           /\ c.serial = t.cred[x]
                           /\ \A d \in Present(t, "ca") : c.ca = d.ca
                      /\ \A c \in ComingOf(t, x) : c.serial = t.cred[x] /\ c.ca = c.scope
                      /\ \A c, d \in ComingOf(t, x) : c = d
    BY DEF Issued
  <2>1. x \in ActiveNodes(s) /\ Issued(s)
    BY <1>9 DEF StateInv
  <2>2. CASE x = n
    BY <1>3, <1>8, <1>12, <1>13, <1>14, <2>1, <2>2 DEF Issued
  <2>3. CASE x # n
    BY <1>3, <1>12, <1>13, <1>14, <2>1, <2>3 DEF Issued
  <2> QED
    BY <2>2, <2>3
<1>16. Records(t) /\ Unissued(t)
  <2>1. n # Host
    BY <1>2, RotationAssumption
  <2> QED
    BY <1>3, <1>5, <1>8, <1>9, <2>1 DEF StateInv, Records, Unissued
<1>17. StateInv(t)
  BY <1>7, <1>12, <1>15, <1>16 DEF StateInv
<1>18. \A x \in ActiveNodes(s) : Acknowledged(s, h, a, x)
  BY DEF NodesInv, NodeInv
<1>19. NodesInv(t, h, i, a)
  <2>1. ASSUME NEW x \in ActiveNodes(t), NEW y \in ActiveRotations(t),
               y.steps[x] = "completed"
        PROVE  ComingOf(t, x) # {} /\ ComingOf(t, x) \subseteq h[x].ids
    <3>1. ComingOf(s, x) # {} /\ ComingOf(s, x) \subseteq h[x].ids
      BY <1>9, <1>18, <2>1 DEF Acknowledged
    <3> QED
      BY <1>2, <1>14, <3>1
  <2>2. \A x \in ActiveNodes(t) : ComingOf(s, x) \subseteq ComingOf(t, x)
    BY <1>2, <1>14
  <2> QED
    BY <1>3, <1>9, <1>12, <1>13, <2>1, <2>2, SameNodes
<1>20. HostRefs(t) = HostRefs(s)
  BY <1>2, <1>7, <1>10, SameHostRefs
<1>21. \A c \in h[n].ids : c.scope \notin PendingIds(t)
  <2>1. Updated(s, h, i, n)
    BY <1>2 DEF NodesInv, NodeInv
  <2> QED
    BY <1>2, <1>9, <2>1 DEF Updated
<1>22. Single(ComingOf(t, n)) /\ PendingIds(t) # {}
  BY <1>1, <1>9, <1>14 DEF Single
<1> QED
  BY <1>3, <1>9, <1>10, <1>12, <1>17, <1>19, <1>20, <1>21, <1>22 DEF t, n

\* AcknowledgeNodeTrust: the node's step of the rotation is completed.
LEMMA AcknowledgeState ==
  ASSUME NEW s, NEW j, NEW h, NEW i, NEW a,
         StateInv(s), NodesInv(s, h, i, a), AcknowledgesFrom(s, j, a)
  PROVE  /\ StateInv(j.next) /\ NodesInv(j.next, h, i, a)
         /\ j.next.gen = s.gen + 1 /\ j.next.certs = s.certs
         /\ RuntimeOf(j.next) = RuntimeOf(s) /\ Material(j.next) = Material(s)
         /\ \A x \in j.next.ops : \E y \in s.ops : x.id = y.id
<1> DEFINE t == j.next
           n == j.node
<1>1. PICK m \in a : m.node = n /\ m.cert \in ComingOf(s, n)
  BY DEF AcknowledgesFrom
<1>2. PICK o \in ActiveRotations(s) :
        t = Candidate(s, (s.ops \ {o}) \cup {[o EXCEPT !.steps[n] = "completed"]}, s.certs)
  BY DEF AcknowledgesFrom
<1> DEFINE p == [o EXCEPT !.steps[n] = "completed"]
<1>3. s \in States /\ n \in Nodes /\ o \in s.ops /\ o \in Operations /\ o.status = "pending"
  <2>1. m.node \in Nodes
    BY DEF NodesInv, NodeTypes
  <2>2. s \in States /\ o \in s.ops /\ o.status = "pending"
    BY DEF StateInv, ActiveRotations
  <2> QED
    BY <1>1, <2>1, <2>2, StateFields
<1>4. /\ p \in Operations /\ p.id = o.id /\ p.status = o.status
      /\ \A x \in Nodes : x # n => p.steps[x] = o.steps[x]
  BY <1>3 DEF Operations
<1> HIDE DEF p
<1>5. /\ t.gen = s.gen + 1 /\ t.certs = s.certs
      /\ t.ops = (s.ops \ {o}) \cup {p} /\ t.life = s.life /\ t.cred = s.cred
  BY <1>2, <1>3, CandidateFields DEF p
<1>6. t \in States
  BY <1>2, <1>3, <1>4, CandidateType, StateFields DEF p
<1> HIDE DEF t, n
<1>7. ActiveRotations(s) = {o}
  BY DEF StateInv, Generations
<1>8. ActiveRotations(t) = {p}
  <2>1. \A x \in s.ops : x.status = "pending" => x = o
    BY <1>7 DEF ActiveRotations
  <2> QED
    BY <1>3, <1>4, <1>5, <2>1 DEF ActiveRotations
<1>9. PendingIds(t) = PendingIds(s) /\ ActiveNodes(t) = ActiveNodes(s)
  BY <1>4, <1>5, <1>7, <1>8 DEF PendingIds, ActiveNodes
<1>10. KnownScopes(t) = KnownScopes(s)
  BY <1>3, <1>4, <1>5 DEF KnownScopes
<1>11. \A kind : OfKind(t, kind) = OfKind(s, kind)
  BY <1>5 DEF OfKind
<1>12. /\ Generations(t) /\ Present(t, "ca") = Present(s, "ca")
       /\ Accepted(t) = Accepted(s) /\ Material(t) = Material(s)
       /\ RuntimeOf(t) = RuntimeOf(s)
  <2>1. Generations(s) /\ \A x, y \in ActiveRotations(t) : x = y
    BY <1>8 DEF StateInv
  <2> QED
    BY <1>9, <1>11, <2>1, SameHost
<1>13. \A x : PresentOf(t, x) = PresentOf(s, x) /\ ComingOf(t, x) = ComingOf(s, x)
  BY <1>9, <1>11 DEF PresentOf, ComingOf, Present, Coming
<1>14. Issued(t) /\ Unissued(t)
  BY <1>5, <1>9, <1>12, <1>13 DEF Issued, Unissued, StateInv
<1>15. Records(t)
  BY <1>5, <1>10 DEF Records, StateInv
<1>16. StateInv(t)
  BY <1>6, <1>12, <1>14, <1>15 DEF StateInv
<1>17. NodesInv(t, h, i, a)
  <2>1. ASSUME NEW x \in ActiveNodes(t), NEW y \in ActiveRotations(t),
               y.steps[x] = "completed"
        PROVE  ComingOf(t, x) # {} /\ ComingOf(t, x) \subseteq h[x].ids
    <3>1. x \in Nodes /\ x \in ActiveNodes(s) /\ Acknowledged(s, h, a, x)
      BY <1>9, <2>1 DEF NodesInv, NodeInv, ActiveNodes
    <3>2. CASE x = n
      <4>1. m.cert \in ComingOf(s, x) /\ m.cert.scope \in PendingIds(s)
        BY <1>1, <3>2 DEF ComingOf, Coming
      <4>2. m.cert \in h[x].ids
        BY <1>1, <3>1, <3>2, <4>1 DEF Acknowledged
      <4>3. \A c \in ComingOf(s, x) : c = m.cert
        BY <3>1, <4>1 DEF StateInv, Issued
      <4> QED
        BY <1>13, <4>1, <4>2, <4>3
    <3>3. CASE x # n
      <4>1. o.steps[x] = "completed"
        BY <1>4, <1>8, <2>1, <3>1, <3>3
      <4> QED
        BY <1>7, <1>13, <3>1, <4>1 DEF Acknowledged
    <3> QED
      BY <3>2, <3>3
  <2>2. \A x \in Nodes : t.life[x] = "absent" => s.life[x] = "absent"
    BY <1>5
  <2> QED
    BY <1>9, <1>10, <1>12, <1>13, <2>1, <2>2, SameNodes
<1>18. \A x \in t.ops : \E y \in s.ops : x.id = y.id
  BY <1>3, <1>4, <1>5
<1> QED
  BY <1>5, <1>12, <1>16, <1>17, <1>18 DEF t

\* Distinct certificates have distinct references.
LEMMA RefsDistinct ==
  ASSUME NEW c, NEW d, c # d
  PROVE  Refs(c) \cap Refs(d) = {}
BY DEF Refs, CertRef, KeyRef

\* finish: one generation is left, and no rotation.
LEMMA FinishState ==
  ASSUME NEW s, NEW j, NEW h, NEW i, NEW a, NEW x,
         StateInv(s), NodesInv(s, h, i, a), FinishesFrom(s, j, x)
  PROVE  /\ StateInv(j.next) /\ NodesInv(j.next, h, i, a)
         /\ j.next.gen = s.gen + 1 /\ j.next.certs \subseteq s.certs
         /\ j.tls = RuntimeOf(j.next) /\ Material(j.next) \subseteq x
         /\ j.drop \cap HostRefs(j.next) = {}
         /\ \A q \in j.next.ops : \E y \in s.ops : q.id = y.id
         /\ \A c \in Present(j.next, "ca") :
              /\ c.ca \in Accepted(s)
              /\ \/ CurrentServer(s).ca = c.ca
                 \/ \A n \in ActiveNodes(j.next) :
                      i[n] = Null /\ CurrentServer(s).ca \in h[n].trust
<1> DEFINE t == j.next
<1>0. PICK o \in ActiveRotations(s), commit \in BOOLEAN : FinishesBy(s, j, x, o, commit)
  BY DEF FinishesFrom
<1> DEFINE gone == {c \in s.certs : commit # (c.scope = o.id)}
           p == [o EXCEPT !.status = IF commit THEN "completed" ELSE "failed"]
<1>1. /\ commit => Ready(s)
      /\ t = Candidate(s, (s.ops \ {o}) \cup {p}, s.certs \ gone)
      /\ j.drop = UNION {Refs(c) : c \in gone}
      /\ Material(t) \subseteq x
      /\ j.tls = RuntimeOf(t)
  BY <1>0 DEF FinishesBy
<1>2. s \in States /\ o \in s.ops /\ o \in Operations /\ Generations(s)
  <2>1. s \in States /\ o \in s.ops /\ Generations(s)
    BY DEF StateInv, ActiveRotations
  <2> QED
    BY <2>1, StateFields
<1>3. p \in Operations /\ p.id = o.id /\ p.status # "pending"
  BY <1>2 DEF Operations
<1>4. /\ t.gen = s.gen + 1 /\ t.certs = s.certs \ gone
      /\ t.ops = (s.ops \ {o}) \cup {p} /\ t.life = s.life /\ t.cred = s.cred
  BY <1>1, <1>2, CandidateFields
<1>5. t \in States
  <2>1. (s.ops \ {o}) \cup {p} \in SUBSET Operations /\ s.certs \ gone \in SUBSET Certificates
    BY <1>2, <1>3, StateFields
  <2> QED
    BY <1>1, <1>2, <2>1, CandidateType
<1> HIDE DEF p, t
<1>6. ActiveRotations(s) = {o} /\ PendingIds(s) = {o.id}
  <2>1. ActiveRotations(s) = {o}
    BY <1>2 DEF Generations
  <2> QED
    BY <2>1 DEF PendingIds
<1>7. ActiveRotations(t) = {} /\ PendingIds(t) = {}
  <2>1. \A y \in s.ops : y.status = "pending" => y = o
    BY <1>6 DEF ActiveRotations
  <2>2. ActiveRotations(t) = {}
    BY <1>3, <1>4, <2>1 DEF ActiveRotations
  <2> QED
    BY <2>2 DEF PendingIds
<1>8. ActiveNodes(t) = ActiveNodes(s)
  BY <1>4 DEF ActiveNodes
<1>9. KnownScopes(t) = KnownScopes(s)
  BY <1>2, <1>3, <1>4 DEF KnownScopes
<1>10. \A kind : Present(t, kind) = IF commit THEN Coming(s, kind) ELSE Present(s, kind)
  BY <1>4, <1>6, <1>7 DEF Present, Coming, OfKind
<1>11. \A n : PresentOf(t, n) = (IF commit THEN ComingOf(s, n) ELSE PresentOf(s, n))
             /\ ComingOf(t, n) = {}
  BY <1>7, <1>10 DEF PresentOf, ComingOf, Coming
<1>12. \A c \in Coming(s, "ca") \cup Coming(s, "server") \cup Coming(s, "node") : c.scope = o.id
  BY <1>6 DEF Coming
<1>13. PendingIds(s) # {}
  BY <1>6
<1>14. Generations(t)
  <2>1. CASE commit
    <3>1. Present(t, "ca") = Coming(s, "ca") /\ Present(t, "server") = Coming(s, "server")
      BY <1>10, <2>1
    <3>2. \A c \in Coming(s, "ca"), d \in Coming(s, "server") : d.ca = c.ca
      BY <1>2, <1>12 DEF Generations
    <3> QED
      BY <1>2, <1>7, <1>13, <3>1, <3>2 DEF Generations, Coming
  <2>2. CASE ~commit
    BY <1>2, <1>7, <1>10, <2>2 DEF Generations, Coming
  <2> QED
    BY <2>1, <2>2
<1>15. Records(t)
  BY <1>4, <1>9 DEF StateInv, Records
<1>16. ASSUME NEW n \in ActiveNodes(s), commit
       PROVE  /\ Single(ComingOf(s, n)) /\ ComingOf(s, n) \subseteq h[n].ids
              /\ h[n].trust = Accepted(s) /\ i[n] = Null
  <2>1. o.steps[n] = "completed"
    BY <1>1, <1>16 DEF Ready
  <2>2. NodeInv(s, h, i, a, n)
    BY <1>16 DEF NodesInv
  <2>3. ComingOf(s, n) # {} /\ ComingOf(s, n) \subseteq h[n].ids
    BY <2>1, <2>2 DEF NodeInv, Acknowledged
  <2>4. \A c, d \in ComingOf(s, n) : c = d
    BY <1>16 DEF StateInv, Issued
  <2>5. PICK c \in ComingOf(s, n) : c \in h[n].ids /\ c.scope \in PendingIds(s)
    BY <2>3 DEF ComingOf, Coming
  <2>6. h[n].trust = Accepted(s) /\ i[n] = Null
    BY <2>2, <2>5 DEF NodeInv, Updated
  <2> QED
    BY <2>3, <2>4, <2>6 DEF Single
<1>17. Issued(t)
  <2> SUFFICES ASSUME NEW n \in ActiveNodes(t)
               PROVE  /\ Single(PresentOf(t, n))
                      /\ \A c \in PresentOf(t, n) :
                           /\ c.serial = t.cred[n]
                           /\ \A d \in Present(t, "ca") : c.ca = d.ca
    BY <1>11 DEF Issued
  <2>1. n \in ActiveNodes(s) /\ Issued(s)
    BY <1>8 DEF StateInv
  <2>2. CASE commit
    <3>1. PresentOf(t, n) = ComingOf(s, n) /\ Present(t, "ca") = Coming(s, "ca")
      BY <1>10, <1>11, <2>2
    <3>2. \A c \in ComingOf(s, n) : c.serial = s.cred[n] /\ c.ca = c.scope /\ c.scope = o.id
      BY <1>12, <2>1 DEF Issued, ComingOf
    <3>3. \A d \in Coming(s, "ca") : d.ca = o.id
      BY <1>2, <1>12 DEF Generations
    <3> QED
      BY <1>4, <1>16, <2>1, <2>2, <3>1, <3>2, <3>3
  <2>3. CASE ~commit
    BY <1>4, <1>10, <1>11, <2>1, <2>3 DEF Issued
  <2> QED
    BY <2>2, <2>3
<1>18. StateInv(t)
  BY <1>4, <1>5, <1>14, <1>15, <1>17 DEF StateInv, Unissued
<1>19. ASSUME NEW n \in ActiveNodes(t)
       PROVE  NodeInv(t, h, i, a, n)
  <2>1. n \in ActiveNodes(s) /\ NodeInv(s, h, i, a, n)
    BY <1>8 DEF NodesInv
  <2>2. Updated(t, h, i, n) /\ Acknowledged(t, h, a, n)
    BY <1>7 DEF Updated, Acknowledged
  <2>3. Equipped(t, h, n) /\ Awaits(t, i, n)
    <3>1. CASE commit
      <4>1. \A c \in Coming(s, "ca") : c.ca \in Accepted(s)
        BY DEF Coming, Accepted
      <4> QED
        BY <1>10, <1>11, <1>16, <2>1, <3>1, <4>1 DEF Equipped, Awaits
    <3>2. CASE ~commit
      BY <1>7, <1>10, <1>11, <2>1, <3>2 DEF NodeInv, Equipped, Awaits
    <3> QED
      BY <3>1, <3>2
  <2> QED
    BY <2>2, <2>3 DEF NodeInv
<1>20. NodesInv(t, h, i, a)
  BY <1>4, <1>9, <1>19 DEF NodesInv, Scopes
<1>21. j.drop \cap HostRefs(t) = {}
  <2> SUFFICES ASSUME NEW r \in j.drop, NEW d \in t.certs, r \in Refs(d)
               PROVE  FALSE
    BY DEF HostRefs
  <2>1. PICK c \in gone : r \in Refs(c)
    BY <1>1
  <2>2. c # d
    BY <1>4
  <2> QED
    BY <2>1, <2>2, RefsDistinct
<1>22. \A q \in t.ops : \E y \in s.ops : q.id = y.id
  BY <1>2, <1>3, <1>4
<1>23. ASSUME NEW c \in Present(t, "ca")
       PROVE  /\ c.ca \in Accepted(s)
              /\ \/ CurrentServer(s).ca = c.ca
                 \/ \A n \in ActiveNodes(t) :
                      i[n] = Null /\ CurrentServer(s).ca \in h[n].trust
  <2>1. c.ca \in Accepted(s)
    BY <1>10, <1>23 DEF Present, Coming, Accepted
  <2>2. CurrentServer(s).ca \in Accepted(s)
    BY <1>2, InForce
  <2>3. CASE commit
    BY <1>8, <1>16, <2>1, <2>2, <2>3
  <2>4. CASE ~commit
    <3>1. c = CurrentCA(s)
      BY <1>2, <1>10, <1>23, <2>4, InForce
    <3> QED
      BY <1>2, <2>1, <3>1, InForce
  <2> QED
    BY <2>3, <2>4
<1> QED
  BY <1>1, <1>4, <1>18, <1>20, <1>21, <1>22, <1>23 DEF t

\* RenewIfNeeded: another leaf of the CA in force.
LEMMA RenewState ==
  ASSUME NEW s, NEW j, NEW r, NEW h, NEW i, NEW a,
         StateInv(s), NodesInv(s, h, i, a), RenewsFrom(s, j, r)
  PROVE  /\ StateInv(j.next) /\ NodesInv(j.next, h, i, a)
         /\ j.next.gen = s.gen + 1 /\ j.next.ops = s.ops
         /\ j.tls = RuntimeOf(j.next) /\ Present(j.next, "ca") = Present(s, "ca")
         /\ Material(j.next) \subseteq Material(s) \cup Wanted(j)
         /\ \A c \in OfKind(j.next, "server") : c \in s.certs \/ c.serial = r
<1> DEFINE t == j.next
<1>1. PICK b \in Present(s, "ca") :
        LET leaf == HostCertificate("server", b.ca, 0, r)
        IN /\ t = Candidate(s, s.ops, (s.certs \ Present(s, "server")) \cup {leaf})
           /\ {CertRef(leaf), KeyRef(leaf)} \subseteq Wanted(j)
           /\ j.tls = TLS(leaf, Accepted(s))
           /\ r \in 1..MaxRenewals
  BY DEF RenewsFrom
<1> DEFINE leaf == HostCertificate("server", b.ca, 0, r)
<1>2. s \in States /\ Generations(s) /\ b \in s.certs
  BY DEF StateInv, Present, OfKind
<1>3. /\ leaf.kind = "server" /\ leaf.owner = Host /\ leaf.ca = b.ca /\ leaf.scope = 0
      /\ leaf.serial = r
  BY DEF HostCertificate
<1>4. leaf \in Certificates
  <2>1. r \in 0..(MaxRenewals + MaxCredential) /\ 0 \in CAs
    BY <1>1, RotationAssumption DEF CAs
  <2>2. b.ca \in CAs
    BY <1>2, StateFields DEF Certificates
  <2> QED
    BY <2>1, <2>2 DEF HostCertificate, Certificates
<1>5. /\ t.gen = s.gen + 1 /\ t.certs = (s.certs \ Present(s, "server")) \cup {leaf}
      /\ t.ops = s.ops /\ t.life = s.life /\ t.cred = s.cred
  BY <1>1, <1>2, CandidateFields
<1>6. t \in States
  <2>1. s.ops \in SUBSET Operations
        /\ (s.certs \ Present(s, "server")) \cup {leaf} \in SUBSET Certificates
    BY <1>2, <1>4, StateFields
  <2> QED
    BY <1>1, <1>2, <2>1, CandidateType
<1> HIDE DEF leaf, t
<1>7. /\ ActiveRotations(t) = ActiveRotations(s) /\ PendingIds(t) = PendingIds(s)
      /\ KnownScopes(t) = KnownScopes(s) /\ ActiveNodes(t) = ActiveNodes(s)
  BY <1>5 DEF ActiveRotations, PendingIds, KnownScopes, ActiveNodes
<1>8. 0 \notin PendingIds(s)
  <2>1. \A o \in s.ops : o.id # 0
    BY <1>2, StateFields DEF Operations
  <2> QED
    BY <2>1 DEF PendingIds, ActiveRotations
<1>9. OfKind(t, "ca") = OfKind(s, "ca") /\ OfKind(t, "node") = OfKind(s, "node")
  BY <1>3, <1>5 DEF OfKind, Present
<1>10. /\ Present(t, "server") = {leaf} /\ Coming(t, "server") = Coming(s, "server")
  BY <1>3, <1>5, <1>7, <1>8 DEF Present, Coming, OfKind
<1>11. \A kind \in {"ca", "node"} :
         Present(t, kind) = Present(s, kind) /\ Coming(t, kind) = Coming(s, kind)
  BY <1>7, <1>9 DEF Present, Coming
<1>12. Generations(t)
  <2>1. \A c \in Present(t, "ca") : c = b
    BY <1>2, <1>11 DEF Generations, Single
  <2> QED
    BY <1>2, <1>3, <1>7, <1>10, <1>11, <2>1 DEF Generations, Single
<1>13. \A n : PresentOf(t, n) = PresentOf(s, n) /\ ComingOf(t, n) = ComingOf(s, n)
  BY <1>11 DEF PresentOf, ComingOf
<1>14. Records(t)
  <2>1. leaf.scope \in KnownScopes(t)
    BY <1>3 DEF KnownScopes
  <2> QED
    BY <1>3, <1>5, <1>7, <2>1 DEF StateInv, Records
<1>15. Issued(t) /\ Unissued(t)
  BY <1>5, <1>7, <1>11, <1>13 DEF StateInv, Issued, Unissued
<1>16. StateInv(t)
  BY <1>6, <1>12, <1>14, <1>15 DEF StateInv
<1>17. Accepted(t) = Accepted(s)
  BY <1>9 DEF Accepted
<1>18. NodesInv(t, h, i, a)
  <2>1. \A n \in ActiveNodes(s) : Acknowledged(s, h, a, n)
    BY DEF NodesInv, NodeInv
  <2>2. \A n \in ActiveNodes(t) : \A o \in ActiveRotations(t) : o.steps[n] = "completed" =>
           ComingOf(t, n) # {} /\ ComingOf(t, n) \subseteq h[n].ids
    BY <1>7, <1>13, <2>1 DEF Acknowledged
  <2> QED
    BY <1>5, <1>7, <1>11, <1>13, <1>17, <2>2, SameNodes
<1>19. j.tls = RuntimeOf(t)
  <2>1. CurrentServer(t) = leaf
    BY <1>10, <1>12, InForce
  <2>2. RuntimeOf(t) = TLS(leaf, Accepted(s))
    BY <1>12, <1>17, <2>1, InForce
  <2> QED
    BY <1>1, <2>2 DEF leaf
<1>20. Material(t) \subseteq Material(s) \cup Wanted(j)
  <2>1. CertRef(leaf) \in Wanted(j) /\ KeyRef(leaf) \in Wanted(j)
    BY <1>1 DEF leaf
  <2> QED
    BY <1>9, <1>10, <2>1 DEF Material
<1>21. \A c \in OfKind(t, "server") : c \in s.certs \/ c.serial = r
  BY <1>3, <1>5 DEF OfKind
<1>22. Present(t, "ca") = Present(s, "ca")
  BY <1>11
<1> QED
  BY <1>5, <1>16, <1>18, <1>19, <1>20, <1>21, <1>22 DEF t

LEMMA PairCardinality ==
  ASSUME NEW x, NEW y
  PROVE  Cardinality({x} \cup {y}) = IF x = y THEN 1 ELSE 2
<1> DEFINE S == {x}
<1>1. IsFiniteSet(S) /\ Cardinality(S) = 1
  BY FS_Singleton
<1>2. y \in S <=> x = y
  OBVIOUS
<1> HIDE DEF S
<1>3. Cardinality(S \cup {y}) = IF y \in S THEN Cardinality(S) ELSE Cardinality(S) + 1
  BY <1>1, FS_AddElement, Zenon
<1>4. Cardinality(S \cup {y}) = IF x = y THEN 1 ELSE 2
  BY <1>1, <1>2, <1>3
<1> QED
  BY <1>4 DEF S

\* With one CA recorded, no rotation is under way.
LEMMA OneCA ==
  ASSUME NEW s, Generations(s), Cardinality(OfKind(s, "ca")) = 1
  PROVE  PendingIds(s) = {}
<1> SUFFICES ASSUME PendingIds(s) # {}
             PROVE  FALSE
  OBVIOUS
<1>1. PICK x \in Present(s, "ca") : Present(s, "ca") = {x}
  BY DEF Generations, Single
<1>2. PICK y \in Coming(s, "ca") : Coming(s, "ca") = {y}
  BY DEF Generations, Single
<1>3. x # y
  BY <1>1, <1>2 DEF Present, Coming
<1>4. OfKind(s, "ca") = {x} \cup {y}
  <2>1. OfKind(s, "ca") = Present(s, "ca") \cup Coming(s, "ca")
    BY DEF Present, Coming
  <2> QED
    BY <2>1, <1>1, <1>2
<1> QED
  <2>1. Cardinality({x} \cup {y}) = 2
    BY <1>3, PairCardinality
  <2> QED
    BY <1>4, <2>1

LEMMA IssueFields ==
  ASSUME NEW s \in States, NEW n \in Nodes
  PROVE  LET t == IssueTo(s, n) IN
         /\ t.gen = s.gen + 1 /\ t.ops = s.ops
         /\ t.life = [s.life EXCEPT ![n] = "active"]
         /\ t.cred = [s.cred EXCEPT ![n] = @ + 1]
         /\ t.certs = (s.certs \ CertsOf(s, n)) \cup
                        {NodeCertificate(n, Sole(OfKind(s, "ca")).ca, 0, s.cred[n] + 1)}
BY DEF IssueTo, States

LEMMA IssueType ==
  ASSUME NEW s \in States, NEW n \in Nodes, s.cred[n] < MaxCredential,
         Sole(OfKind(s, "ca")).ca \in CAs
  PROVE  IssueTo(s, n) \in States
<1> DEFINE leaf == NodeCertificate(n, Sole(OfKind(s, "ca")).ca, 0, s.cred[n] + 1)
<1>1. s.cred[n] \in 0..MaxCredential /\ MaxRenewals \in Nat /\ MaxCredential \in Nat
      /\ MaxRotations \in Nat
  BY RotationAssumption DEF States
<1>2. s.cred[n] + 1 \in 0..MaxCredential /\ s.cred[n] + 1 \in 0..(MaxRenewals + MaxCredential)
  BY <1>1
<1>3. leaf \in Certificates
  BY <1>1, <1>2 DEF NodeCertificate, Certificates, CAs
<1>4. s.gen + 1 \in Nat /\ [s.life EXCEPT ![n] = "active"] \in [Nodes -> {"absent", "active", "revoked", "deleted"}]
      /\ [s.cred EXCEPT ![n] = @ + 1] \in [Nodes -> 0..MaxCredential]
      /\ (s.certs \ CertsOf(s, n)) \cup {leaf} \in SUBSET Certificates
  BY <1>2, <1>3 DEF States
<1>5. s.ops \in SUBSET Operations
  BY DEF States
<1> QED
  BY <1>4, <1>5 DEF IssueTo, leaf, States

\* Join and replacement: the node gets the only certificate it is recorded
\* with, and the CA in force with it.
LEMMA IssueState ==
  ASSUME NEW s, NEW h, NEW i, NEW a, NEW n \in Nodes,
         StateInv(s), NodesInv(s, h, i, a), Cardinality(OfKind(s, "ca")) = 1,
         s.cred[n] < MaxCredential, s.life[n] \in {"absent", "active"}
  PROVE  LET t == IssueTo(s, n) IN
         /\ StateInv(t) /\ NodesInv(t, [h EXCEPT ![n] = IssuedTo(n, t)], i, a)
         /\ t.gen = s.gen + 1 /\ t.ops = s.ops
         /\ RuntimeOf(t) = RuntimeOf(s) /\ Material(t) = Material(s)
         /\ HostRefs(t) = HostRefs(s) /\ OfKind(t, "server") = OfKind(s, "server")
         /\ \A c \in CertsOf(s, n) \cup CertsOf(t, n) : c.kind = "node"
         /\ CertsOf(t, n) \subseteq Certificates
<1> DEFINE t == IssueTo(s, n)
           ca == Sole(OfKind(s, "ca"))
           leaf == NodeCertificate(n, ca.ca, 0, s.cred[n] + 1)
           g == [h EXCEPT ![n] = IssuedTo(n, t)]
<1>1. s \in States /\ Generations(s) /\ n # Host
  BY RotationAssumption DEF StateInv
<1>2. PendingIds(s) = {} /\ ActiveRotations(s) = {}
  BY <1>1, OneCA, View
<1>3. OfKind(s, "ca") = {ca} /\ Present(s, "ca") = {ca}
  <2>1. Present(s, "ca") = OfKind(s, "ca")
    BY <1>2 DEF Present
  <2> QED
    BY <1>1, <2>1, SoleOf DEF Generations
<1>4. ca.ca \in CAs /\ ca \in s.certs
  <2>1. ca \in s.certs
    BY <1>3 DEF OfKind
  <2> QED
    BY <1>1, <2>1, StateFields DEF Certificates
<1>5. t \in States
  BY <1>1, <1>4, IssueType
<1>6. /\ t.gen = s.gen + 1 /\ t.ops = s.ops
      /\ t.life = [s.life EXCEPT ![n] = "active"]
      /\ t.cred = [s.cred EXCEPT ![n] = @ + 1]
      /\ t.certs = (s.certs \ CertsOf(s, n)) \cup {leaf}
  BY <1>1, IssueFields
<1>7. /\ leaf.kind = "node" /\ leaf.owner = n /\ leaf.ca = ca.ca /\ leaf.scope = 0
      /\ leaf.serial = s.cred[n] + 1
  BY DEF NodeCertificate
<1> HIDE DEF t, leaf, ca
<1>8. \A c \in s.certs : c.owner = n => c.kind = "node"
  BY <1>1 DEF StateInv, Records
<1>9. /\ ActiveRotations(t) = ActiveRotations(s) /\ PendingIds(t) = PendingIds(s)
      /\ KnownScopes(t) = KnownScopes(s)
  BY <1>6 DEF ActiveRotations, PendingIds, KnownScopes
<1>10. OfKind(t, "ca") = OfKind(s, "ca") /\ OfKind(t, "server") = OfKind(s, "server")
  BY <1>6, <1>7, <1>8 DEF OfKind, CertsOf
<1>11. /\ Generations(t) /\ Present(t, "ca") = Present(s, "ca")
       /\ Accepted(t) = Accepted(s) /\ Material(t) = Material(s)
       /\ RuntimeOf(t) = RuntimeOf(s)
  <2>1. \A x, y \in ActiveRotations(t) : x = y
    BY <1>2, <1>9
  <2> QED
    BY <1>1, <1>9, <1>10, <2>1, SameHost
<1>12. PresentOf(t, n) = {leaf} /\ CertsOf(t, n) = {leaf}
  BY <1>2, <1>6, <1>7, <1>9 DEF PresentOf, Present, OfKind, CertsOf
<1>13. \A m : m # n => PresentOf(t, m) = PresentOf(s, m)
  BY <1>6, <1>7, <1>9 DEF PresentOf, Present, OfKind, CertsOf
<1>14. \A m : ComingOf(t, m) = {}
  BY <1>2, <1>9 DEF ComingOf, Coming
<1>15. /\ t.cred[n] = s.cred[n] + 1 /\ t.life[n] = "active"
       /\ \A m \in Nodes : m # n => t.cred[m] = s.cred[m] /\ t.life[m] = s.life[m]
  BY <1>1, <1>6, StateFields
<1>16. \A m \in ActiveNodes(t) : m \in Nodes /\ (m # n => m \in ActiveNodes(s))
  BY <1>15 DEF ActiveNodes
<1>17. Issued(t)
  <2> SUFFICES ASSUME NEW m \in ActiveNodes(t)
               PROVE  /\ Single(PresentOf(t, m))
                      /\ \A c \in PresentOf(t, m) :
                           /\ c.serial = t.cred[m]
                           /\ \A d \in Present(t, "ca") : c.ca = d.ca
    BY <1>14 DEF Issued
  <2>1. CASE m = n
    BY <1>3, <1>7, <1>11, <1>12, <1>15, <2>1 DEF Single
  <2>2. CASE m # n
    <3>1. m \in ActiveNodes(s) /\ m \in Nodes /\ Issued(s)
      BY <1>16, <2>2 DEF StateInv
    <3> QED
      BY <1>11, <1>13, <1>15, <2>2, <3>1 DEF Issued
  <2> QED
    BY <2>1, <2>2
<1>18. Records(t) /\ Unissued(t)
  <2>1. leaf.scope \in KnownScopes(t)
    BY <1>7 DEF KnownScopes
  <2>2. Records(t)
    BY <1>1, <1>6, <1>7, <1>9, <2>1 DEF StateInv, Records
  <2>3. Unissued(t)
    BY <1>15 DEF StateInv, Unissued
  <2> QED
    BY <2>2, <2>3
<1>19. StateInv(t)
  BY <1>5, <1>11, <1>17, <1>18 DEF StateInv
<1>20. leaf \in Certificates
  BY <1>5, <1>6, StateFields
<1>21. IssuedTo(n, t) = [trust |-> {ca.ca}, ids |-> {leaf}]
  BY <1>3, <1>10, <1>12 DEF IssuedTo
<1>22. NodeTypes(h, i, a)
  BY DEF NodesInv
<1>23. /\ g[n] = [trust |-> {ca.ca}, ids |-> {leaf}]
       /\ \A m \in Nodes : m # n => g[m] = h[m]
  BY <1>21, <1>22 DEF NodeTypes
<1>24. NodeTypes(g, i, a)
  <2>1. [trust |-> {ca.ca}, ids |-> {leaf}] \in [trust : SUBSET CAs, ids : SUBSET Certificates]
    BY <1>4, <1>20
  <2> QED
    BY <1>21, <1>22, <2>1 DEF NodeTypes
<1> HIDE DEF g
<1>25. Scopes(t, g, i, a)
  <2>1. Scopes(s, h, i, a) /\ 0 \in KnownScopes(t)
    BY DEF NodesInv, KnownScopes
  <2> QED
    BY <1>7, <1>9, <1>23, <2>1 DEF Scopes
<1>26. ASSUME NEW m \in ActiveNodes(t)
       PROVE  NodeInv(t, g, i, a, m)
  <2>1. Updated(t, g, i, m) /\ Acknowledged(t, g, a, m)
    BY <1>2, <1>9 DEF Updated, Acknowledged
  <2>2. m \in Nodes
    BY <1>16
  <2>3. CASE m = n
    <3>1. Equipped(t, g, m)
      BY <1>3, <1>11, <1>12, <1>23, <2>3 DEF Equipped
    <3>2. Awaits(t, i, m)
      <4>1. CASE s.life[n] = "absent"
        BY <2>3, <4>1 DEF NodesInv, Awaits
      <4>2. CASE s.life[n] = "active"
        <5>1. Awaits(s, i, n)
          BY <4>2 DEF NodesInv, NodeInv, ActiveNodes
        <5> QED
          BY <1>2, <1>9, <1>11, <2>3, <5>1 DEF Awaits
      <4> QED
        BY <4>1, <4>2
    <3> QED
      BY <2>1, <3>1, <3>2 DEF NodeInv
  <2>4. CASE m # n
    <3>1. NodeInv(s, h, i, a, m)
      BY <1>16, <2>4 DEF NodesInv
    <3> QED
      BY <1>2, <1>9, <1>11, <1>13, <1>23, <2>1, <2>2, <2>4, <3>1
         DEF NodeInv, Equipped, Awaits
  <2> QED
    BY <2>3, <2>4
<1>27. \A m \in Nodes : t.life[m] = "absent" => i[m] = Null
  BY <1>15 DEF NodesInv
<1>28. NodesInv(t, g, i, a)
  BY <1>24, <1>25, <1>26, <1>27 DEF NodesInv
<1>29. HostRefs(t) = HostRefs(s)
  BY <1>1, <1>5, <1>10, SameHostRefs
<1>30. \A c \in CertsOf(s, n) \cup CertsOf(t, n) : c.kind = "node"
  BY <1>7, <1>8, <1>12 DEF CertsOf
<1> QED
  BY <1>6, <1>10, <1>11, <1>12, <1>19, <1>20, <1>28, <1>29, <1>30 DEF t, g

-----------------------------------------------------------------------------
(* What the invariant says of the properties.                              *)

LEMMA MaterialIsHost ==
  ASSUME NEW s
  PROVE  Material(s) \subseteq HostRefs(s)
BY DEF Material, HostRefs, Refs, OfKind, Present, CertRef, KeyRef

\* A listener with the leaf and the CAs in force.
LEMMA RuntimeType ==
  ASSUME NEW s, StateInv(s)
  PROVE  /\ RuntimeOf(s) \in TLSStates /\ RuntimeOf(s) # Null
         /\ Cardinality(RuntimeOf(s).cas) \in 1..2
         /\ ValidTLS(RuntimeOf(s))
         /\ RuntimeOf(s).leaf = CurrentServer(s) /\ RuntimeOf(s).cas = Accepted(s)
<1>1. Generations(s) /\ s \in States
  BY DEF StateInv
<1>2. RuntimeOf(s) = TLS(CurrentServer(s), Accepted(s))
  BY <1>1, InForce
<1>3. CurrentServer(s) \in s.certs
  BY <1>1, InForce DEF Present, OfKind
<1>4. CurrentServer(s) \in Certificates
  BY <1>1, <1>3, StateFields
<1>5. Accepted(s) \in SUBSET CAs
  BY <1>1, StateFields DEF Accepted, OfKind, Certificates
<1>6. /\ RuntimeOf(s) \in TLSStates
      /\ RuntimeOf(s).leaf = CurrentServer(s) /\ RuntimeOf(s).cas = Accepted(s)
  BY <1>2, <1>4, <1>5 DEF TLS, TLSStates
<1>7. RuntimeOf(s) # Null
  BY <1>6, NullAssumption
<1>8. ValidTLS(RuntimeOf(s))
  BY <1>1, <1>6, InForce DEF ValidTLS
<1>9. \E x, y : Accepted(s) = {x} \cup {y}
  <2>1. OfKind(s, "ca") = Present(s, "ca") \cup Coming(s, "ca")
    BY DEF Present, Coming
  <2>2. PICK b \in Present(s, "ca") : Present(s, "ca") = {b}
    BY <1>1 DEF Generations, Single
  <2>3. CASE PendingIds(s) = {}
    <3>1. OfKind(s, "ca") = {b}
      BY <2>1, <2>2, <2>3 DEF Coming
    <3>2. Accepted(s) = {b.ca} \cup {b.ca}
      BY <3>1 DEF Accepted
    <3> QED
      BY <3>2
  <2>4. CASE PendingIds(s) # {}
    <3>1. PICK c \in Coming(s, "ca") : Coming(s, "ca") = {c}
      BY <1>1, <2>4 DEF Generations, Single
    <3>2. OfKind(s, "ca") = {b} \cup {c}
      BY <2>1, <2>2, <3>1
    <3>3. Accepted(s) = {b.ca} \cup {c.ca}
      BY <3>2 DEF Accepted
    <3> QED
      BY <3>3
  <2> QED
    BY <2>3, <2>4
<1>10. Cardinality(RuntimeOf(s).cas) \in 1..2
  <2>1. PICK x, y : Accepted(s) = {x} \cup {y}
    BY <1>9
  <2>2. Cardinality({x} \cup {y}) \in 1..2
    <3>1. Cardinality({x} \cup {y}) = IF x = y THEN 1 ELSE 2
      BY PairCardinality
    <3>2. CASE x = y
      BY <3>1, <3>2
    <3>3. CASE x # y
      BY <3>1, <3>3
    <3> QED
      BY <3>2, <3>3
  <2> QED
    BY <1>6, <2>1, <2>2
<1> QED
  BY <1>6, <1>7, <1>8, <1>10

LEMMA RotationInvType ==
  RotationInv => TypeOK
<1> SUFFICES ASSUME RotationInv
             PROVE  TypeOK
  OBVIOUS
<1>1. state \in States /\ StateInv(state)
  BY DEF RotationInv, StateInv
<1>2. NodeTypes(holds, inbox, acks)
  BY DEF RotationInv, NodesInv
<1>3. secrets \subseteq References
  BY DEF RotationInv, SecretsInv
<1>4. listener \in TLSStates \cup {Null}
      /\ (listener # Null => Cardinality(listener.cas) \in 1..2)
  <2>1. CASE job = Null \/ (job # Null /\ job.pc # "activate")
    <3>1. listener = Null \/ listener = RuntimeOf(state)
      BY <2>1 DEF RotationInv, ListenerInv, JobInv
    <3> QED
      BY <1>1, <3>1, RuntimeType
  <2>2. CASE job # Null /\ job.pc = "activate"
    BY <2>2 DEF RotationInv, ListenerInv, JobInv, AtActivate
  <2> QED
    BY <2>1, <2>2
<1>5. job \in Jobs \cup {Null}
  BY DEF RotationInv, ListenerInv, JobInv
<1>6. writer \in [kind : WriteKinds, node : Nodes, base : Nat] \cup {Null}
  BY DEF RotationInv, WriterInv
<1>7. minted \in 0..MaxRotations /\ renewed \in 0..MaxRenewals /\ faults \in 0..MaxFaults
  BY DEF RotationInv, CountsInv
<1> QED
  BY <1>1, <1>2, <1>3, <1>4, <1>5, <1>6, <1>7 DEF TypeOK, NodeTypes, WriteKinds

LEMMA RotationInvIdentity ==
  RotationInv => IdentitySound
<1> SUFFICES ASSUME RotationInv
             PROVE  IdentitySound
  OBVIOUS
<1>1. StateInv(state) /\ Generations(state)
  BY DEF RotationInv, StateInv
<1>2. IdentityLoadable
  BY <1>1, Startable DEF RotationInv, SecretsInv, IdentityLoadable
<1>3. IdentityConsistent
  <2>1. Cardinality(ActiveRotations(state)) <= 1
    BY <1>1, View
  <2>2. ASSUME ActiveRotations(state) = {}
        PROVE  /\ SoleCAAndServer(state)
               /\ CurrentServer(state).ca = CurrentCA(state).ca
               /\ \A n \in ActiveNodes(state) :
                    /\ Cardinality(CertsOf(state, n)) = 1
                    /\ \A c \in CertsOf(state, n) :
                         c.serial = state.cred[n] /\ c.ca = CurrentCA(state).ca
    <3>1. PendingIds(state) = {}
      BY <2>2 DEF PendingIds
    <3>2. SoleCAAndServer(state)
      BY <1>1, <3>1, View, SoleOf DEF Generations, SoleCAAndServer
    <3>3. CurrentServer(state).ca = CurrentCA(state).ca
      BY <1>1, InForce
    <3>4. ASSUME NEW n \in ActiveNodes(state)
          PROVE  /\ Cardinality(CertsOf(state, n)) = 1
                 /\ \A c \in CertsOf(state, n) :
                      c.serial = state.cred[n] /\ c.ca = CurrentCA(state).ca
      <4>1. n # Host
        BY RotationAssumption DEF ActiveNodes
      <4>2. CertsOf(state, n) = PresentOf(state, n)
        BY <1>1, <3>1, <4>1 DEF CertsOf, PresentOf, Present, OfKind, StateInv, Records
      <4>3. /\ Single(PresentOf(state, n))
            /\ \A c \in PresentOf(state, n) :
                 c.serial = state.cred[n] /\ \A a \in Present(state, "ca") : c.ca = a.ca
        BY <1>1 DEF StateInv, Issued
      <4> QED
        BY <1>1, <4>2, <4>3, SoleOf, InForce
    <3> QED
      BY <3>2, <3>3, <3>4
  <2> QED
    BY <2>1, <2>2 DEF IdentityConsistent
<1>4. RuntimeMatchesState
  BY DEF RotationInv, ListenerInv, JobInv, RuntimeMatchesState, Idle
<1> QED
  BY <1>2, <1>3, <1>4, RotationInvType DEF IdentitySound

LEMMA RotationInvManageable ==
  RotationInv => NodesManageable
<1> SUFFICES ASSUME RotationInv, listener # Null, NEW n \in ActiveNodes(state)
             PROVE  \E c \in holds[n].ids : Connects(n, c)
  BY DEF NodesManageable
<1>1. StateInv(state) /\ Generations(state) /\ NodeInv(state, holds, inbox, acks, n)
  BY DEF RotationInv, StateInv, NodesInv
<1>2. PICK c \in PresentOf(state, n) : TRUE
  BY <1>1 DEF StateInv, Issued, Single
<1>3. /\ c.serial = state.cred[n] /\ c.ca = CurrentCA(state).ca
      /\ c \in state.certs /\ c.kind = "node" /\ c.owner = n
      /\ c \in holds[n].ids /\ CurrentCA(state).ca \in holds[n].trust
  <2>1. CurrentCA(state) \in Present(state, "ca")
    BY <1>1, InForce
  <2> QED
    BY <1>1, <2>1 DEF StateInv, Issued, NodeInv, Equipped, PresentOf, Present, OfKind
<1>4. state.life[n] = "active"
  BY DEF ActiveNodes
<1>5. Authorized(state, n, c)
  BY <1>3, <1>4 DEF Authorized
<1>6. CASE listener = RuntimeOf(state)
  <2>1. listener.leaf.ca = CurrentCA(state).ca /\ CurrentCA(state).ca \in listener.cas
    BY <1>1, <1>6, RuntimeType, InForce
  <2> QED
    BY <1>3, <1>5, <2>1 DEF Connects
<1>7. CASE job # Null /\ job.pc = "activate"
  <2>1. CurrentCA(state) \in Present(state, "ca") /\ AtActivate
    BY <1>1, <1>7, InForce DEF RotationInv, ListenerInv, JobInv
  <2>2. CurrentCA(state).ca \in listener.cas /\ listener.leaf.ca \in holds[n].trust
    BY <1>3, <2>1 DEF AtActivate
  <2> QED
    BY <1>3, <1>5, <2>2 DEF Connects
<1> QED
  BY <1>6, <1>7 DEF RotationInv, ListenerInv, JobInv

-----------------------------------------------------------------------------
LEMMA RotationInvInit ==
  Init => RotationInv
<1> SUFFICES ASSUME Init
             PROVE  RotationInv
  OBVIOUS
<1> DEFINE ca == HostCertificate("ca", 0, 0, 0)
           server == HostCertificate("server", 0, 0, 0)
           member(n) == NodeCertificate(n, 0, 0, 1)
<1>1. /\ MaxRotations \in Nat /\ MaxRenewals \in Nat /\ MaxCredential \in Nat
      /\ MaxFaults \in Nat /\ MaxCredential > 0 /\ Members \subseteq Nodes /\ Host \notin Nodes
  BY RotationAssumption
<1>2. /\ 0 \in CAs /\ 0 \in 0..(MaxRenewals + MaxCredential)
      /\ 1 \in 0..(MaxRenewals + MaxCredential) /\ 1 \in 0..MaxCredential /\ 0 \in 0..MaxCredential
  BY <1>1 DEF CAs
<1>3. /\ ca \in Certificates /\ ca.kind = "ca" /\ ca.owner = Host /\ ca.scope = 0
      /\ ca.ca = 0 /\ ca.serial = 0
      /\ server \in Certificates /\ server.kind = "server" /\ server.owner = Host
      /\ server.scope = 0 /\ server.ca = 0 /\ server.serial = 0
  BY <1>2 DEF HostCertificate, Certificates
<1>4. ASSUME NEW n \in Members
      PROVE  /\ member(n) \in Certificates /\ member(n).kind = "node" /\ member(n).owner = n
             /\ member(n).scope = 0 /\ member(n).ca = 0 /\ member(n).serial = 1
  <2>1. n \in Nodes
    BY <1>1
  <2> QED
    BY <1>2, <2>1 DEF NodeCertificate, Certificates
<1>5. InitialCerts = {ca, server} \cup {member(n) : n \in Members}
  BY DEF InitialCerts
<1> HIDE DEF ca, server, member
<1>6. /\ state.gen = 1 /\ state.ops = {} /\ state.certs = InitialCerts
      /\ state.life = [n \in Nodes |-> IF n \in Members THEN "active" ELSE "absent"]
      /\ state.cred = [n \in Nodes |-> IF n \in Members THEN 1 ELSE 0]
  BY DEF Init
<1>7. InitialCerts \subseteq Certificates
  BY <1>3, <1>4, <1>5
<1>8. state \in States
  BY <1>2, <1>7 DEF Init, States
<1>9. ActiveRotations(state) = {} /\ PendingIds(state) = {} /\ KnownScopes(state) = {0}
  BY <1>6 DEF ActiveRotations, PendingIds, KnownScopes
<1>10. ActiveNodes(state) = Members
  BY <1>1, <1>6 DEF ActiveNodes
<1>11. /\ OfKind(state, "ca") = {ca} /\ OfKind(state, "server") = {server}
       /\ Present(state, "ca") = {ca} /\ Present(state, "server") = {server}
       /\ \A kind : Coming(state, kind) = {}
  BY <1>3, <1>4, <1>5, <1>6, <1>9 DEF OfKind, Present, Coming
<1>12. \A n \in Members : PresentOf(state, n) = {member(n)}
  BY <1>1, <1>3, <1>4, <1>5, <1>6, <1>9 DEF PresentOf, Present, OfKind
<1>13. \A n : ComingOf(state, n) = {}
  BY <1>11 DEF ComingOf
<1>14. Generations(state)
  BY <1>3, <1>9, <1>11 DEF Generations, Single
<1>15. Records(state)
  <2>1. \A n \in Members : n # Host
    BY <1>1
  <2> QED
    BY <1>3, <1>4, <1>5, <1>6, <1>9, <2>1 DEF Records
<1>16. Issued(state)
  <2>1. \A n \in Members : state.cred[n] = 1
    BY <1>1, <1>6
  <2> QED
    BY <1>3, <1>4, <1>10, <1>11, <1>12, <1>13, <2>1 DEF Issued, Single
<1>17. Unissued(state)
  BY <1>6 DEF Unissued
<1>18. StateInv(state)
  BY <1>8, <1>14, <1>15, <1>16, <1>17 DEF StateInv
<1>19. /\ holds = [n \in Nodes |-> IF n \in Members THEN [trust |-> {0}, ids |-> {member(n)}]
                                   ELSE [trust |-> {}, ids |-> {}]]
       /\ inbox = [n \in Nodes |-> Null] /\ acks = {}
  BY DEF Init, member
<1>20. NodeTypes(holds, inbox, acks)
  BY <1>2, <1>4, <1>19 DEF NodeTypes
<1>21. Scopes(state, holds, inbox, acks)
  BY <1>4, <1>9, <1>19 DEF Scopes
<1>22. ASSUME NEW n \in ActiveNodes(state)
       PROVE  NodeInv(state, holds, inbox, acks, n)
  <2>1. n \in Nodes /\ holds[n] = [trust |-> {0}, ids |-> {member(n)}] /\ inbox[n] = Null
    BY <1>1, <1>10, <1>19
  <2> QED
    BY <1>3, <1>9, <1>10, <1>11, <1>12, <2>1
       DEF NodeInv, Equipped, Awaits, Updated, Acknowledged
<1>23. NodesInv(state, holds, inbox, acks)
  BY <1>19, <1>20, <1>21, <1>22 DEF NodesInv
<1>24. SecretsInv(state, secrets)
  <2>1. secrets = UNION {Refs(c) : c \in InitialCerts}
    BY DEF Init
  <2>2. secrets \subseteq References
    BY <1>7, <2>1 DEF Refs, CertRef, KeyRef, References
  <2>3. Material(state) \subseteq secrets
    BY <1>6, <2>1, MaterialIsHost DEF HostRefs
  <2> QED
    BY <2>2, <2>3 DEF SecretsInv
<1>25. CountsInv
  BY <1>1, <1>3, <1>6, <1>11 DEF CountsInv, Init
<1>26. ListenerInv
  <2>1. CurrentServer(state) = server
    BY <1>11, <1>14, InForce
  <2>2. Accepted(state) = {0}
    BY <1>3, <1>11 DEF Accepted
  <2>3. listener = RuntimeOf(state)
    BY <1>14, <2>1, <2>2, InForce DEF Init, server
  <2> QED
    BY <2>3 DEF ListenerInv, Init
<1>27. WriterInv
  BY DEF WriterInv, Init
<1> QED
  BY <1>18, <1>23, <1>24, <1>25, <1>26, <1>27 DEF RotationInv

-----------------------------------------------------------------------------
(* What a step leaves as it was.                                           *)

LEMMA FinishesWithMore ==
  ASSUME NEW s, NEW j, NEW k, NEW x, NEW y, FinishesFrom(s, j, x), x \subseteq y,
         k.next = j.next, k.drop = j.drop, k.tls = j.tls
  PROVE  FinishesFrom(s, k, y)
<1>1. PICK o \in ActiveRotations(s), commit \in BOOLEAN : FinishesBy(s, j, x, o, commit)
  BY DEF FinishesFrom
<1>2. FinishesBy(s, k, y, o, commit)
  BY <1>1 DEF FinishesBy
<1> QED
  BY <1>2 DEF FinishesFrom

LEMMA FollowsOn ==
  ASSUME Follows(state, job), state' = state, job.kind \in {"stage", "update", "ack", "finish", "renew"},
         job'.kind = job.kind, job'.node = job.node, job'.next = job.next,
         job'.tls = job.tls, job'.drop = job.drop, Wanted(job)' = Wanted(job),
         minted' = minted, renewed' = renewed, acks \subseteq acks', secrets \subseteq secrets',
         job.node \in Nodes => (inbox[job.node] = Null => inbox'[job.node] = Null)
  PROVE  Follows(state, job)'
<1>1. CASE job.kind = "stage"
  BY <1>1 DEF Follows, StagesFrom
<1>2. CASE job.kind = "update"
  <2>1. UpdatesFrom(state, job, inbox) /\ job.node \in Nodes
    BY <1>2 DEF Follows, UpdatesFrom, ActiveNodes
  <2>2. UpdatesFrom(state, job, inbox)'
    BY <2>1 DEF UpdatesFrom
  <2> QED
    BY <1>2, <2>2 DEF Follows
<1>3. CASE job.kind = "ack"
  <2>1. AcknowledgesFrom(state, job, acks)
    BY <1>3 DEF Follows
  <2>2. AcknowledgesFrom(state, job, acks)'
    BY <2>1 DEF AcknowledgesFrom
  <2> QED
    BY <1>3, <2>2 DEF Follows
<1>4. CASE job.kind = "finish"
  <2>1. FinishesFrom(state, job, secrets)
    BY <1>4 DEF Follows
  <2>2. FinishesFrom(state, job', secrets')
    BY <2>1, FinishesWithMore
  <2>3. FinishesFrom(state, job, secrets)'
    BY <2>2
  <2> QED
    BY <1>4, <2>3 DEF Follows
<1>5. CASE job.kind = "renew"
  BY <1>5 DEF Follows, RenewsFrom
<1> QED
  BY <1>1, <1>2, <1>3, <1>4, <1>5

LEMMA WriterOn ==
  ASSUME WriterInv, state' = state, writer' = writer, listener # Null => listener' # Null
  PROVE  WriterInv'
BY DEF WriterInv

\* A step of a node leaves the operation at work as it was.
LEMMA JobAlongNodes ==
  ASSUME JobInv, job # Null, StateInv(state),
         UNCHANGED <<state, secrets, listener, job, minted, renewed>>, acks \subseteq acks',
         \A n \in Nodes : inbox[n] = Null =>
           inbox'[n] = Null /\ holds'[n].ids \subseteq holds[n].ids,
         job.kind = "finish" => \A n \in Nodes : inbox[n] = Null => holds'[n] = holds[n]
  PROVE  JobInv'
<1>1. job \in Jobs
  BY DEF JobInv
<1>2. ASSUME job.pc = "put"
      PROVE  AtPut'
  <2>1. AtPut /\ Wanted(job)' = Wanted(job)
    BY <1>2 DEF JobInv
  <2>2. job.kind \in {"stage", "update", "ack", "finish", "renew"}
    BY <1>1 DEF Jobs
  <2>3. Follows(state, job) => Follows(state, job)'
    BY <2>1, <2>2, FollowsOn
  <2> QED
    BY <2>1, <2>3 DEF AtPut
<1>3. ASSUME job.pc = "activate"
      PROVE  AtActivate'
  <2>1. AtActivate
    BY <1>3 DEF JobInv
  <2>2. ASSUME NEW c \in Present(state, "ca")
        PROVE  \/ listener.leaf.ca = c.ca
               \/ /\ job.kind = "finish"
                  /\ \A n \in ActiveNodes(state) :
                       inbox'[n] = Null /\ listener.leaf.ca \in holds'[n].trust
    <3>1. CASE listener.leaf.ca = c.ca
      BY <3>1
    <3>2. CASE /\ job.kind = "finish"
               /\ \A n \in ActiveNodes(state) :
                    inbox[n] = Null /\ listener.leaf.ca \in holds[n].trust
      <4>1. \A n \in ActiveNodes(state) : n \in Nodes
        BY DEF ActiveNodes
      <4> QED
        BY <3>2, <4>1
    <3> QED
      BY <2>1, <3>1, <3>2 DEF AtActivate
  <2> QED
    BY <2>1, <2>2 DEF AtActivate
<1>4. ASSUME job.pc = "answer"
      PROVE  AtAnswer'
  <2>1. AtAnswer
    BY <1>4 DEF JobInv
  <2>2. holds'[job.node].ids \subseteq holds[job.node].ids /\ inbox'[job.node] = Null
    BY <2>1 DEF AtAnswer
  <2> QED
    BY <2>1, <2>2 DEF AtAnswer
<1> QED
  BY <1>2, <1>3, <1>4 DEF JobInv, AtCleanup, AtReturn

-----------------------------------------------------------------------------
(* The steps of the nodes.                                                 *)

LEMMA InstallNodes ==
  ASSUME NEW s, NEW h, NEW i, NEW a, NEW n \in Nodes, NodesInv(s, h, i, a), i[n] # Null
  PROVE  NodesInv(s, [h EXCEPT ![n] = [trust |-> i[n].bundle, ids |-> @.ids \cup {i[n].cert}]],
                  [i EXCEPT ![n] = Null], a)
<1> DEFINE g == [h EXCEPT ![n] = [trust |-> i[n].bundle, ids |-> @.ids \cup {i[n].cert}]]
           k == [i EXCEPT ![n] = Null]
<1>1. NodeTypes(h, i, a) /\ Scopes(s, h, i, a)
  BY DEF NodesInv
<1>2. i[n] \in Updates /\ h[n] \in [trust : SUBSET CAs, ids : SUBSET Certificates]
  BY <1>1 DEF NodeTypes
<1>3. [trust |-> i[n].bundle, ids |-> h[n].ids \cup {i[n].cert}]
        \in [trust : SUBSET CAs, ids : SUBSET Certificates]
  BY <1>2 DEF Updates
<1>4. NodeTypes(g, k, a)
  BY <1>1, <1>3 DEF NodeTypes
<1>5. /\ g[n].trust = i[n].bundle /\ g[n].ids = h[n].ids \cup {i[n].cert} /\ k[n] = Null
      /\ \A m \in Nodes : m # n => g[m] = h[m] /\ k[m] = i[m]
  BY <1>1 DEF NodeTypes
<1> HIDE DEF g, k
<1>6. Scopes(s, g, k, a)
  BY <1>1, <1>5 DEF Scopes
<1>7. ASSUME NEW m \in ActiveNodes(s)
      PROVE  NodeInv(s, g, k, a, m)
  <2>1. NodeInv(s, h, i, a, m) /\ m \in Nodes
    BY DEF NodesInv, ActiveNodes
  <2>2. CASE m = n
    <3>1. Equipped(s, g, m) /\ Awaits(s, k, m)
      BY <1>5, <2>1, <2>2 DEF NodeInv, Equipped, Awaits
    <3>2. Updated(s, g, k, m)
      BY <1>5, <2>1, <2>2 DEF NodeInv, Awaits, Updated
    <3>3. Acknowledged(s, g, a, m)
      BY <1>5, <2>1, <2>2 DEF NodeInv, Acknowledged
    <3> QED
      BY <3>1, <3>2, <3>3 DEF NodeInv
  <2>3. CASE m # n
    BY <1>5, <2>1, <2>3 DEF NodeInv, Equipped, Awaits, Updated, Acknowledged
  <2> QED
    BY <2>2, <2>3
<1>8. \A m \in Nodes : s.life[m] = "absent" => k[m] = Null
  BY <1>5 DEF NodesInv
<1>9. NodesInv(s, g, k, a)
  BY <1>4, <1>6, <1>7, <1>8 DEF NodesInv
<1> QED
  BY <1>9 DEF g, k

LEMMA ShrinkNodes ==
  ASSUME NEW s, NEW h, NEW i, NEW a, NEW n \in Nodes, StateInv(s), NodesInv(s, h, i, a),
         ActiveRotations(s) = {}
  PROVE  NodesInv(s, [h EXCEPT ![n] = [trust |-> {CurrentCA(s).ca}, ids |-> @.ids \cap s.certs]],
                  i, a)
<1> DEFINE g == [h EXCEPT ![n] = [trust |-> {CurrentCA(s).ca}, ids |-> @.ids \cap s.certs]]
<1>1. NodeTypes(h, i, a) /\ Scopes(s, h, i, a)
  BY DEF NodesInv
<1>2. Present(s, "ca") = {CurrentCA(s)} /\ s \in States
  BY InForce DEF StateInv
<1>3. CurrentCA(s).ca \in CAs
  <2>1. CurrentCA(s) \in s.certs
    BY <1>2 DEF Present, OfKind
  <2> QED
    BY <1>2, <2>1, StateFields DEF Certificates
<1>4. NodeTypes(g, i, a)
  BY <1>1, <1>3 DEF NodeTypes
<1>5. /\ g[n].trust = {CurrentCA(s).ca} /\ g[n].ids = h[n].ids \cap s.certs
      /\ \A m \in Nodes : m # n => g[m] = h[m]
  BY <1>1 DEF NodeTypes
<1> HIDE DEF g
<1>6. Scopes(s, g, i, a)
  BY <1>1, <1>5 DEF Scopes
<1>7. ASSUME NEW m \in ActiveNodes(s)
      PROVE  NodeInv(s, g, i, a, m)
  <2>1. NodeInv(s, h, i, a, m) /\ m \in Nodes
    BY DEF NodesInv, ActiveNodes
  <2>2. Updated(s, g, i, m) /\ Acknowledged(s, g, a, m)
    BY DEF Updated, Acknowledged, PendingIds
  <2>3. PresentOf(s, m) \subseteq s.certs
    BY DEF PresentOf, Present, OfKind
  <2>4. Equipped(s, g, m)
    BY <1>2, <1>5, <2>1, <2>3 DEF NodeInv, Equipped
  <2> QED
    BY <2>1, <2>2, <2>4 DEF NodeInv
<1>8. NodesInv(s, g, i, a)
  BY <1>4, <1>6, <1>7 DEF NodesInv
<1> QED
  BY <1>8 DEF g

LEMMA NodeStep ==
  ASSUME RotationInv, NEW n \in Nodes, Install(n) \/ SendAcknowledgement(n) \/ Shrink(n)
  PROVE  RotationInv'
<1>1. /\ UNCHANGED <<state, secrets, listener, job, writer, minted, renewed, faults>>
      /\ StateInv(state) /\ NodesInv(state, holds, inbox, acks)
      /\ NodeTypes(holds, inbox, acks)
  BY DEF Install, SendAcknowledgement, Shrink, RotationInv, NodesInv
<1>2. /\ NodesInv(state, holds', inbox', acks') /\ acks \subseteq acks'
      /\ \A m \in Nodes : inbox[m] = Null =>
           inbox'[m] = Null /\ holds'[m].ids \subseteq holds[m].ids
      /\ (job # Null /\ job.kind = "finish") =>
           \A m \in Nodes : inbox[m] = Null => holds'[m] = holds[m]
  <2>1. CASE Install(n)
    <3>1. NodesInv(state, holds', inbox', acks')
      BY <1>1, <2>1, InstallNodes DEF Install
    <3> QED
      BY <1>1, <2>1, <3>1 DEF Install, NodeTypes
  <2>2. CASE SendAcknowledgement(n)
    <3>1. PICK c \in holds[n].ids : acks' = acks \cup {[node |-> n, cert |-> c]}
      BY <2>2 DEF SendAcknowledgement
    <3>2. holds' = holds /\ inbox' = inbox
      BY <2>2 DEF SendAcknowledgement
    <3>3. c \in Certificates /\ c.scope \in KnownScopes(state)
      BY <1>1, <3>1 DEF NodeTypes, NodesInv, Scopes
    <3>4. NodeTypes(holds, inbox, acks')
      BY <1>1, <3>1, <3>3 DEF NodeTypes
    <3>5. Scopes(state, holds, inbox, acks')
      BY <1>1, <3>1, <3>3 DEF NodesInv, Scopes
    <3>6. ASSUME NEW m \in ActiveNodes(state)
          PROVE  NodeInv(state, holds, inbox, acks', m)
      <4>1. NodeInv(state, holds, inbox, acks, m)
        BY <1>1 DEF NodesInv
      <4>2. Acknowledged(state, holds, acks', m)
        BY <3>1, <4>1 DEF NodeInv, Acknowledged
      <4> QED
        BY <4>1, <4>2 DEF NodeInv
    <3> QED
      BY <1>1, <3>1, <3>2, <3>4, <3>5, <3>6 DEF NodesInv
  <2>3. CASE Shrink(n)
    <3>1. NodesInv(state, holds', inbox', acks')
      BY <1>1, <2>3, ShrinkNodes DEF Shrink
    <3> QED
      BY <1>1, <2>3, <3>1 DEF Shrink, NodeTypes
  <2> QED
    BY <2>1, <2>2, <2>3
<1>3. NodesInv(state, holds, inbox, acks)'
  BY <1>1, <1>2
<1>4. ListenerInv'
  <2>1. ASSUME job # Null
        PROVE  JobInv'
    <3>1. JobInv
      BY <2>1 DEF RotationInv, ListenerInv
    <3> QED
      BY <1>1, <1>2, <2>1, <3>1, JobAlongNodes
  <2> QED
    BY <1>1, <2>1 DEF RotationInv, ListenerInv
<1>5. WriterInv'
  BY <1>1, WriterOn DEF RotationInv
<1>6. StateInv(state)' /\ SecretsInv(state, secrets)' /\ CountsInv'
  BY <1>1 DEF RotationInv, CountsInv
<1> QED
  BY <1>3, <1>4, <1>5, <1>6 DEF RotationInv

-----------------------------------------------------------------------------
(* The steps of an operation.                                              *)

LEMMA WantedOn ==
  ASSUME NEW q \in Seq(References), q # <<>>
  PROVE  /\ {q[k] : k \in DOMAIN q} = {Head(q)} \cup {Tail(q)[k] : k \in DOMAIN Tail(q)}
         /\ Head(q) \in References /\ Tail(q) \in Seq(References)
<1>1. /\ Len(q) \in Nat /\ Len(q) > 0 /\ DOMAIN q = 1..Len(q)
      /\ Head(q) = q[1] /\ Tail(q) \in Seq(References) /\ Head(q) \in References
      /\ DOMAIN Tail(q) = 1..(Len(q) - 1)
      /\ \A k \in 1..(Len(q) - 1) : Tail(q)[k] = q[k + 1]
  OBVIOUS
<1>2. ASSUME NEW k \in DOMAIN q
      PROVE  q[k] \in {Head(q)} \cup {Tail(q)[m] : m \in DOMAIN Tail(q)}
  <2>1. CASE k = 1
    BY <1>1, <2>1
  <2>2. CASE k # 1
    <3>1. k - 1 \in DOMAIN Tail(q) /\ Tail(q)[k - 1] = q[k]
      BY <1>1, <2>2
    <3> QED
      BY <3>1
  <2> QED
    BY <2>1, <2>2
<1>3. ASSUME NEW m \in DOMAIN Tail(q)
      PROVE  Tail(q)[m] \in {q[k] : k \in DOMAIN q}
  <2>1. m + 1 \in DOMAIN q /\ Tail(q)[m] = q[m + 1]
    BY <1>1
  <2> QED
    BY <2>1
<1>4. Head(q) \in {q[k] : k \in DOMAIN q}
  BY <1>1
<1> QED
  BY <1>1, <1>2, <1>3, <1>4

\* An operation moves on without writing the state.
LEMMA JobMoves ==
  ASSUME job \in Jobs, NEW p \in {"put", "cleanup", "activate", "return", "answer"},
         job' = [job EXCEPT !.pc = p]
  PROVE  /\ job' \in Jobs /\ job' # Null /\ job'.pc = p
         /\ job'.kind = job.kind /\ job'.node = job.node /\ job'.next = job.next
         /\ job'.tls = job.tls /\ job'.drop = job.drop /\ job'.put = job.put
         /\ job'.todo = job.todo /\ job'.base = job.base
<1>1. job' \in Jobs
  BY DEF Jobs
<1>2. job' # Null
  BY <1>1, NullAssumption
<1> QED
  BY <1>1, <1>2 DEF Jobs

LEMMA PutSecretStep ==
  ASSUME RotationInv, PutSecret
  PROVE  RotationInv'
<1>1. /\ job # Null /\ job.pc = "put" /\ job.todo # <<>> /\ JobInv /\ AtPut
      /\ UNCHANGED <<state, listener, writer, holds, inbox, acks, minted, renewed>>
  BY DEF PutSecret, At, nodeVars, RotationInv, ListenerInv, JobInv
<1>2. job \in Jobs /\ job.todo \in Seq(References) /\ listener # Null
  BY <1>1 DEF JobInv, Jobs
<1>3. CASE /\ secrets' = secrets \cup {Head(job.todo)}
           /\ job' = [job EXCEPT !.todo = Tail(@), !.put = @ \cup {Head(job.todo)}]
           /\ faults' = faults
  <2>1. Head(job.todo) \in References /\ Tail(job.todo) \in Seq(References)
    BY <1>1, <1>2, WantedOn
  <2>2. /\ job'.kind = job.kind /\ job'.node = job.node /\ job'.next = job.next
        /\ job'.tls = job.tls /\ job'.drop = job.drop /\ job'.pc = job.pc
        /\ job'.base = job.base /\ job'.todo = Tail(job.todo)
        /\ job'.put = job.put \cup {Head(job.todo)}
    BY <1>2, <1>3 DEF Jobs
  <2>3. job' \in Jobs
    <3>1. job.put \cup {Head(job.todo)} \in SUBSET References
      BY <1>2, <2>1 DEF Jobs
    <3> QED
      BY <1>2, <1>3, <2>1, <3>1 DEF Jobs
  <2>4. job' # Null
    BY <2>3, NullAssumption
  <2>5. Wanted(job)' = Wanted(job)
    <3>1. {job.todo[k] : k \in DOMAIN job.todo}
            = {Head(job.todo)} \cup {Tail(job.todo)[k] : k \in DOMAIN Tail(job.todo)}
      BY <1>1, <1>2, WantedOn
    <3>2. Wanted(job)' = (job.put \cup {Head(job.todo)})
                           \cup {Tail(job.todo)[k] : k \in DOMAIN Tail(job.todo)}
      BY <2>2 DEF Wanted
    <3> QED
      BY <3>1, <3>2 DEF Wanted
  <2>6. state.gen = job.base => Follows(state, job)'
    <3>1. job.kind \in {"stage", "update", "ack", "finish", "renew"}
      BY <1>2 DEF Jobs
    <3> QED
      BY <1>1, <1>3, <2>2, <2>5, <3>1, FollowsOn DEF AtPut
  <2>7. AtPut'
    BY <1>1, <1>3, <2>2, <2>5, <2>6 DEF AtPut
  <2>8. JobInv'
    BY <1>1, <1>2, <2>2, <2>3, <2>7 DEF JobInv, Swaps
  <2>9. SecretsInv(state, secrets)'
    BY <1>1, <1>3, <2>1 DEF RotationInv, SecretsInv
  <2> QED
    BY <1>1, <1>3, <2>4, <2>8, <2>9, WriterOn DEF RotationInv, ListenerInv, CountsInv
<1>4. CASE /\ Goto("cleanup") /\ secrets' = secrets
           /\ faults' \in {faults, faults + 1} /\ (faults' # faults => faults < MaxFaults)
  <2>1. /\ job' \in Jobs /\ job' # Null /\ job'.pc = "cleanup"
        /\ job'.kind = job.kind /\ job'.tls = job.tls /\ job'.put = job.put
        /\ job'.drop = job.drop
    BY <1>2, <1>4, JobMoves DEF Goto
  <2>2. AtCleanup'
    BY <1>1, <2>1 DEF AtPut, AtCleanup, Wanted
  <2>3. JobInv'
    BY <1>1, <2>1, <2>2 DEF JobInv, Swaps
  <2>4. CountsInv'
    <3>1. faults' \in 0..MaxFaults
      BY <1>4, RotationAssumption DEF RotationInv, CountsInv
    <3> QED
      BY <1>1, <3>1 DEF RotationInv, CountsInv
  <2>5. WriterInv'
    BY <1>1, WriterOn DEF RotationInv
  <2> QED
    BY <1>1, <1>4, <2>1, <2>3, <2>4, <2>5 DEF RotationInv, ListenerInv
<1> QED
  BY <1>3, <1>4 DEF PutSecret, Fault

\* Secrets that the state does not name as the gateway's own are deleted, or
\* all but one.
LEMMA DeleteStep ==
  ASSUME RotationInv, job # Null, job.pc # "activate", NEW X, X \cap HostRefs(state) = {},
         DeleteSecrets(X), job' = Null,
         UNCHANGED <<state, listener, writer, nodeVars, minted, renewed>>
  PROVE  RotationInv'
<1>1. listener = RuntimeOf(state)
  BY DEF RotationInv, ListenerInv, JobInv
<1>2. SecretsInv(state, secrets')
  <2>1. secrets' \subseteq secrets /\ secrets \ X \subseteq secrets'
    BY DEF DeleteSecrets
  <2>2. Material(state) \subseteq secrets \ X
    BY MaterialIsHost DEF RotationInv, SecretsInv
  <2> QED
    BY <2>1, <2>2 DEF RotationInv, SecretsInv
<1>3. CountsInv'
  <2>1. faults' \in 0..MaxFaults
    BY RotationAssumption DEF RotationInv, CountsInv, DeleteSecrets, Fault
  <2> QED
    BY <2>1 DEF RotationInv, CountsInv
<1>4. WriterInv'
  BY WriterOn DEF RotationInv
<1> QED
  BY <1>1, <1>2, <1>3, <1>4 DEF RotationInv, ListenerInv, nodeVars

LEMMA CleanupOrReturnStep ==
  ASSUME RotationInv, Cleanup \/ Return
  PROVE  RotationInv'
<1>1. CASE Cleanup
  <2>1. job # Null /\ job.pc = "cleanup" /\ AtCleanup
    BY <1>1 DEF Cleanup, At, RotationInv, ListenerInv, JobInv
  <2> QED
    BY <1>1, <2>1, DeleteStep DEF Cleanup, AtCleanup
<1>2. CASE Return
  <2>1. job # Null /\ job.pc = "return" /\ AtReturn
    BY <1>2 DEF Return, At, RotationInv, ListenerInv, JobInv
  <2> QED
    BY <1>2, <2>1, DeleteStep DEF Return, AtReturn
<1> QED
  BY <1>1, <1>2

LEMMA ActivateStep ==
  ASSUME RotationInv, Activate
  PROVE  RotationInv'
<1>1. /\ job # Null /\ job.pc = "activate" /\ AtActivate /\ JobInv /\ job \in Jobs
      /\ UNCHANGED <<state, secrets, writer, holds, inbox, acks, minted, renewed, faults>>
      /\ StateInv(state)
  BY DEF Activate, At, RotationInv, ListenerInv, JobInv, nodeVars
<1>2. /\ job' \in Jobs /\ job' # Null /\ job'.pc = "return" /\ job'.kind = job.kind
      /\ job'.tls = job.tls /\ job'.drop = job.drop
  BY <1>1, JobMoves DEF Activate, Goto
<1>3. listener' = RuntimeOf(state) /\ listener' # Null
  BY <1>1, RuntimeType DEF Activate, AtActivate
<1>4. JobInv'
  BY <1>1, <1>2, <1>3 DEF JobInv, Swaps, AtActivate, AtReturn
<1>5. WriterInv'
  BY <1>1, <1>3, WriterOn DEF RotationInv
<1> QED
  BY <1>1, <1>2, <1>4, <1>5 DEF RotationInv, ListenerInv, CountsInv

LEMMA DeliverNodes ==
  ASSUME NEW s, NEW h, NEW i, NEW a, NEW n \in Nodes, NEW u \in Updates,
         NodesInv(s, h, i, a), s.life[n] # "absent", u.cert.scope \in KnownScopes(s),
         n \in ActiveNodes(s) =>
           /\ \A c \in Present(s, "ca") : c.ca \in u.bundle
           /\ u.cert \in ComingOf(s, n) /\ u.bundle = Accepted(s)
           /\ \A c \in h[n].ids : c.scope \notin PendingIds(s)
  PROVE  NodesInv(s, h, [i EXCEPT ![n] = u], a)
<1> DEFINE k == [i EXCEPT ![n] = u]
<1>1. NodeTypes(h, i, a) /\ Scopes(s, h, i, a)
  BY DEF NodesInv
<1>2. k[n] = u /\ \A m \in Nodes : m # n => k[m] = i[m]
  BY <1>1 DEF NodeTypes
<1>3. NodeTypes(h, k, a)
  BY <1>1 DEF NodeTypes
<1> HIDE DEF k
<1>4. Scopes(s, h, k, a)
  BY <1>1, <1>2 DEF Scopes
<1>5. ASSUME NEW m \in ActiveNodes(s)
      PROVE  NodeInv(s, h, k, a, m)
  <2>1. NodeInv(s, h, i, a, m) /\ m \in Nodes
    BY DEF NodesInv, ActiveNodes
  <2>2. CASE m = n
    BY <1>2, <2>1, <2>2 DEF NodeInv, Awaits, Updated
  <2>3. CASE m # n
    BY <1>2, <2>1, <2>3 DEF NodeInv, Awaits, Updated
  <2> QED
    BY <2>2, <2>3
<1>6. \A m \in Nodes : s.life[m] = "absent" => k[m] = Null
  BY <1>2 DEF NodesInv
<1>7. NodesInv(s, h, k, a)
  BY <1>3, <1>4, <1>5, <1>6 DEF NodesInv
<1> QED
  BY <1>7 DEF k

LEMMA DeliverStep ==
  ASSUME RotationInv, NEW n \in Nodes, NEW u, Deliver(n, u), listener # Null,
         job' = Null, listener = RuntimeOf(state),
         UNCHANGED <<state, secrets, listener, writer, holds, acks, minted, renewed>>,
         NodesInv(state, holds, [inbox EXCEPT ![n] = u], acks)
  PROVE  RotationInv'
<1>1. NodesInv(state, holds, inbox', acks)
  BY DEF Deliver, RotationInv
<1>2. CountsInv'
  <2>1. faults' \in 0..MaxFaults
    BY RotationAssumption DEF RotationInv, CountsInv, Deliver, Fault
  <2> QED
    BY <2>1 DEF RotationInv, CountsInv
<1>3. WriterInv'
  BY WriterOn DEF RotationInv
<1> QED
  BY <1>1, <1>2, <1>3 DEF RotationInv, ListenerInv

LEMMA AnswerStep ==
  ASSUME RotationInv, Answer
  PROVE  RotationInv'
<1>1. /\ job # Null /\ job.pc = "answer" /\ AtAnswer /\ JobInv
      /\ listener # Null /\ listener = RuntimeOf(state)
  BY DEF Answer, At, RotationInv, ListenerInv, JobInv
<1>2. NodesInv(state, holds, [inbox EXCEPT ![job.node] = TrustUpdate(job.next, job.node)], acks)
  BY <1>1, DeliverNodes DEF AtAnswer, RotationInv
<1> QED
  BY <1>1, <1>2, DeliverStep DEF Answer, AtAnswer

\* What a save of the operation's state puts in force.
LEMMA SavedState ==
  ASSUME RotationInv, job # Null, job.pc = "put", job.todo = <<>>, state.gen = job.base
  PROVE  /\ StateInv(job.next) /\ NodesInv(job.next, holds, inbox, acks)
         /\ SecretsInv(job.next, secrets) /\ job.next.gen = state.gen + 1
         /\ \A o \in job.next.ops : o.id <= minted
         /\ \A c \in OfKind(job.next, "server") : c.serial <= renewed
         /\ job.drop \cap HostRefs(job.next) = {}
         /\ Swaps(job) =>
              /\ job.tls = RuntimeOf(job.next)
              /\ \A c \in Present(job.next, "ca") :
                   /\ c.ca \in listener.cas
                   /\ \/ listener.leaf.ca = c.ca
                      \/ /\ job.kind = "finish"
                         /\ \A n \in ActiveNodes(job.next) :
                              inbox[n] = Null /\ listener.leaf.ca \in holds[n].trust
         /\ ~Swaps(job) =>
              RuntimeOf(job.next) = RuntimeOf(state) /\ HostRefs(job.next) = HostRefs(state)
         /\ job.kind = "update" =>
              /\ job.node \in ActiveNodes(job.next) /\ inbox[job.node] = Null
              /\ Single(ComingOf(job.next, job.node)) /\ PendingIds(job.next) # {}
              /\ \A c \in holds[job.node].ids : c.scope \notin PendingIds(job.next)
<1>1. /\ JobInv /\ AtPut /\ Follows(state, job) /\ job \in Jobs
      /\ listener = RuntimeOf(state)
  BY DEF RotationInv, ListenerInv, JobInv, AtPut
<1>2. /\ StateInv(state) /\ Generations(state) /\ NodesInv(state, holds, inbox, acks)
      /\ Material(state) \subseteq secrets /\ secrets \subseteq References
      /\ \A o \in state.ops : o.id <= minted
      /\ \A c \in OfKind(state, "server") : c.serial <= renewed
      /\ minted \in Nat /\ renewed \in Nat
  BY DEF RotationInv, StateInv, SecretsInv, CountsInv
<1>3. Wanted(job) \subseteq secrets
  <2>1. Wanted(job) = job.put
    BY DEF Wanted
  <2> QED
    BY <1>1, <2>1 DEF AtPut
<1>4. job.kind \in {"stage", "update", "ack", "finish", "renew"}
  BY <1>1 DEF Jobs
<1>5. /\ Present(state, "ca") = {CurrentCA(state)} /\ listener.cas = Accepted(state)
      /\ listener.leaf.ca = CurrentCA(state).ca /\ CurrentCA(state).ca \in Accepted(state)
  BY <1>1, <1>2, InForce, RuntimeType
<1>6. job.kind # "finish" => job.drop \cap HostRefs(job.next) = {}
  BY <1>1 DEF JobInv
<1>7. CASE job.kind = "stage"
  <2>1. StagesFrom(state, job, minted)
    BY <1>1, <1>7 DEF Follows
  <2>2. /\ StateInv(job.next) /\ NodesInv(job.next, holds, inbox, acks)
        /\ job.next.gen = state.gen + 1
        /\ Present(job.next, "ca") = Present(state, "ca")
        /\ job.tls = RuntimeOf(job.next)
        /\ Material(job.next) \subseteq Material(state) \cup Wanted(job)
        /\ \A o \in job.next.ops : o \in state.ops \/ o.id = minted
        /\ \A c \in OfKind(job.next, "server") : c \in state.certs \/ c.serial = 0
    BY <1>2, <2>1, StageState
  <2>3. \A o \in job.next.ops : o.id <= minted
    BY <1>2, <2>2
  <2>4. \A c \in OfKind(job.next, "server") : c.serial <= renewed
    BY <1>2, <2>2 DEF OfKind
  <2> QED
    BY <1>2, <1>3, <1>5, <1>6, <1>7, <2>2, <2>3, <2>4 DEF SecretsInv, Swaps
<1>8. CASE job.kind = "update"
  <2>1. UpdatesFrom(state, job, inbox)
    BY <1>1, <1>8 DEF Follows
  <2>2. /\ StateInv(job.next) /\ NodesInv(job.next, holds, inbox, acks)
        /\ job.next.gen = state.gen + 1 /\ job.next.ops = state.ops
        /\ RuntimeOf(job.next) = RuntimeOf(state) /\ Material(job.next) = Material(state)
        /\ HostRefs(job.next) = HostRefs(state)
        /\ OfKind(job.next, "server") = OfKind(state, "server")
        /\ ActiveNodes(job.next) = ActiveNodes(state)
        /\ Single(ComingOf(job.next, job.node)) /\ PendingIds(job.next) # {}
        /\ \A c \in holds[job.node].ids : c.scope \notin PendingIds(job.next)
    BY <1>2, <2>1, UpdateState
  <2>3. job.node \in ActiveNodes(state) /\ inbox[job.node] = Null
    BY <2>1 DEF UpdatesFrom
  <2> QED
    BY <1>2, <1>6, <1>8, <2>2, <2>3 DEF SecretsInv, Swaps
<1>9. CASE job.kind = "ack"
  <2>1. AcknowledgesFrom(state, job, acks)
    BY <1>1, <1>9 DEF Follows
  <2>2. /\ StateInv(job.next) /\ NodesInv(job.next, holds, inbox, acks)
        /\ job.next.gen = state.gen + 1 /\ job.next.certs = state.certs
        /\ RuntimeOf(job.next) = RuntimeOf(state) /\ Material(job.next) = Material(state)
        /\ \A x \in job.next.ops : \E y \in state.ops : x.id = y.id
    BY <1>2, <2>1, AcknowledgeState
  <2>3. HostRefs(job.next) = HostRefs(state) /\ OfKind(job.next, "server") = OfKind(state, "server")
    BY <2>2 DEF HostRefs, OfKind
  <2>4. \A o \in job.next.ops : o.id <= minted
    BY <1>2, <2>2
  <2> QED
    BY <1>2, <1>6, <1>9, <2>2, <2>3, <2>4 DEF SecretsInv, Swaps
<1>10. CASE job.kind = "finish"
  <2>1. FinishesFrom(state, job, secrets)
    BY <1>1, <1>10 DEF Follows
  <2>2. /\ StateInv(job.next) /\ NodesInv(job.next, holds, inbox, acks)
        /\ job.next.gen = state.gen + 1 /\ job.next.certs \subseteq state.certs
        /\ job.tls = RuntimeOf(job.next) /\ Material(job.next) \subseteq secrets
        /\ job.drop \cap HostRefs(job.next) = {}
        /\ \A q \in job.next.ops : \E y \in state.ops : q.id = y.id
        /\ \A c \in Present(job.next, "ca") :
             /\ c.ca \in Accepted(state)
             /\ \/ CurrentServer(state).ca = c.ca
                \/ \A n \in ActiveNodes(job.next) :
                     inbox[n] = Null /\ CurrentServer(state).ca \in holds[n].trust
    BY <1>2, <2>1, FinishState
  <2>3. listener.leaf.ca = CurrentServer(state).ca
    BY <1>1, <1>2, RuntimeType
  <2>4. \A o \in job.next.ops : o.id <= minted
    BY <1>2, <2>2
  <2>5. \A c \in OfKind(job.next, "server") : c.serial <= renewed
    BY <1>2, <2>2 DEF OfKind
  <2> QED
    BY <1>2, <1>5, <1>10, <2>2, <2>3, <2>4, <2>5 DEF SecretsInv, Swaps
<1>11. CASE job.kind = "renew"
  <2>1. RenewsFrom(state, job, renewed)
    BY <1>1, <1>11 DEF Follows
  <2>2. /\ StateInv(job.next) /\ NodesInv(job.next, holds, inbox, acks)
        /\ job.next.gen = state.gen + 1 /\ job.next.ops = state.ops
        /\ job.tls = RuntimeOf(job.next) /\ Present(job.next, "ca") = Present(state, "ca")
        /\ Material(job.next) \subseteq Material(state) \cup Wanted(job)
        /\ \A c \in OfKind(job.next, "server") : c \in state.certs \/ c.serial = renewed
    BY <1>2, <2>1, RenewState
  <2>3. \A c \in OfKind(job.next, "server") : c.serial <= renewed
    BY <1>2, <2>2 DEF OfKind
  <2> QED
    BY <1>2, <1>3, <1>5, <1>6, <1>11, <2>2, <2>3 DEF SecretsInv, Swaps
<1> QED
  BY <1>4, <1>7, <1>8, <1>9, <1>10, <1>11

LEMMA SaveStep ==
  ASSUME RotationInv, Save, Faults \cap LateErrors = {}
  PROVE  RotationInv'
<1>1. /\ job # Null /\ job.pc = "put" /\ job.todo = <<>> /\ JobInv /\ AtPut /\ job \in Jobs
      /\ UNCHANGED <<secrets, listener, writer, holds, inbox, acks, minted, renewed>>
      /\ listener = RuntimeOf(state) /\ listener # Null /\ StateInv(state)
  BY DEF Save, At, nodeVars, RotationInv, ListenerInv, JobInv
<1>2. faults' \in 0..MaxFaults
  BY RotationAssumption DEF Save, Fault, RotationInv, CountsInv
<1>3. CASE Goto("cleanup") /\ state' = state
  <2>1. /\ job' \in Jobs /\ job' # Null /\ job'.pc = "cleanup" /\ job'.kind = job.kind
        /\ job'.tls = job.tls /\ job'.put = job.put /\ job'.drop = job.drop
    BY <1>1, <1>3, JobMoves DEF Goto
  <2>2. AtCleanup'
    BY <1>1, <1>3, <2>1 DEF AtPut, AtCleanup, Wanted
  <2>3. JobInv'
    BY <1>1, <1>3, <2>1, <2>2 DEF JobInv, Swaps
  <2>4. CountsInv'
    BY <1>1, <1>2, <1>3 DEF RotationInv, CountsInv
  <2>5. WriterInv'
    BY <1>1, <1>3, WriterOn DEF RotationInv
  <2> QED
    BY <1>1, <1>3, <2>1, <2>3, <2>4, <2>5 DEF RotationInv, ListenerInv
<1>4. CASE /\ state.gen = job.base /\ state' = job.next
           /\ Goto(AfterSave) \/ (Goto("cleanup") /\ ~Swaps(job))
  <2> DEFINE t == job.next
  <2>1. /\ StateInv(t) /\ NodesInv(t, holds, inbox, acks)
        /\ SecretsInv(t, secrets) /\ t.gen = state.gen + 1
        /\ \A o \in t.ops : o.id <= minted
        /\ \A c \in OfKind(t, "server") : c.serial <= renewed
        /\ job.drop \cap HostRefs(t) = {}
        /\ Swaps(job) =>
             /\ job.tls = RuntimeOf(t)
             /\ \A c \in Present(t, "ca") :
                  /\ c.ca \in listener.cas
                  /\ \/ listener.leaf.ca = c.ca
                     \/ /\ job.kind = "finish"
                        /\ \A n \in ActiveNodes(t) :
                             inbox[n] = Null /\ listener.leaf.ca \in holds[n].trust
        /\ ~Swaps(job) => RuntimeOf(t) = RuntimeOf(state) /\ HostRefs(t) = HostRefs(state)
        /\ job.kind = "update" =>
             /\ job.node \in ActiveNodes(t) /\ inbox[job.node] = Null
             /\ Single(ComingOf(t, job.node)) /\ PendingIds(t) # {}
             /\ \A c \in holds[job.node].ids : c.scope \notin PendingIds(t)
    BY <1>1, <1>4, SavedState
  <2>2. CountsInv'
    BY <1>1, <1>2, <1>4, <2>1 DEF RotationInv, CountsInv
  <2>3. WriterInv'
    <3>1. state.gen \in Nat /\ state'.gen = state.gen + 1
      BY <1>1, <1>4, <2>1, StateFields DEF StateInv
    <3> QED
      BY <1>1, <3>1 DEF RotationInv, WriterInv
  <2>4. StateInv(state)' /\ NodesInv(state, holds, inbox, acks)' /\ SecretsInv(state, secrets)'
    BY <1>1, <1>4, <2>1
  <2>5. /\ (job.tls # Null) = Swaps(job) /\ (job.kind = "update" => ~Swaps(job))
        /\ AfterSave \in {"answer", "activate", "return"}
        /\ AfterSave = "answer" <=> job.kind = "update"
        /\ AfterSave = "activate" <=> Swaps(job)
    BY <1>1 DEF JobInv, AfterSave, Swaps
  <2>6. PICK p \in {"cleanup", "activate", "return", "answer"} : job' = [job EXCEPT !.pc = p]
           /\ (p = "cleanup" => ~Swaps(job)) /\ (p = "activate" <=> Swaps(job))
           /\ (p = "answer" => job.kind = "update")
    BY <1>4, <2>5 DEF Goto
  <2>7. /\ job' \in Jobs /\ job' # Null /\ job'.pc = p /\ job'.kind = job.kind
        /\ job'.tls = job.tls /\ job'.put = job.put /\ job'.drop = job.drop
        /\ job'.node = job.node /\ job'.next = t
    BY <1>1, <2>6, JobMoves
  <2>8. p = "cleanup" => AtCleanup'
    BY <1>1, <1>4, <2>1, <2>6, <2>7 DEF AtCleanup, AtPut, Wanted
  <2>9. p = "return" => AtReturn'
    BY <1>4, <2>1, <2>7 DEF AtReturn
  <2>10. p = "activate" => AtActivate'
    <3>1. listener \in TLSStates /\ Cardinality(listener.cas) \in 1..2
      BY <1>1, RuntimeType
    <3> QED
      BY <1>1, <1>4, <2>1, <2>6, <2>7, <3>1 DEF AtActivate
  <2>11. p = "answer" => AtAnswer'
    <3> SUFFICES ASSUME p = "answer"
                 PROVE  AtAnswer'
      OBVIOUS
    <3> DEFINE n == job.node
               u == TrustUpdate(t, n)
    <3>1. /\ n \in ActiveNodes(t) /\ inbox[n] = Null /\ Single(ComingOf(t, n))
          /\ PendingIds(t) # {} /\ \A c \in holds[n].ids : c.scope \notin PendingIds(t)
      BY <2>1, <2>6
    <3>2. Generations(t) /\ t \in States
      BY <2>1 DEF StateInv
    <3>3. StagedNodeCertificates(t, n) = ComingOf(t, n)
      BY <3>1, <3>2, View DEF StagedNodeCertificates, ComingOf
    <3>4. u.cert \in ComingOf(t, n) /\ u.bundle = Accepted(t) /\ u = [cert |-> u.cert, bundle |-> u.bundle]
      BY <3>1, <3>3, SoleOf DEF TrustUpdate, Accepted
    <3>5. u.cert \in t.certs /\ u.cert \in Certificates /\ u.cert.scope \in KnownScopes(t)
      BY <2>1, <3>2, <3>4, StateFields DEF ComingOf, Coming, OfKind, StateInv, Records
    <3>6. Accepted(t) \in SUBSET CAs
      BY <3>2, StateFields DEF Accepted, OfKind, Certificates
    <3>7. u \in Updates
      BY <3>4, <3>5, <3>6 DEF Updates
    <3>8. \A c \in Present(t, "ca") : c.ca \in u.bundle
      BY <3>4 DEF Present, Accepted
    <3>9. n \in Nodes /\ t.life[n] # "absent"
      BY <3>1 DEF ActiveNodes
    <3> HIDE DEF u, t
    <3> QED
      BY <1>1, <1>4, <2>7, <3>1, <3>4, <3>5, <3>7, <3>8, <3>9 DEF AtAnswer, u, t
  <2>12. p # "activate" => listener = RuntimeOf(t)
    BY <1>1, <2>1, <2>6
  <2>13. JobInv'
    BY <1>1, <1>4, <2>6, <2>7, <2>8, <2>9, <2>10, <2>11, <2>12 DEF JobInv, Swaps
  <2> QED
    BY <2>2, <2>3, <2>4, <2>7, <2>13 DEF RotationInv, ListenerInv
<1>5. ASSUME Fault(job.kind, "sync")
      PROVE  ~Swaps(job)
  BY <1>5 DEF Fault, Swaps, LateErrors
<1> QED
  BY <1>3, <1>4, <1>5 DEF Save

-----------------------------------------------------------------------------
(* The operations begin.                                                   *)

LEMMA WantedOf ==
  ASSUME NEW j, j.put = {}
  PROVE  /\ j.todo = <<>> => Wanted(j) = {}
         /\ \A a : j.todo = <<a>> => Wanted(j) = {a}
         /\ \A a, b : j.todo = <<a, b>> => Wanted(j) = {a, b}
         /\ \A a, b, c, d : j.todo = <<a, b, c, d>> => Wanted(j) = {a, b, c, d}
<1>1. j.todo = <<>> => Wanted(j) = {}
  BY DEF Wanted
<1>2. ASSUME NEW a, j.todo = <<a>>
      PROVE  Wanted(j) = {a}
  <2>1. DOMAIN j.todo = {1} /\ j.todo[1] = a
    BY <1>2
  <2> QED
    BY <2>1 DEF Wanted
<1>3. ASSUME NEW a, NEW b, j.todo = <<a, b>>
      PROVE  Wanted(j) = {a, b}
  <2>1. DOMAIN j.todo = {1, 2} /\ j.todo[1] = a /\ j.todo[2] = b
    BY <1>3
  <2> QED
    BY <2>1 DEF Wanted
<1>4. ASSUME NEW a, NEW b, NEW c, NEW d, j.todo = <<a, b, c, d>>
      PROVE  Wanted(j) = {a, b, c, d}
  <2>1. /\ DOMAIN j.todo = {1, 2, 3, 4} /\ j.todo[1] = a /\ j.todo[2] = b
        /\ j.todo[3] = c /\ j.todo[4] = d
    BY <1>4
  <2> QED
    BY <2>1 DEF Wanted
<1> QED
  BY <1>1, <1>2, <1>3, <1>4

LEMMA NewJobFields ==
  ASSUME NEW kind \in {"stage", "update", "ack", "finish", "renew"}, NEW n \in Nodes \cup {Null},
         NEW todo \in Seq(References), NEW next \in States, NEW tls \in TLSStates \cup {Null},
         NEW drop \in SUBSET References, state \in States,
         job' = NewJob(kind, n, todo, next, tls, drop)
  PROVE  /\ job' \in Jobs /\ job'.kind = kind /\ job'.node = n /\ job'.todo = todo
         /\ job'.next = next /\ job'.tls = tls /\ job'.drop = drop
         /\ job'.put = {} /\ job'.base = state.gen /\ job'.pc = "put"
<1>1. state.gen \in Nat
  BY StateFields
<1> QED
  BY <1>1 DEF NewJob, Jobs

\* The references of a certificate that the state does not name.
LEMMA FreshRefs ==
  ASSUME NEW s, NEW c, c \notin s.certs
  PROVE  {CertRef(c), KeyRef(c)} \cap HostRefs(s) = {}
BY DEF HostRefs, Refs, CertRef, KeyRef

LEMMA JobStarts ==
  ASSUME RotationInv, Idle,
         UNCHANGED <<state, secrets, listener, writer, nodeVars, faults>>,
         job' \in Jobs, job'.put = {}, job'.base = state.gen, job'.pc = "put",
         Wanted(job') \cap HostRefs(state) = {}, Follows(state, job)',
         job'.tls # Null => ValidTLS(job'.tls), Swaps(job') <=> job'.tls # Null,
         job'.kind # "finish" => job'.drop = {},
         minted' \in {minted, minted + 1}, minted' \in 0..MaxRotations,
         renewed' \in {renewed, renewed + 1}, renewed' \in 0..MaxRenewals
  PROVE  RotationInv'
<1>1. /\ listener # Null /\ listener = RuntimeOf(state) /\ state \in States
      /\ UNCHANGED <<holds, inbox, acks>>
  BY DEF RotationInv, StateInv, ListenerInv, Idle, nodeVars
<1>2. job' # Null
  BY NullAssumption
<1>3. AtPut'
  <2>1. state.gen \in Nat
    BY <1>1, StateFields
  <2> QED
    BY <2>1 DEF AtPut
<1>4. JobInv'
  BY <1>1, <1>3 DEF JobInv
<1>5. CountsInv'
  <2>1. ASSUME NEW o \in state.ops
        PROVE  o.id <= minted'
    <3>1. o.id \in Nat /\ o.id <= minted /\ minted \in Nat
      BY <1>1, RotationAssumption, StateFields DEF RotationInv, CountsInv, Operations
    <3> QED
      BY <3>1
  <2>2. ASSUME NEW c \in OfKind(state, "server")
        PROVE  c.serial <= renewed'
    <3>1. c.serial \in Nat /\ c.serial <= renewed /\ renewed \in Nat
      BY <1>1, RotationAssumption, StateFields DEF RotationInv, CountsInv, OfKind, Certificates
    <3> QED
      BY <3>1
  <2> QED
    BY <2>1, <2>2 DEF RotationInv, CountsInv
<1>6. WriterInv'
  BY <1>1, WriterOn DEF RotationInv
<1> QED
  BY <1>1, <1>2, <1>4, <1>5, <1>6 DEF RotationInv, ListenerInv

LEMMA StageStep ==
  ASSUME RotationInv, Stage
  PROVE  RotationInv'
<1> DEFINE k == minted + 1
           ca == HostCertificate("ca", k, k, 0)
           server == HostCertificate("server", k, k, 0)
           steps == [n \in Nodes |-> IF n \in ActiveNodes(state) THEN "pending" ELSE "none"]
           o == [id |-> k, status |-> "pending", steps |-> steps]
           next == Candidate(state, state.ops \cup {o}, state.certs \cup {ca, server})
           tls == TLS(CurrentServer(state), {CurrentCA(state).ca, k})
           todo == <<CertRef(ca), KeyRef(ca), CertRef(server), KeyRef(server)>>
<1>1. /\ Idle /\ minted < MaxRotations /\ ActiveRotations(state) = {} /\ minted' = k
      /\ job' = NewJob("stage", Null, todo, next, tls, {})
      /\ UNCHANGED <<state, secrets, listener, writer, nodeVars, renewed, faults>>
  BY DEF Stage
<1>2. /\ StateInv(state) /\ state \in States /\ Generations(state)
      /\ minted \in 0..MaxRotations /\ renewed \in 0..MaxRenewals
      /\ \A p \in state.ops : p.id <= minted
      /\ MaxRotations \in Nat /\ MaxRenewals \in Nat /\ MaxCredential \in Nat
  BY RotationAssumption DEF RotationInv, StateInv, CountsInv
<1>3. k \in 1..MaxRotations /\ k \in CAs /\ 0 \in 0..(MaxRenewals + MaxCredential)
  BY <1>1, <1>2 DEF CAs
<1>4. k \notin KnownScopes(state)
  <2>1. \A p \in state.ops : p.id \in Nat
    BY <1>2, StateFields DEF Operations
  <2> QED
    BY <1>2, <2>1 DEF KnownScopes
<1>5. /\ ca \in Certificates /\ server \in Certificates /\ ca.scope = k /\ server.scope = k
  BY <1>3 DEF HostCertificate, Certificates
<1>6. ca \notin state.certs /\ server \notin state.certs
  BY <1>2, <1>4, <1>5 DEF StateInv, Records
<1>7. steps \in [Nodes -> {"none", "pending"}] /\ o \in Operations
  BY <1>3 DEF Operations
<1>8. next \in States
  <2>1. state.ops \cup {o} \in SUBSET Operations
    BY <1>2, <1>7, StateFields
  <2>2. state.certs \cup {ca, server} \in SUBSET Certificates
    BY <1>2, <1>5, StateFields
  <2> QED
    BY <1>2, <2>1, <2>2, CandidateType
<1>9. /\ CurrentServer(state) \in Certificates /\ Accepted(state) = {CurrentCA(state).ca}
      /\ CurrentCA(state).ca \in CAs /\ CurrentServer(state).ca = CurrentCA(state).ca
  <2>1. PendingIds(state) = {}
    BY <1>1 DEF PendingIds
  <2>2. OfKind(state, "ca") = {CurrentCA(state)} /\ Present(state, "server") = {CurrentServer(state)}
    BY <1>2, <2>1, View, InForce
  <2>3. CurrentCA(state) \in state.certs /\ CurrentServer(state) \in state.certs
    BY <2>2 DEF OfKind, Present
  <2> QED
    BY <1>2, <2>2, <2>3, StateFields, InForce DEF Accepted, Certificates
<1>10. tls \in TLSStates /\ ValidTLS(tls) /\ tls # Null
  <2>1. tls \in TLSStates /\ ValidTLS(tls)
    BY <1>3, <1>9 DEF TLS, TLSStates, ValidTLS
  <2> QED
    BY <2>1, NullAssumption
<1>11. todo \in Seq(References)
  BY <1>5 DEF References, CertRef, KeyRef
<1> HIDE DEF k, ca, server, steps, next, tls, todo
<1>12. /\ job' \in Jobs /\ job'.kind = "stage" /\ job'.todo = todo
       /\ job'.next = next /\ job'.tls = tls /\ job'.drop = {}
       /\ job'.put = {} /\ job'.base = state.gen /\ job'.pc = "put"
  BY <1>1, <1>2, <1>8, <1>10, <1>11, NewJobFields
<1>13. Wanted(job') = {CertRef(ca), KeyRef(ca), CertRef(server), KeyRef(server)}
  BY <1>12, WantedOf DEF todo
<1>14. Wanted(job') \cap HostRefs(state) = {}
  BY <1>6, <1>13, FreshRefs
<1>15. StagesFrom(state, job', k)
  BY <1>1, <1>3, <1>4, <1>7, <1>9, <1>12, <1>13 DEF StagesFrom, next, tls, ca, server
<1>16. Follows(state, job)'
  BY <1>1, <1>12, <1>15 DEF Follows
<1> QED
  BY <1>1, <1>2, <1>3, <1>10, <1>12, <1>14, <1>16, JobStarts DEF Swaps, k

\* Who asks has no certificate of the coming generation, and none comes.
LEMMA AskingNode ==
  ASSUME RotationInv, NEW n \in Nodes, InImpact(n), Asks(n)
  PROVE  /\ n \in ActiveNodes(state) /\ inbox[n] = Null /\ PendingIds(state) # {}
         /\ StagedNodeCertificates(state, n) = ComingOf(state, n)
         /\ \A c \in holds[n].ids : c.scope \notin PendingIds(state)
<1>1. Generations(state) /\ PendingIds(state) # {}
  BY View DEF RotationInv, StateInv, InImpact
<1>2. n \in ActiveNodes(state) /\ inbox[n] = Null
  BY DEF InImpact, ActiveNodes, Asks
<1>3. StagedNodeCertificates(state, n) = ComingOf(state, n)
  BY <1>1, View DEF StagedNodeCertificates, ComingOf
<1>4. holds[n].ids \cap ComingOf(state, n) = {}
  BY <1>3 DEF Asks
<1>5. Updated(state, holds, inbox, n)
  BY <1>2 DEF RotationInv, NodesInv, NodeInv
<1> QED
  BY <1>1, <1>2, <1>3, <1>4, <1>5 DEF Updated

LEMMA RepeatNodeTrustStep ==
  ASSUME RotationInv, NEW n \in Nodes, RepeatNodeTrust(n)
  PROVE  RotationInv'
<1> DEFINE u == TrustUpdate(state, n)
<1>1. /\ Idle /\ InImpact(n) /\ Asks(n) /\ StagedNodeCertificates(state, n) # {}
      /\ Deliver(n, u)
      /\ UNCHANGED <<state, secrets, listener, job, writer, holds, acks, minted, renewed>>
  BY DEF RepeatNodeTrust
<1>2. /\ StateInv(state) /\ state \in States /\ listener # Null /\ job = Null
      /\ listener = RuntimeOf(state) /\ NodesInv(state, holds, inbox, acks)
  BY <1>1 DEF RotationInv, StateInv, ListenerInv, Idle
<1>3. /\ n \in ActiveNodes(state) /\ StagedNodeCertificates(state, n) = ComingOf(state, n)
      /\ \A c \in holds[n].ids : c.scope \notin PendingIds(state)
  BY <1>1, AskingNode
<1>4. Single(ComingOf(state, n))
  BY <1>1, <1>2, <1>3 DEF StateInv, Issued, Single
<1>5. u.cert \in ComingOf(state, n) /\ u.bundle = Accepted(state)
      /\ u = [cert |-> u.cert, bundle |-> u.bundle]
  BY <1>3, <1>4, SoleOf DEF TrustUpdate, Accepted
<1>6. u.cert \in Certificates /\ u.cert.scope \in KnownScopes(state)
  BY <1>2, <1>5, StateFields DEF ComingOf, Coming, OfKind, StateInv, Records
<1>7. Accepted(state) \in SUBSET CAs
  BY <1>2, StateFields DEF Accepted, OfKind, Certificates
<1>8. u \in Updates
  BY <1>5, <1>6, <1>7 DEF Updates
<1>9. \A c \in Present(state, "ca") : c.ca \in u.bundle
  BY <1>5 DEF Present, Accepted
<1>10. state.life[n] # "absent"
  BY <1>3 DEF ActiveNodes
<1> HIDE DEF u
<1>11. NodesInv(state, holds, [inbox EXCEPT ![n] = u], acks)
  BY <1>2, <1>3, <1>5, <1>6, <1>8, <1>9, <1>10, DeliverNodes
<1> QED
  BY <1>1, <1>2, <1>11, DeliverStep

LEMMA UpdateNodeTrustStep ==
  ASSUME RotationInv, NEW n \in Nodes, UpdateNodeTrust(n)
  PROVE  RotationInv'
<1> DEFINE k == Rotation(state).id
           leaf == NodeCertificate(n, k, k, state.cred[n])
           next == Candidate(state, state.ops, state.certs \cup {leaf})
<1>1. /\ Idle /\ InImpact(n) /\ Asks(n) /\ StagedNodeCertificates(state, n) = {}
      /\ job' = NewJob("update", n, <<CertRef(leaf)>>, next, Null, {})
      /\ UNCHANGED <<state, secrets, listener, writer, nodeVars, minted, renewed, faults>>
  BY DEF UpdateNodeTrust
<1>2. /\ StateInv(state) /\ state \in States /\ Generations(state)
      /\ minted \in 0..MaxRotations /\ renewed \in 0..MaxRenewals
      /\ MaxRotations \in Nat /\ MaxRenewals \in Nat /\ MaxCredential \in Nat
  BY RotationAssumption DEF RotationInv, StateInv, CountsInv
<1>3. /\ n \in ActiveNodes(state) /\ inbox[n] = Null /\ PendingIds(state) # {}
      /\ ComingOf(state, n) = {}
  BY <1>1, AskingNode
<1>4. PendingIds(state) = {k} /\ Rotation(state) \in state.ops
  BY <1>2, <1>3, View DEF ActiveRotations
<1>5. k \in CAs /\ state.cred[n] \in 0..(MaxRenewals + MaxCredential)
  <2>1. k \in 1..MaxRotations /\ state.cred[n] \in 0..MaxCredential
    BY <1>2, <1>4, StateFields DEF Operations
  <2> QED
    BY <1>2, <2>1 DEF CAs
<1>6. leaf \in Certificates /\ leaf.kind = "node" /\ leaf.owner = n /\ leaf.scope = k
  BY <1>5 DEF NodeCertificate, Certificates
<1>7. next \in States
  <2>1. state.ops \in SUBSET Operations /\ state.certs \cup {leaf} \in SUBSET Certificates
    BY <1>2, <1>6, StateFields
  <2> QED
    BY <1>2, <2>1, CandidateType
<1>8. leaf \notin state.certs
  BY <1>3, <1>4, <1>6 DEF ComingOf, Coming, OfKind
<1>9. <<CertRef(leaf)>> \in Seq(References)
  BY <1>6 DEF References, CertRef
<1> HIDE DEF k, leaf, next
<1>10. /\ job' \in Jobs /\ job'.kind = "update" /\ job'.node = n /\ job'.todo = <<CertRef(leaf)>>
       /\ job'.next = next /\ job'.tls = Null /\ job'.drop = {}
       /\ job'.put = {} /\ job'.base = state.gen /\ job'.pc = "put"
  BY <1>1, <1>2, <1>7, <1>9, NewJobFields
<1>11. Wanted(job') \cap HostRefs(state) = {}
  BY <1>8, <1>10, WantedOf, FreshRefs
<1>12. UpdatesFrom(state, job', inbox)
  BY <1>3, <1>4, <1>10 DEF UpdatesFrom, next, leaf
<1>13. Follows(state, job)'
  BY <1>1, <1>10, <1>12 DEF Follows, nodeVars
<1> QED
  BY <1>1, <1>2, <1>10, <1>11, <1>13, JobStarts DEF Swaps

LEMMA AcknowledgeNodeTrustStep ==
  ASSUME RotationInv, NEW m \in acks, AcknowledgeNodeTrust(m)
  PROVE  RotationInv'
<1> DEFINE o == Rotation(state)
           n == m.node
           p == [o EXCEPT !.steps[n] = "completed"]
           next == Candidate(state, (state.ops \ {o}) \cup {p}, state.certs)
<1>1. /\ Idle /\ InImpact(n) /\ m.cert \in StagedNodeCertificates(state, n)
      /\ job' = NewJob("ack", n, <<>>, next, Null, {})
      /\ UNCHANGED <<state, secrets, listener, writer, nodeVars, minted, renewed, faults>>
  BY DEF AcknowledgeNodeTrust
<1>2. /\ StateInv(state) /\ state \in States /\ Generations(state)
      /\ minted \in 0..MaxRotations /\ renewed \in 0..MaxRenewals /\ n \in Nodes
  BY DEF RotationInv, StateInv, CountsInv, NodesInv, NodeTypes
<1>3. PendingIds(state) # {}
  BY <1>1, <1>2, View DEF InImpact
<1>4. /\ ActiveRotations(state) = {o} /\ o \in Operations
      /\ StagedNodeCertificates(state, n) = ComingOf(state, n)
  <2>1. ActiveRotations(state) = {o} /\ StagedNodeCertificates(state, n) = ComingOf(state, n)
    BY <1>2, <1>3, View DEF StagedNodeCertificates, ComingOf
  <2> QED
    BY <1>2, <2>1, StateFields DEF ActiveRotations
<1>5. p \in Operations
  BY <1>2, <1>4 DEF Operations
<1>6. next \in States
  <2>1. (state.ops \ {o}) \cup {p} \in SUBSET Operations /\ state.certs \in SUBSET Certificates
    BY <1>2, <1>5, StateFields
  <2> QED
    BY <1>2, <2>1, CandidateType
<1> DEFINE todo == <<>>
<1>7. todo \in Seq(References) /\ n \in Nodes \cup {Null}
  BY <1>2
<1> HIDE DEF o, next, n, todo
<1>8. /\ job' \in Jobs /\ job'.kind = "ack" /\ job'.node = n /\ job'.todo = todo
      /\ job'.next = next /\ job'.tls = Null /\ job'.drop = {}
      /\ job'.put = {} /\ job'.base = state.gen /\ job'.pc = "put"
  <2>1. job' = NewJob("ack", n, todo, next, Null, {})
    BY <1>1 DEF todo
  <2> QED
    BY <1>2, <1>6, <1>7, <2>1, NewJobFields
<1>9. Wanted(job') \cap HostRefs(state) = {}
  BY <1>8, WantedOf DEF todo
<1>10. AcknowledgesFrom(state, job', acks)
  BY <1>1, <1>4, <1>8 DEF AcknowledgesFrom, next, n
<1>11. Follows(state, job)'
  BY <1>1, <1>8, <1>10 DEF Follows, nodeVars
<1> QED
  BY <1>1, <1>2, <1>8, <1>9, <1>11, JobStarts DEF Swaps

LEMMA FinishStep ==
  ASSUME RotationInv, NEW commit \in BOOLEAN, Finish(commit)
  PROVE  RotationInv'
<1> DEFINE o == Rotation(state)
           kept(kind) == IF commit THEN New(state, kind) ELSE Old(state, kind)
           ca == Sole(kept("ca"))
           server == Sole(kept("server"))
           gone == Removed(state, commit)
           p == [o EXCEPT !.status = IF commit THEN "completed" ELSE "failed"]
           next == Candidate(state, (state.ops \ {o}) \cup {p}, state.certs \ gone)
           tls == TLS(server, {ca.ca})
           drop == UNION {Refs(c) : c \in gone}
           todo == <<>>
<1>1. /\ Idle /\ Rotating(state) /\ (commit => RotationReady(state))
      /\ {CertRef(ca), CertRef(server), KeyRef(server)} \subseteq secrets
      /\ job' = NewJob("finish", Null, todo, next, tls, drop)
      /\ UNCHANGED <<state, secrets, listener, writer, nodeVars, minted, renewed, faults>>
  BY DEF Finish
<1>2. /\ StateInv(state) /\ state \in States /\ Generations(state)
      /\ minted \in 0..MaxRotations /\ renewed \in 0..MaxRenewals
  BY DEF RotationInv, StateInv, CountsInv
<1>3. /\ PendingIds(state) # {} /\ ActiveRotations(state) = {o} /\ PendingIds(state) = {o.id}
      /\ o \in state.ops /\ o \in Operations
      /\ \A kind : New(state, kind) = Coming(state, kind) /\ Old(state, kind) = Present(state, kind)
  <2>1. /\ PendingIds(state) # {} /\ ActiveRotations(state) = {o} /\ PendingIds(state) = {o.id}
        /\ \A kind : New(state, kind) = Coming(state, kind) /\ Old(state, kind) = Present(state, kind)
    BY <1>1, <1>2, View
  <2>2. o \in state.ops
    BY <2>1 DEF ActiveRotations
  <2> QED
    BY <1>2, <2>1, <2>2, StateFields
<1>4. kept("ca") = {ca} /\ kept("server") = {server}
  BY <1>2, <1>3, SoleOf DEF Generations
<1>5. server.ca = ca.ca
  <2>1. CASE commit
    <3>1. ca \in Coming(state, "ca") /\ server \in Coming(state, "server")
      BY <1>3, <1>4, <2>1
    <3>2. ca.ca = ca.scope /\ server.ca = server.scope
      BY <1>2, <3>1 DEF Generations
    <3> QED
      BY <1>3, <3>1, <3>2 DEF Coming
  <2>2. CASE ~commit
    <3>1. ca \in Present(state, "ca") /\ server \in Present(state, "server")
      BY <1>3, <1>4, <2>2
    <3> QED
      BY <1>2, <3>1 DEF Generations
  <2> QED
    BY <2>1, <2>2
<1>6. ca \in Certificates /\ server \in Certificates /\ ca.ca \in CAs
  <2>1. ca \in state.certs /\ server \in state.certs
    BY <1>4 DEF New, Old, OfKind
  <2> QED
    BY <1>2, <2>1, StateFields DEF Certificates
<1>7. gone = {c \in state.certs : commit # (c.scope = o.id)}
  BY DEF Removed, Staged
<1>8. drop \in SUBSET References
  BY <1>2, <1>7, StateFields DEF Refs, CertRef, KeyRef, References
<1>9. p \in Operations /\ p.status # "pending"
  BY <1>3 DEF Operations
<1>10. /\ next.ops = (state.ops \ {o}) \cup {p} /\ next.certs = state.certs \ gone
  BY <1>2, CandidateFields
<1>11. next \in States
  <2>1. (state.ops \ {o}) \cup {p} \in SUBSET Operations /\ state.certs \ gone \in SUBSET Certificates
    BY <1>2, <1>9, StateFields
  <2> QED
    BY <1>2, <2>1, CandidateType
<1>12. tls \in TLSStates /\ ValidTLS(tls) /\ tls # Null
  <2>1. tls \in TLSStates /\ ValidTLS(tls)
    BY <1>5, <1>6 DEF TLS, TLSStates, ValidTLS
  <2> QED
    BY <2>1, NullAssumption
<1>13. \A kind : OfKind(next, kind) = kept(kind)
  BY <1>7, <1>10 DEF New, Old, OfKind, Staged
<1> HIDE DEF ca, server, gone, p, next, tls, drop, todo, kept, o
<1>14. ActiveRotations(next) = {} /\ PendingIds(next) = {} /\ ~Rotating(next)
  <2>1. \A y \in state.ops : y.status = "pending" => y = o
    BY <1>3 DEF ActiveRotations
  <2>2. ActiveRotations(next) = {}
    BY <1>9, <1>10, <2>1 DEF ActiveRotations
  <2>3. Cardinality(ActiveRotations(next)) = 0
    BY <2>2, FS_EmptySet
  <2> QED
    BY <2>2, <2>3 DEF PendingIds, Rotating
<1>15. CurrentCA(next) = ca /\ CurrentServer(next) = server
  BY <1>13, <1>14 DEF CurrentCA, CurrentServer, ca, server
<1>16. tls = RuntimeOf(next)
  BY <1>14, <1>15 DEF RuntimeOf, tls
<1>17. Material(next) \subseteq secrets
  <2>1. OfKind(next, "ca") = {ca} /\ Present(next, "server") = {server}
    BY <1>4, <1>13, <1>14 DEF Present
  <2> QED
    BY <1>1, <2>1 DEF Material
<1>18. /\ job' \in Jobs /\ job'.kind = "finish" /\ job'.todo = todo
       /\ job'.next = next /\ job'.tls = tls /\ job'.drop = drop
       /\ job'.put = {} /\ job'.base = state.gen /\ job'.pc = "put"
  <2>1. todo \in Seq(References)
    BY DEF todo
  <2> QED
    BY <1>1, <1>2, <1>8, <1>11, <1>12, <2>1, NewJobFields
<1>19. Wanted(job') \cap HostRefs(state) = {}
  BY <1>18, WantedOf DEF todo
<1>20. FinishesBy(state, job', secrets, o, commit)
  <2>1. commit => Ready(state)
    BY <1>1, <1>3 DEF RotationReady, Ready, o
  <2> QED
    BY <1>7, <1>16, <1>17, <1>18, <2>1 DEF FinishesBy, next, p, drop
<1>21. FinishesFrom(state, job', secrets)
  BY <1>3, <1>20 DEF FinishesFrom
<1>22. Follows(state, job)'
  BY <1>1, <1>18, <1>21 DEF Follows
<1> QED
  BY <1>1, <1>2, <1>12, <1>18, <1>19, <1>22, JobStarts DEF Swaps

LEMMA RenewStep ==
  ASSUME RotationInv, RenewIfNeeded
  PROVE  RotationInv'
<1> DEFINE leaf == HostCertificate("server", CurrentCA(state).ca, 0, renewed + 1)
           next == Candidate(state, state.ops,
                             (state.certs \ {CurrentServer(state)}) \cup {leaf})
           tls == TLS(leaf, listener.cas)
           todo == <<CertRef(leaf), KeyRef(leaf)>>
<1>1. /\ Idle /\ renewed < MaxRenewals /\ renewed' = renewed + 1
      /\ job' = NewJob("renew", Null, todo, next, tls, {})
      /\ UNCHANGED <<state, secrets, listener, writer, nodeVars, minted, faults>>
  BY DEF RenewIfNeeded
<1>2. /\ StateInv(state) /\ state \in States /\ Generations(state)
      /\ minted \in 0..MaxRotations /\ renewed \in 0..MaxRenewals
      /\ \A c \in OfKind(state, "server") : c.serial <= renewed
      /\ MaxRotations \in Nat /\ MaxRenewals \in Nat /\ MaxCredential \in Nat
  BY RotationAssumption DEF RotationInv, StateInv, CountsInv
<1>3. /\ renewed + 1 \in 1..MaxRenewals /\ renewed + 1 \in 0..(MaxRenewals + MaxCredential)
      /\ renewed + 1 \in 0..MaxRenewals /\ 0 \in CAs
  BY <1>1, <1>2 DEF CAs
<1>4. /\ Present(state, "ca") = {CurrentCA(state)} /\ Present(state, "server") = {CurrentServer(state)}
      /\ CurrentCA(state).ca \in Accepted(state) /\ listener.cas = Accepted(state)
      /\ Accepted(state) \in SUBSET CAs
  <2>1. listener = RuntimeOf(state)
    BY <1>1 DEF RotationInv, ListenerInv, Idle
  <2>2. Accepted(state) \in SUBSET CAs
    BY <1>2, StateFields DEF Accepted, OfKind, Certificates
  <2> QED
    BY <1>2, <2>1, <2>2, InForce, RuntimeType
<1>5. /\ leaf \in Certificates /\ leaf.kind = "server" /\ leaf.serial = renewed + 1
      /\ leaf.ca = CurrentCA(state).ca
  <2>1. CurrentCA(state).ca \in CAs
    BY <1>4
  <2> QED
    BY <1>3, <2>1 DEF HostCertificate, Certificates
<1>6. leaf \notin state.certs
  <2> SUFFICES ASSUME leaf \in state.certs
               PROVE  FALSE
    OBVIOUS
  <2>1. leaf.serial <= renewed
    BY <1>2, <1>5 DEF OfKind
  <2> QED
    BY <1>2, <1>5, <2>1
<1>7. next \in States
  <2>1. /\ state.ops \in SUBSET Operations
        /\ (state.certs \ {CurrentServer(state)}) \cup {leaf} \in SUBSET Certificates
    BY <1>2, <1>5, StateFields
  <2> QED
    BY <1>2, <2>1, CandidateType
<1>8. tls \in TLSStates /\ ValidTLS(tls) /\ tls # Null
  <2>1. tls \in TLSStates /\ ValidTLS(tls)
    BY <1>4, <1>5 DEF TLS, TLSStates, ValidTLS
  <2> QED
    BY <2>1, NullAssumption
<1>9. todo \in Seq(References)
  BY <1>5 DEF References, CertRef, KeyRef
<1> HIDE DEF leaf, next, tls, todo
<1>10. /\ job' \in Jobs /\ job'.kind = "renew" /\ job'.todo = todo
       /\ job'.next = next /\ job'.tls = tls /\ job'.drop = {}
       /\ job'.put = {} /\ job'.base = state.gen /\ job'.pc = "put"
  BY <1>1, <1>2, <1>7, <1>8, <1>9, NewJobFields
<1>11. Wanted(job') = {CertRef(leaf), KeyRef(leaf)}
  BY <1>10, WantedOf DEF todo
<1>12. Wanted(job') \cap HostRefs(state) = {}
  BY <1>6, <1>11, FreshRefs
<1>13. RenewsFrom(state, job', renewed + 1)
  BY <1>3, <1>4, <1>10, <1>11 DEF RenewsFrom, next, tls, leaf
<1>14. Follows(state, job)'
  BY <1>1, <1>10, <1>13 DEF Follows
<1> QED
  BY <1>1, <1>2, <1>3, <1>8, <1>10, <1>12, <1>14, JobStarts DEF Swaps

-----------------------------------------------------------------------------
(* The other commands, a crash and a start.                                *)

LEMMA LoadForWriteStep ==
  ASSUME RotationInv, NEW w \in Writes, LoadForWrite(w[1], w[2])
  PROVE  RotationInv'
<1>1. w[1] \in WriteKinds /\ w[2] \in Nodes
  BY RotationAssumption DEF WriteKinds
<1>2. state \in States /\ state.gen \in Nat
  BY StateFields DEF RotationInv, StateInv
<1>3. /\ Writable(state, w[1], w[2]) /\ (InController(w[1]) => listener # Null)
      /\ writer' = [kind |-> w[1], node |-> w[2], base |-> state.gen]
      /\ UNCHANGED <<state, secrets, listener, job, holds, inbox, acks, minted, renewed, faults>>
  BY DEF LoadForWrite, nodeVars
<1>4. WriterInv'
  <2>1. /\ writer' \in [kind : WriteKinds, node : Nodes, base : Nat]
        /\ writer'.kind = w[1] /\ writer'.node = w[2] /\ writer'.base = state.gen
    BY <1>1, <1>2, <1>3
  <2> QED
    BY <1>2, <1>3, <2>1 DEF WriterInv
<1>5. ListenerInv'
  <2>1. ASSUME job # Null
        PROVE  JobInv'
    BY <1>3, <2>1, JobAlongNodes DEF RotationInv, ListenerInv
  <2> QED
    BY <1>3, <2>1 DEF RotationInv, ListenerInv
<1> QED
  BY <1>3, <1>4, <1>5 DEF RotationInv, CountsInv

\* A command that revokes or deletes a node makes the save of the operation
\* at work fail, and leaves what it refers to.
LEMMA JobAlongMembers ==
  ASSUME JobInv, job # Null, StateInv(state), NodesInv(state, holds, inbox, acks),
         UNCHANGED <<secrets, listener, job, holds, inbox, acks, minted, renewed>>,
         state'.gen = state.gen + 1, ActiveNodes(state') \subseteq ActiveNodes(state),
         \A n \in Nodes : state'.life[n] = "absent" => state.life[n] = "absent",
         ActiveRotations(state') = ActiveRotations(state),
         PendingIds(state') = PendingIds(state), KnownScopes(state') = KnownScopes(state),
         Present(state', "ca") = Present(state, "ca"), Accepted(state') = Accepted(state),
         \A n \in ActiveNodes(state') : ComingOf(state', n) = ComingOf(state, n),
         HostRefs(state') = HostRefs(state), RuntimeOf(state') = RuntimeOf(state)
  PROVE  JobInv'
<1>1. job.pc = "put" => AtPut'
  <2>1. state.gen \in Nat /\ job.base \in Nat
    BY StateFields DEF StateInv, JobInv, Jobs
  <2> QED
    BY <2>1 DEF JobInv, AtPut
<1>2. job.pc = "cleanup" => AtCleanup'
  BY DEF JobInv, AtCleanup
<1>3. job.pc = "return" => AtReturn'
  BY DEF JobInv, AtReturn
<1>4. job.pc = "activate" => AtActivate'
  BY DEF JobInv, AtActivate
<1>5. job.pc = "answer" => AtAnswer'
  <2> SUFFICES ASSUME job.pc = "answer"
               PROVE  AtAnswer'
    OBVIOUS
  <2> DEFINE n == job.node
             u == TrustUpdate(job.next, n)
  <2>1. AtAnswer
    BY DEF JobInv
  <2>2. TrustUpdate(job'.next, job'.node) = u
    OBVIOUS
  <2> HIDE DEF u
  <2> QED
    BY <2>1, <2>2 DEF AtAnswer, u
<1> QED
  BY <1>1, <1>2, <1>3, <1>4, <1>5 DEF JobInv

LEMMA RemoveMember ==
  ASSUME RotationInv, NEW kind \in {"revoke", "delete"}, NEW n \in Nodes,
         Writable(state, kind, n), state' = Written(state, kind, n), writer' = Null,
         UNCHANGED <<secrets, listener, job, holds, inbox, acks, minted, renewed, faults>>
  PROVE  RotationInv'
<1> DEFINE s == state
           t == Written(state, kind, n)
           phase == IF kind = "revoke" THEN "revoked" ELSE "deleted"
<1>1. /\ StateInv(s) /\ s \in States /\ NodesInv(s, holds, inbox, acks)
      /\ s.life[n] \in {"active", "revoked"} /\ n # Host
  BY RotationAssumption DEF RotationInv, StateInv, Writable
<1>2. /\ t.gen = s.gen + 1 /\ t.ops = s.ops /\ t.cred = s.cred
      /\ t.life = [s.life EXCEPT ![n] = phase]
      /\ t.certs = IF kind = "revoke" THEN s.certs ELSE s.certs \ CertsOf(s, n)
      /\ t \in States
  <2>1. CASE kind = "revoke"
    <3>1. t = [s EXCEPT !.gen = @ + 1, !.life[n] = "revoked"]
      BY <2>1 DEF Written
    <3>2. /\ t.gen = s.gen + 1 /\ t.ops = s.ops /\ t.cred = s.cred /\ t.certs = s.certs
          /\ t.life = [s.life EXCEPT ![n] = "revoked"]
          /\ t = [gen |-> t.gen, ops |-> t.ops, certs |-> t.certs, life |-> t.life, cred |-> t.cred]
      BY <1>1, <3>1 DEF States
    <3> HIDE DEF t
    <3>3. t.life \in [Nodes -> {"absent", "active", "revoked", "deleted"}] /\ t.gen \in Nat
      BY <1>1, <3>2, StateFields
    <3>4. t \in States
      BY <1>1, <3>2, <3>3, StateFields DEF States
    <3> QED
      BY <2>1, <3>2, <3>4
  <2>2. CASE kind = "delete"
    <3>1. t = [s EXCEPT !.gen = @ + 1, !.life[n] = "deleted", !.certs = @ \ CertsOf(s, n)]
      BY <2>2 DEF Written
    <3>2. /\ t.gen = s.gen + 1 /\ t.ops = s.ops /\ t.cred = s.cred
          /\ t.certs = s.certs \ CertsOf(s, n) /\ t.life = [s.life EXCEPT ![n] = "deleted"]
          /\ t = [gen |-> t.gen, ops |-> t.ops, certs |-> t.certs, life |-> t.life, cred |-> t.cred]
      BY <1>1, <3>1 DEF States
    <3> HIDE DEF t
    <3>3. t.life \in [Nodes -> {"absent", "active", "revoked", "deleted"}] /\ t.gen \in Nat
      BY <1>1, <3>2, StateFields
    <3>4. t \in States
      BY <1>1, <3>2, <3>3, StateFields DEF States
    <3> QED
      BY <2>2, <3>2, <3>4
  <2> QED
    BY <2>1, <2>2
<1> HIDE DEF t
<1>3. /\ t.certs \subseteq s.certs
      /\ \A c \in s.certs : c \notin t.certs => c.owner = n /\ c.kind = "node"
  BY <1>1, <1>2 DEF CertsOf, StateInv, Records
<1>4. OfKind(t, "ca") = OfKind(s, "ca") /\ OfKind(t, "server") = OfKind(s, "server")
  BY <1>3 DEF OfKind
<1>5. /\ n \notin ActiveNodes(t) /\ ActiveNodes(t) \subseteq ActiveNodes(s)
      /\ \A m \in Nodes : t.life[m] = "absent" => s.life[m] = "absent"
  <2>1. s.life \in [Nodes -> {"absent", "active", "revoked", "deleted"}]
    BY <1>1, StateFields
  <2>2. t.life[n] = phase /\ phase \notin {"absent", "active"}
        /\ \A m \in Nodes : m # n => t.life[m] = s.life[m]
    BY <1>2, <2>1
  <2> QED
    BY <2>2 DEF ActiveNodes
<1>6. \A m \in ActiveNodes(t) : \A c \in s.certs : c.owner = m => c \in t.certs
  BY <1>3, <1>5
<1>7. /\ StateInv(t) /\ ActiveRotations(t) = ActiveRotations(s)
      /\ PendingIds(t) = PendingIds(s) /\ KnownScopes(t) = KnownScopes(s)
      /\ Present(t, "ca") = Present(s, "ca") /\ Accepted(t) = Accepted(s)
      /\ \A m \in ActiveNodes(t) :
           PresentOf(t, m) = PresentOf(s, m) /\ ComingOf(t, m) = ComingOf(s, m)
      /\ Material(t) = Material(s) /\ HostRefs(t) = HostRefs(s)
      /\ RuntimeOf(t) = RuntimeOf(s)
  BY <1>1, <1>2, <1>3, <1>4, <1>5, <1>6, FewerMembers
<1>8. NodesInv(t, holds, inbox, acks)
  <2>1. \A m \in ActiveNodes(t) : \A o \in ActiveRotations(t) : o.steps[m] = "completed" =>
          ComingOf(t, m) # {} /\ ComingOf(t, m) \subseteq holds[m].ids
    BY <1>1, <1>5, <1>7 DEF NodesInv, NodeInv, Acknowledged
  <2> QED
    BY <1>1, <1>5, <1>7, <2>1, SameNodes
<1>9. ListenerInv'
  <2>1. ASSUME job # Null
        PROVE  JobInv'
    <3>1. JobInv /\ state' = t
      BY <2>1 DEF RotationInv, ListenerInv, t
    <3> QED
      BY <1>1, <1>2, <1>5, <1>7, <2>1, <3>1, JobAlongMembers
  <2> QED
    BY <1>7, <2>1 DEF RotationInv, ListenerInv, t
<1>10. CountsInv'
  <2>1. state' = t
    BY DEF t
  <2> QED
    BY <1>2, <1>4, <2>1 DEF RotationInv, CountsInv
<1>11. SecretsInv(t, secrets)
  BY <1>7 DEF RotationInv, SecretsInv
<1>12. WriterInv'
  BY DEF WriterInv
<1> QED
  BY <1>7, <1>8, <1>9, <1>10, <1>11, <1>12 DEF RotationInv, t

LEMMA IssueMember ==
  ASSUME RotationInv, NEW kind \in {"join", "replace"}, NEW n \in Nodes, job = Null,
         Writable(state, kind, n), state' = Written(state, kind, n), writer' = Null,
         holds' = [holds EXCEPT ![n] = IssuedTo(n, state')],
         secrets' = (secrets \ {CertRef(c) : c \in CertsOf(state, n)})
                       \cup {CertRef(c) : c \in CertsOf(state', n)},
         UNCHANGED <<listener, job, inbox, acks, minted, renewed, faults>>
  PROVE  RotationInv'
<1> DEFINE s == state
           t == IssueTo(state, n)
<1>1. state' = t
  BY DEF Written
<1>2. /\ StateInv(s) /\ s \in States /\ NodesInv(s, holds, inbox, acks)
      /\ Material(s) \subseteq secrets /\ secrets \subseteq References
  BY DEF RotationInv, StateInv, SecretsInv
<1>3. /\ Cardinality(OfKind(s, "ca")) = 1 /\ s.life[n] \in {"absent", "active"}
      /\ s.cred[n] < MaxCredential
  <2>1. CASE kind = "join"
    <3>1. s.life[n] = "absent" /\ Cardinality(OfKind(s, "ca")) = 1
      BY <2>1 DEF Writable
    <3>2. s.cred[n] = 0
      BY <1>2, <3>1 DEF StateInv, Unissued
    <3> QED
      BY <3>1, <3>2, RotationAssumption
  <2>2. CASE kind = "replace"
    BY <2>2 DEF Writable
  <2> QED
    BY <2>1, <2>2
<1> HIDE DEF t
<1>4. /\ StateInv(t) /\ NodesInv(t, [holds EXCEPT ![n] = IssuedTo(n, t)], inbox, acks)
      /\ t.gen = s.gen + 1 /\ t.ops = s.ops
      /\ RuntimeOf(t) = RuntimeOf(s) /\ Material(t) = Material(s)
      /\ HostRefs(t) = HostRefs(s) /\ OfKind(t, "server") = OfKind(s, "server")
      /\ \A c \in CertsOf(s, n) \cup CertsOf(t, n) : c.kind = "node"
      /\ CertsOf(t, n) \subseteq Certificates
  BY <1>2, <1>3, IssueState DEF t
<1>5. NodesInv(state, holds, inbox, acks)'
  BY <1>1, <1>4
<1>6. SecretsInv(t, secrets')
  <2>1. {CertRef(c) : c \in CertsOf(s, n)} \cap HostRefs(s) = {}
    <3> SUFFICES ASSUME NEW c \in CertsOf(s, n), NEW d \in s.certs, d.kind # "node",
                        CertRef(c) \in Refs(d)
                 PROVE  FALSE
      BY DEF HostRefs
    <3>1. c # d /\ CertRef(c) \in Refs(c)
      BY <1>4 DEF Refs
    <3> QED
      BY <3>1, RefsDistinct
  <2>2. Material(s) \subseteq HostRefs(s)
    BY MaterialIsHost
  <2>3. {CertRef(c) : c \in CertsOf(t, n)} \subseteq References
    BY <1>4 DEF CertRef, References
  <2> QED
    BY <1>1, <1>2, <1>4, <2>1, <2>2, <2>3 DEF SecretsInv
<1>7. CountsInv'
  BY <1>1, <1>4 DEF RotationInv, CountsInv
<1>8. ListenerInv'
  BY <1>1, <1>4 DEF RotationInv, ListenerInv
<1>9. WriterInv'
  BY DEF WriterInv
<1> QED
  BY <1>1, <1>4, <1>5, <1>6, <1>7, <1>8, <1>9 DEF RotationInv

LEMMA SaveWriteStep ==
  ASSUME RotationInv, SaveWrite
  PROVE  RotationInv'
<1> DEFINE kind == writer.kind
           n == writer.node
<1>1. /\ writer # Null /\ kind \in WriteKinds /\ n \in Nodes
      /\ (state.gen = writer.base => Writable(state, kind, n))
      /\ (InController(kind) => job = Null)
      /\ writer' = Null /\ UNCHANGED <<listener, job, inbox, acks, minted, renewed, faults>>
  BY DEF SaveWrite, RotationInv, WriterInv
<1>2. CASE state.gen # writer.base /\ UNCHANGED <<state, holds, secrets>>
  <2>1. ASSUME job # Null
        PROVE  JobInv'
    BY <1>1, <1>2, <2>1, JobAlongNodes DEF RotationInv, ListenerInv
  <2>2. ListenerInv'
    BY <1>1, <1>2, <2>1 DEF RotationInv, ListenerInv
  <2> QED
    BY <1>1, <1>2, <2>2 DEF RotationInv, CountsInv, WriterInv
<1>3. CASE state.gen = writer.base /\ ~InController(kind)
  <2>1. kind \in {"revoke", "delete"}
    BY <1>1, <1>3 DEF InController, WriteKinds
  <2>2. state' = Written(state, kind, n) /\ UNCHANGED <<holds, secrets>>
    BY <1>3 DEF SaveWrite
  <2> QED
    BY <1>1, <1>3, <2>1, <2>2, RemoveMember
<1>4. CASE state.gen = writer.base /\ InController(kind)
  <2>1. kind \in {"join", "replace"}
    BY <1>4 DEF InController
  <2>2. /\ state' = Written(state, kind, n) /\ holds' = [holds EXCEPT ![n] = IssuedTo(n, state')]
        /\ secrets' = (secrets \ {CertRef(c) : c \in CertsOf(state, n)})
                         \cup {CertRef(c) : c \in CertsOf(state', n)}
    BY <1>4 DEF SaveWrite
  <2> QED
    BY <1>1, <1>4, <2>1, <2>2, IssueMember
<1> QED
  BY <1>2, <1>3, <1>4 DEF SaveWrite

LEMMA CrashOrStartStep ==
  ASSUME RotationInv, Crash \/ Start
  PROVE  RotationInv'
<1>1. CASE Crash
  <2>1. /\ listener' = Null /\ job' = Null
        /\ writer' = (IF writer # Null /\ InController(writer.kind) THEN Null ELSE writer)
        /\ UNCHANGED <<state, secrets, holds, inbox, acks, minted, renewed>>
    BY <1>1 DEF Crash, nodeVars
  <2>2. faults' \in 0..MaxFaults
    BY <1>1, RotationAssumption DEF Crash, Fault, RotationInv, CountsInv
  <2>3. WriterInv'
    BY <2>1 DEF RotationInv, WriterInv
  <2> QED
    BY <2>1, <2>2, <2>3 DEF RotationInv, CountsInv, ListenerInv
<1>2. CASE Start
  <2>1. /\ listener = Null /\ listener' = RuntimeOf(state)
        /\ UNCHANGED <<state, secrets, job, writer, holds, inbox, acks, minted, renewed, faults>>
    BY <1>2 DEF Start, nodeVars
  <2>2. job = Null
    BY <2>1 DEF RotationInv, ListenerInv, JobInv
  <2>3. WriterInv'
    BY <2>1, WriterOn DEF RotationInv
  <2> QED
    BY <2>1, <2>2, <2>3 DEF RotationInv, CountsInv, ListenerInv
<1> QED
  BY <1>1, <1>2

-----------------------------------------------------------------------------
(* The theorems.                                                           *)

LEMMA RotationInvNext ==
  ASSUME RotationInv, [Next]_vars, Faults \cap LateErrors = {}
  PROVE  RotationInv'
<1>1. CASE Proceed
  BY <1>1, PutSecretStep, SaveStep, CleanupOrReturnStep, ActivateStep, AnswerStep DEF Proceed
<1>2. CASE Stage
  BY <1>2, StageStep
<1>3. ASSUME NEW n \in Nodes, RepeatNodeTrust(n) \/ UpdateNodeTrust(n)
      PROVE  RotationInv'
  BY <1>3, RepeatNodeTrustStep, UpdateNodeTrustStep
<1>4. ASSUME NEW n \in Nodes, Install(n) \/ SendAcknowledgement(n) \/ Shrink(n)
      PROVE  RotationInv'
  BY <1>4, NodeStep
<1>5. ASSUME NEW m \in acks, AcknowledgeNodeTrust(m)
      PROVE  RotationInv'
  BY <1>5, AcknowledgeNodeTrustStep
<1>6. ASSUME NEW commit \in BOOLEAN, Finish(commit)
      PROVE  RotationInv'
  BY <1>6, FinishStep
<1>7. CASE RenewIfNeeded
  BY <1>7, RenewStep
<1>8. ASSUME NEW w \in Writes, LoadForWrite(w[1], w[2])
      PROVE  RotationInv'
  BY <1>8, LoadForWriteStep
<1>9. CASE SaveWrite
  BY <1>9, SaveWriteStep
<1>10. CASE Crash \/ Start
  BY <1>10, CrashOrStartStep
<1>11. CASE UNCHANGED vars
  <2>1. UNCHANGED <<state, secrets, listener, job, writer, holds, inbox, acks, minted,
                    renewed, faults>>
    BY <1>11 DEF vars
  <2>2. ASSUME job # Null
        PROVE  JobInv'
    BY <2>1, <2>2, JobAlongNodes DEF RotationInv, ListenerInv
  <2>3. ListenerInv'
    BY <2>1, <2>2 DEF RotationInv, ListenerInv
  <2>4. WriterInv'
    BY <2>1, WriterOn DEF RotationInv
  <2> QED
    BY <2>1, <2>3, <2>4 DEF RotationInv, CountsInv
<1> QED
  BY <1>1, <1>2, <1>3, <1>4, <1>5, <1>6, <1>7, <1>8, <1>9, <1>10, <1>11 DEF Next

\* Whatever operations, crashes, lost answers and failing steps interleave with
\* joins, replacements, revocations and deletions, and for any number of nodes,
\* rotations and renewals, no active node is ever locked out of a running
\* listener: as long as no save of stage, finish or RenewIfNeeded reports an
\* error after its write.
THEOREM NodesStayManageable ==
  ASSUME Faults \cap LateErrors = {}
  PROVE  Spec => []NodesManageable
<1>1. RotationInv /\ [Next]_vars => RotationInv'
  BY RotationInvNext
<1> QED
  BY <1>1, RotationInvInit, RotationInvManageable, PTL DEF Spec

\* On the same condition the stored state always names one CA, one leaf and
\* certificates that fit each other and whose secrets exist: the controller can
\* be started after a crash at any point, and a restart changes nothing a node
\* can see.
THEOREM IdentityIsSound ==
  ASSUME Faults \cap LateErrors = {}
  PROVE  Spec => []IdentitySound
<1>1. RotationInv /\ [Next]_vars => RotationInv'
  BY RotationInvNext
<1> QED
  BY <1>1, RotationInvInit, RotationInvIdentity, PTL DEF Spec
=============================================================================
