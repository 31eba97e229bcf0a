-------------------------- MODULE EnrollmentProofs --------------------------
(***************************************************************************)
(* For any number of machines, tokens, sessions and failures: a token      *)
(* admits once, committed nodes keep what they need, and the two sides of  *)
(* an exchange agree.                                                      *)
(***************************************************************************)
EXTENDS Enrollment, TLAPS, FiniteSetTheorems

(* Types of what TypeOK leaves open. *)
PCs == {"idle", "new", "authorized", "built", "ready", "staged", "reply"}
Peers == [Ids -> Nat]
SesStates ==
  [pc : PCs, host : Hosts \cup {"none"}, id : Ids \cup {"none"}, cred : Nat,
   tok : Invites \cup Recoveries \cup {"none"}, base : Nat, cand : Peers,
   snap : Peers, ownTls : BOOLEAN, out : {"no", "ok"}]
RevStates ==
  [pc : {"idle", "runtime", "credentials"}, id : Ids \cup {"none"},
   cred : Nat, cand : Peers]
HostStates ==
  [joined : BOOLEAN, id : Ids \cup {"none"}, cred : Nat,
   ask : Sessions \cup {"none"}, try : (Ids \cup {"none"}) \X Nat,
   keys : SUBSET (Ids \X Nat)]
TypeInv ==
  /\ TypeOK
  /\ ses \in [Sessions -> SesStates] /\ rev \in RevStates
  /\ host \in [Hosts -> HostStates]
  /\ drift \in BOOLEAN /\ faults \in Nat

Known(id) == nodes[id].lc # "none"
Key(s)    == <<ses[s].id, ses[s].cred>>
Busy(s)   == ses[s].pc \in {"new", "authorized", "built", "ready", "staged"}
Bound(s)  == ses[s].pc \in {"authorized", "built", "ready", "staged"}
Built(s)  == ses[s].pc \in {"built", "ready", "staged"}
Usable(i) == inv[i].st = "active" /\ i \notin expired

(* An invite that can still be used reserves its name.                     *)
NameReserved ==
  \A i \in Invites : Usable(i) =>
    /\ \A id \in Ids : Known(id) => nodes[id].name # inv[i].name
    /\ \A j \in Invites : inv[j].name = inv[i].name =>
         j = i \/ inv[j].st \in {"unissued", "cancelled"}
               \/ (inv[j].st = "active" /\ j \in expired)
(* Nodes and consumed invites correspond by name.                          *)
Correspond ==
  /\ \A i \in Invites : inv[i].st = "consumed" =>
       \E id \in Ids : Known(id) /\ nodes[id].name = inv[i].name
  /\ \A id \in Ids : Known(id) =>
       \E i \in Invites : inv[i].st = "consumed" /\ inv[i].name = nodes[id].name
  /\ \A id, jd \in Ids : Known(id) /\ Known(jd) /\ nodes[id].name = nodes[jd].name
       => id = jd
  /\ \A i, j \in Invites :
       inv[i].st = "consumed" /\ inv[j].st = "consumed" /\ inv[i].name = inv[j].name
       => i = j
IssuedRecovery ==
  \A r \in Recoveries : rec[r].st # "unissued" => rec[r].id \in Ids /\ Known(rec[r].id)

(* What a session may rely on: its token, and as long as the generation is *)
(* the one it has authorized against, the state it has read.               *)
SesTyped(s) ==
  /\ ~At(s, "idle") => /\ ses[s].host \in Hosts /\ ses[s].id \in Ids
                       /\ ses[s].tok \in Invites \cup Recoveries
  /\ At(s, "staged") => IsJoin(s)
SesToken(s) ==
  Busy(s) =>
    IF IsJoin(s) THEN ses[s].cred = 1 /\ ~Known(ses[s].id)
    ELSE LET r == rec[ses[s].tok] IN
         r.st # "unissued" /\ r.id = ses[s].id /\ ses[s].cred = r.cred + 1
SesFresh(s) ==
  Bound(s) =>
    /\ ses[s].base <= gen
    /\ ses[s].base = gen =>
         IF IsJoin(s) THEN inv[ses[s].tok].st = "active"
         ELSE LET r == rec[ses[s].tok] IN
              r.st = "active" /\ Active(r.id) /\ nodes[r.id].cred = r.cred
(* No two exchanges are about the same credentials, unless the machine was *)
(* denied the first one and asks again.                                    *)
KeysApart ==
  \A s, t \in Sessions :
    s # t /\ ~At(s, "idle") /\ ~At(t, "idle") /\ Key(s) \notin denied => Key(s) # Key(t)

TokenInv ==
  /\ NameReserved /\ Correspond /\ IssuedRecovery /\ RecoveryAtomic
  /\ \A s \in Sessions : SesTyped(s) /\ SesToken(s) /\ SesFresh(s)
  /\ \A s, t \in Sessions : s # t /\ Busy(s) /\ Busy(t) /\ IsJoin(s) =>
       ses[s].id # ses[t].id

(* The revocation at work is of a revoked node. *)
RevInv ==
  rev.pc # "idle" => /\ rev.id \in Ids /\ nodes[rev.id].lc = "revoked"
                     /\ rev.cred = nodes[rev.id].cred

(* The tunnel identity has one maker, until the state records it.          *)
TlsInv ==
  /\ tlsRecord => tlsFile
  /\ \A id \in Ids : Active(id) => tlsRecord
  /\ \A s \in Sessions : ses[s].ownTls => Built(s) /\ IsJoin(s) /\ ~tlsRecord /\ tlsFile
  /\ \A s, t \in Sessions : ses[s].ownTls /\ ses[t].ownTls => s = t
  /\ \A s \in Sessions : Built(s) /\ IsJoin(s) => tlsRecord \/ ses[s].ownTls

(* A session keeps its own credentials in the store, which are not those   *)
(* of a node, nor another session's.                                       *)
Holds(s) == IF IsJoin(s) THEN At(s, "staged") ELSE Built(s)
SecretInv ==
  /\ \A id \in Ids : Active(id) => <<id, nodes[id].cred>> \in secrets
  /\ \A s \in Sessions : Built(s) /\ ~IsJoin(s) =>
       Known(ses[s].id) /\ nodes[ses[s].id].cred # ses[s].cred
  /\ \A s \in Sessions : Holds(s) => Key(s) \in secrets
  /\ \A s, t \in Sessions : s # t /\ Built(s) /\ Built(t) => Key(s) # Key(t)
MaterialInv == RevInv /\ TlsInv /\ SecretInv

(* Whose rendering of the state is in force.                               *)
CandInv ==
  \A s \in Sessions : Built(s) /\ ses[s].base = gen =>
    ses[s].cand = [Image EXCEPT ![ses[s].id] = ses[s].cred]
Calm == ~drift /\ ~overlap
RevHolds == overlap \in BOOLEAN /\ (mutex = Revoker => rev.pc # "idle")
Quiescent ==
  /\ rev.pc = "runtime" /\ mutex = Revoker => rev.cand = Image
  /\ rev.pc # "runtime" /\ mutex \in {Nobody, Revoker} => rt = Image
  /\ rev.pc # "runtime" => \A s \in Sessions :
       InForce(s) => rt = ses[s].cand /\ ses[s].snap = Image
RuntimeInv == RevHolds /\ CandInv /\ (Calm => Quiescent)

(* What the machines keep.                                                 *)
SesKey == \A s \in Sessions : ~At(s, "idle") /\ Key(s) \notin denied =>
  /\ Key(s) \in host[ses[s].host].keys
  /\ ~Fresh(ses[s].host) => Key(s) # <<host[ses[s].host].id, host[ses[s].host].cred>>
HostsApart ==
  \A g, h \in Hosts : \A k \in host[g].keys, l \in host[h].keys : k[1] = l[1] => g = h
KeyRange == \A h \in Hosts : \A k \in host[h].keys :
  k[2] > 0 /\ (k[2] > 1 => Known(k[1]))
Asking == \A h \in Hosts : ~Silent(h) =>
  /\ host[h].try \in host[h].keys
  /\ IF Fresh(h) THEN host[h].try[2] = 1
     ELSE host[h].try = <<host[h].id, host[h].cred + 1>>
JoinedKey == \A h \in Hosts : ~Fresh(h) =>
  host[h].id \in Ids /\ <<host[h].id, host[h].cred>> \in host[h].keys
HostInv == SesKey /\ HostsApart /\ KeysApart /\ KeyRange /\ Asking /\ JoinedKey
ReplyInv ==
  /\ \A s \in Sessions : At(s, "reply") /\ ses[s].out = "ok" =>
       Known(ses[s].id) /\ ses[s].cred <= nodes[ses[s].id].cred
  /\ \A s \in Sessions :
       (/\ Busy(s) \/ (At(s, "reply") /\ ses[s].out = "no")
        /\ Active(ses[s].id) /\ Key(s) \notin denied)
       => nodes[ses[s].id].cred # ses[s].cred
SidesInv == HostInv /\ ReplyInv /\ CommittedKeyKept /\ JoinedIsMember

-----------------------------------------------------------------------------
(* Types *)

USE EnrollmentAssumptions

(* An idle session and an idle revocation have their types. *)
LEMMA IdleTyped == Idle \in SesStates /\ NoRevocation \in RevStates
<1>1. Nothing \in Peers
  BY DEF Nothing, Peers
<1> QED
  BY <1>1 DEF Idle, SesStates, PCs, NoRevocation, RevStates

(* A rendering of the state is a set of peers. *)
LEMMA ImageTyped ==
  ASSUME TypeInv
  PROVE  Image \in Peers /\ \A id \in Ids, n \in Nat : [Image EXCEPT ![id] = n] \in Peers
BY DEF TypeInv, TypeOK, Image, Peers, Active

(* What one session's update does to the sessions. *)
Same(s) == /\ ses'[s].host = ses[s].host /\ ses'[s].id = ses[s].id
           /\ ses'[s].cred = ses[s].cred /\ ses'[s].tok = ses[s].tok
OthersKept(s) == \A t \in Sessions : t # s => ses'[t] = ses[t]
SesType == ses \in [Sessions -> SesStates]

(* An answer keeps whose exchange it is, and nothing of the candidate. *)
LEMMA Answers ==
  ASSUME TypeInv, NEW s \in Sessions, NEW out \in {"no", "ok"}, Answer(s, out)
  PROVE  /\ SesType' /\ Same(s) /\ OthersKept(s)
         /\ ses'[s].pc = "reply" /\ ses'[s].out = out /\ ses'[s].ownTls = FALSE
<1>1. ses[s] \in SesStates /\ DOMAIN ses = Sessions
  BY DEF TypeInv
<1> DEFINE r == [Idle EXCEPT !.pc = "reply", !.host = ses[s].host,
                   !.id = ses[s].id, !.cred = ses[s].cred,
                   !.tok = ses[s].tok, !.out = out]
<1>2. /\ r \in SesStates /\ r.pc = "reply" /\ r.out = out /\ r.ownTls = FALSE
      /\ r.host = ses[s].host /\ r.id = ses[s].id /\ r.cred = ses[s].cred
      /\ r.tok = ses[s].tok
  BY <1>1, IdleTyped DEF Idle, SesStates, PCs
<1>3. ses' = [ses EXCEPT ![s] = r]
  BY DEF Answer
<1> HIDE DEF r
<1> QED
  BY <1>1, <1>2, <1>3 DEF SesType, Same, OthersKept, TypeInv

(* A step within a session moves its program counter and keeps the rest,   *)
(* but for what the step itself writes.                                    *)
Moved(s, pc) == /\ SesType' /\ Same(s) /\ OthersKept(s)
                /\ ses'[s].pc = pc

(* A session that authorises its token notes the generation it read. *)
LEMMA Authorizes ==
  ASSUME TypeInv, NEW s \in Sessions,
         ses' = [ses EXCEPT ![s].pc = "authorized", ![s].base = gen]
  PROVE  Moved(s, "authorized") /\ ses'[s].base = gen /\ ses'[s].ownTls = ses[s].ownTls
<1>1. ses \in [Sessions -> SesStates] /\ ses[s] \in SesStates /\ gen \in Nat
  BY DEF TypeInv, TypeOK
<1>2. [ses[s] EXCEPT !.pc = "authorized", !.base = gen] \in SesStates
  BY <1>1 DEF SesStates, PCs
<1>3. ses' = [ses EXCEPT ![s] = [ses[s] EXCEPT !.pc = "authorized", !.base = gen]]
  BY <1>1
<1> QED
  BY <1>1, <1>2, <1>3 DEF Moved, SesType, Same, OthersKept, SesStates

(* A session that builds its candidate notes the rendering. *)
LEMMA Builds ==
  ASSUME TypeInv, NEW s \in Sessions, NEW c \in Peers, NEW own \in BOOLEAN,
         ses' = [ses EXCEPT ![s].pc = "built", ![s].cand = c, ![s].ownTls = own]
  PROVE  /\ Moved(s, "built") /\ ses'[s].base = ses[s].base
         /\ ses'[s].cand = c /\ ses'[s].ownTls = own
<1>1. ses \in [Sessions -> SesStates] /\ ses[s] \in SesStates
  BY DEF TypeInv
<1>2. [ses[s] EXCEPT !.pc = "built", !.cand = c, !.ownTls = own] \in SesStates
  BY <1>1 DEF SesStates, PCs
<1>3. ses' = [ses EXCEPT ![s] = [ses[s] EXCEPT !.pc = "built", !.cand = c, !.ownTls = own]]
  BY <1>1
<1> QED
  BY <1>1, <1>2, <1>3 DEF Moved, SesType, Same, OthersKept, SesStates

(* A recovery that builds its candidate keeps the TLS identity it found. *)
LEMMA BuildsAgain ==
  ASSUME TypeInv, NEW s \in Sessions, NEW c \in Peers,
         ses' = [ses EXCEPT ![s].pc = "built", ![s].cand = c]
  PROVE  /\ Moved(s, "built") /\ ses'[s].base = ses[s].base
         /\ ses'[s].cand = c /\ ses'[s].ownTls = ses[s].ownTls
<1>1. ses \in [Sessions -> SesStates] /\ ses[s] \in SesStates
  BY DEF TypeInv
<1>2. [ses[s] EXCEPT !.pc = "built", !.cand = c] \in SesStates
  BY <1>1 DEF SesStates, PCs
<1>3. ses' = [ses EXCEPT ![s] = [ses[s] EXCEPT !.pc = "built", !.cand = c]]
  BY <1>1
<1> QED
  BY <1>1, <1>2, <1>3 DEF Moved, SesType, Same, OthersKept, SesStates

(* A session that activates keeps a snapshot of the runtime it replaces. *)
LEMMA Activates ==
  ASSUME TypeInv, NEW s \in Sessions, ses' = [ses EXCEPT ![s].pc = "ready", ![s].snap = rt]
  PROVE  /\ Moved(s, "ready") /\ ses'[s].base = ses[s].base
         /\ ses'[s].cand = ses[s].cand /\ ses'[s].ownTls = ses[s].ownTls
         /\ ses'[s].snap = rt
<1>1. ses \in [Sessions -> SesStates] /\ ses[s] \in SesStates /\ rt \in Peers
  BY DEF TypeInv, TypeOK, Peers
<1>2. [ses[s] EXCEPT !.pc = "ready", !.snap = rt] \in SesStates
  BY <1>1 DEF SesStates, PCs
<1>3. ses' = [ses EXCEPT ![s] = [ses[s] EXCEPT !.pc = "ready", !.snap = rt]]
  BY <1>1
<1> QED
  BY <1>1, <1>2, <1>3 DEF Moved, SesType, Same, OthersKept, SesStates

(* A session that has staged its credentials changes nothing else. *)
LEMMA Stages ==
  ASSUME TypeInv, NEW s \in Sessions, ses' = [ses EXCEPT ![s].pc = "staged"]
  PROVE  /\ Moved(s, "staged") /\ ses'[s].base = ses[s].base
         /\ ses'[s].cand = ses[s].cand /\ ses'[s].snap = ses[s].snap
         /\ ses'[s].ownTls = ses[s].ownTls
<1>1. ses \in [Sessions -> SesStates] /\ ses[s] \in SesStates
  BY DEF TypeInv
<1>2. [ses[s] EXCEPT !.pc = "staged"] \in SesStates
  BY <1>1 DEF SesStates, PCs
<1>3. ses' = [ses EXCEPT ![s] = [ses[s] EXCEPT !.pc = "staged"]]
  BY <1>1
<1> QED
  BY <1>1, <1>2, <1>3 DEF Moved, SesType, Same, OthersKept, SesStates

(* A new exchange. *)
Begun(h, s, id, cred, t) ==
  /\ OthersKept(s) /\ ses[s].pc = "idle"
  /\ ses'[s].pc = "new" /\ ses'[s].host = h /\ ses'[s].id = id
  /\ ses'[s].cred = cred /\ ses'[s].tok = t /\ ses'[s].ownTls = FALSE

(* A machine opens an exchange on an idle session. *)
LEMMA Begins ==
  ASSUME TypeInv, NEW h \in Hosts, NEW s \in Sessions, NEW id \in Ids,
         NEW cred \in Nat, NEW t \in Invites \cup Recoveries,
         Begin(h, s, id, cred, t)
  PROVE  SesType' /\ Begun(h, s, id, cred, t)
<1>1. ses \in [Sessions -> SesStates] /\ ses[s].pc = "idle"
  BY DEF TypeInv, Begin, At
<1> DEFINE r == [Idle EXCEPT !.pc = "new", !.host = h, !.id = id, !.cred = cred, !.tok = t]
<1>2. /\ r \in SesStates /\ r.pc = "new" /\ r.host = h /\ r.id = id /\ r.cred = cred
      /\ r.tok = t /\ r.ownTls = FALSE
  BY IdleTyped DEF Idle, SesStates, PCs
<1>3. ses' = [ses EXCEPT ![s] = r]
  BY DEF Begin
<1> HIDE DEF r
<1> QED
  BY <1>1, <1>2, <1>3 DEF SesType, OthersKept, Begun

(* Each session stays as it is or ends. *)
Settled == SesType' /\ \A t \in Sessions : ses'[t] = ses[t] \/ ses'[t] = Idle

(* Steps that end sessions move none forward. *)
LEMMA Settles ==
  ASSUME TypeInv,
         \/ UNCHANGED ses
         \/ ses' = [s \in Sessions |-> Idle]
         \/ \E s \in Sessions : ses' = [ses EXCEPT ![s] = Idle]
         \/ \E h \in Hosts : EndExchange(h)
  PROVE  Settled
BY IdleTyped DEF Settled, SesType, TypeInv, EndExchange

(* The type invariant by parts. *)
StateType ==
  /\ gen \in Nat \ {0}
  /\ inv \in [Invites -> [st : {"unissued", "active", "consumed", "cancelled"},
                          name : Names \cup {"none"}]]
  /\ rec \in [Recoveries -> [st : {"unissued", "active", "consumed"}, id : Ids \cup {"none"},
                             cred : Nat, gen : Nat]]
  /\ expired \subseteq Invites \cup Recoveries
  /\ nodes \in [Ids -> [lc : {"none", "active", "revoked", "deleted"},
                        cred : Nat, name : Names \cup {"none"}]]
  /\ tlsRecord \in BOOLEAN
FileType == tlsFile \in BOOLEAN /\ secrets \subseteq Ids \X Nat
RunType ==
  /\ rt \in Peers /\ mutex \in Sessions \cup {Nobody, Leaked, Revoker}
  /\ rev \in RevStates /\ drift \in BOOLEAN /\ faults \in Nat
HostType == host \in [Hosts -> HostStates]
Held == \A s \in Sessions : ses[s].pc \in {"ready", "staged"} => mutex = s

(* The type invariant is the conjunction of its parts, before and after a step. *)
LEMMA TypeParts ==
  /\ TypeInv <=> StateType /\ FileType /\ RunType /\ SesType /\ HostType /\ Held
  /\ TypeInv' <=> StateType' /\ FileType' /\ RunType' /\ SesType' /\ HostType' /\ Held'
BY DEF TypeInv, TypeOK, StateType, FileType, RunType, SesType, HostType, Held, InForce, Peers

(* The operator's steps. *)
LEMMA OperatorTypes ==
  ASSUME TypeInv, Operator \/ \E t \in Invites \cup Recoveries : Expire(t)
  PROVE  TypeInv'
<1> USE DEF Advance, tokens, files, stateVars, Active
<1>0. StateType /\ FileType /\ RunType /\ SesType /\ HostType /\ Held
  BY TypeParts
<1>1. CASE \E t \in Invites \cup Recoveries : Expire(t)
  BY <1>0, <1>1, TypeParts DEF Expire, StateType, FileType, RunType, SesType, HostType, Held
<1>2. ASSUME NEW i \in Invites, CancelInvite(i) PROVE TypeInv'
  <2>1. StateType'
    BY <1>0, <1>2 DEF CancelInvite, StateType
  <2> QED
    BY <1>0, <1>2, <2>1, TypeParts DEF CancelInvite, FileType, RunType, SesType, HostType, Held
<1>3. ASSUME NEW i \in Invites, NEW n \in Names, IssueInvite(i, n) PROVE TypeInv'
  <2>1. StateType'
    BY <1>0, <1>3 DEF IssueInvite, StateType
  <2> QED
    BY <1>0, <1>3, <2>1, TypeParts DEF IssueInvite, FileType, RunType, SesType, HostType, Held
<1>4. ASSUME NEW r \in Recoveries, NEW id \in Ids, IssueRecovery(r, id) PROVE TypeInv'
  <2>1. StateType'
    BY <1>0, <1>4 DEF IssueRecovery, StateType
  <2> QED
    BY <1>0, <1>4, <2>1, TypeParts DEF IssueRecovery, FileType, RunType, SesType, HostType, Held
<1>5. ASSUME NEW id \in Ids, DeleteNode(id) PROVE TypeInv'
  <2>1. StateType'
    BY <1>0, <1>5 DEF DeleteNode, StateType
  <2> QED
    BY <1>0, <1>5, <2>1, TypeParts DEF DeleteNode, FileType, RunType, SesType, HostType, Held
<1>6. ASSUME NEW id \in Ids, NEW by \in RevokedBy, RevokeCommit(id, by) PROVE TypeInv'
  <2>1. StateType'
    <3>1. /\ nodes' = [nodes EXCEPT ![id].lc = "revoked"] /\ gen' = gen + 1
          /\ UNCHANGED <<inv, rec, expired, tlsRecord>>
      BY <1>6 DEF RevokeCommit
    <3> QED
      BY <1>0, <3>1 DEF StateType
  <2>2. rev' \in RevStates
    <3>1. [Image EXCEPT ![id] = 0] \in Peers
      BY ImageTyped
    <3>2. nodes[id].cred \in Nat
      BY <1>0 DEF StateType
    <3> QED
      BY <1>6, <3>1, <3>2 DEF RevokeCommit, RevStates
  <2>3. RunType'
    BY <1>0, <1>6, <2>2 DEF RevokeCommit, RunType
  <2> QED
    BY <1>0, <1>6, <2>1, <2>3, TypeParts DEF RevokeCommit, FileType, SesType, HostType, Held
<1>7. CASE OtherWrite
  BY <1>0, <1>7, TypeParts DEF OtherWrite, StateType, FileType, RunType, SesType, HostType, Held
<1> QED
  BY <1>1, <1>2, <1>3, <1>4, <1>5, <1>6, <1>7 DEF Operator

(* The ends of a session. *)
LEMMA RejectTypes ==
  ASSUME TypeInv, NEW s \in Sessions, Reject(s), UNCHANGED faults
  PROVE  TypeInv'
<1>1. SesType' /\ OthersKept(s) /\ ses'[s].pc = "reply"
  BY Answers DEF Reject
<1>2. StateType /\ FileType /\ RunType /\ SesType /\ HostType /\ Held
  BY TypeParts
<1>3. Held'
  BY <1>1, <1>2 DEF Held, OthersKept, Reject
<1> QED
  BY <1>1, <1>2, <1>3, TypeParts DEF Reject, StateType, FileType, RunType, HostType, stateVars

(* A rollback gives back the mutex and the snapshot. *)
LEMMA RollBackTypes ==
  ASSUME TypeInv, NEW s \in Sessions, NEW cost \in {0, 1}, RollBack(s, cost), InForce(s)
  PROVE  TypeInv'
<1>1. SesType' /\ OthersKept(s) /\ ses'[s].pc = "reply"
  BY Answers DEF RollBack
<1>2. StateType /\ FileType /\ RunType /\ SesType /\ HostType /\ Held
  BY TypeParts
<1>3. Held'
  BY <1>1, <1>2 DEF Held, OthersKept, InForce
<1>4. ses[s].snap \in Peers
  BY <1>2 DEF SesType, SesStates
<1>5. /\ rt' \in {rt, ses[s].snap} /\ mutex' = Nobody /\ rev' = rev
      /\ drift' \in {drift, TRUE} /\ faults' \in {faults + cost, faults + cost + 1}
  BY DEF RollBack, RestoreRuntime
<1>6. RunType'
  <2>1. drift \in BOOLEAN /\ faults \in Nat /\ rt \in Peers
    BY <1>2 DEF RunType
  <2>2. drift' \in BOOLEAN
    BY <1>5, <2>1
  <2>3. faults' \in Nat
    BY <1>5, <2>1
  <2>4. rt' \in Peers /\ mutex' \in Sessions \cup {Nobody, Leaked, Revoker}
    BY <1>4, <1>5, <2>1
  <2>5. rev' \in RevStates
    BY <1>2, <1>5 DEF RunType
  <2> QED
    BY <2>2, <2>3, <2>4, <2>5 DEF RunType
<1> QED
  BY <1>1, <1>2, <1>3, <1>6, TypeParts DEF RollBack, StateType, FileType, HostType, stateVars

(* The credentials a session is about. *)
LEMMA OwnedTyped ==
  ASSUME TypeInv, NEW s \in Sessions, SesTyped(s), ~At(s, "idle")
  PROVE  Owned(s) = {Key(s)} /\ Key(s) \in Ids \X Nat /\ ses[s].id \in Ids /\ ses[s].cred \in Nat
BY DEF Owned, Key, TypeInv, SesStates, SesTyped

(* One Save of a join. *)
LEMMA JoinStateTypes ==
  ASSUME StateType, NEW s \in Sessions, ses[s].id \in Ids, IsJoin(s), JoinState(s)
  PROVE  StateType' \/ expired' # expired
<1>1. inv[ses[s].tok].name \in Names \cup {"none"} /\ ses[s].tok \in Invites
  BY DEF StateType, IsJoin
<1>2. inv' \in [Invites -> [st : {"unissued", "active", "consumed", "cancelled"},
                          name : Names \cup {"none"}]]
  BY <1>1 DEF StateType, JoinState
<1>3. nodes' \in [Ids -> [lc : {"none", "active", "revoked", "deleted"},
                        cred : Nat, name : Names \cup {"none"}]]
  BY <1>1 DEF StateType, JoinState
<1> QED
  BY <1>2, <1>3 DEF StateType, JoinState

(* Every step of a session keeps the types. *)
LEMMA SessionTypes ==
  ASSUME TypeInv, NEW s \in Sessions, SesTyped(s), SessionStep(s)
  PROVE  TypeInv'
<1> USE DEF files, stateVars, Fails
<1>0. StateType /\ FileType /\ RunType /\ SesType /\ HostType /\ Held
  BY TypeParts
<1>1. CASE JoinAuthorize(s) \/ RecoverAuthorize(s)
  <2>1. Moved(s, "authorized")
    BY <1>1, Authorizes DEF JoinAuthorize, RecoverAuthorize
  <2> QED
    BY <1>0, <1>1, <2>1, TypeParts
       DEF JoinAuthorize, RecoverAuthorize, Moved, OthersKept, StateType, FileType,
           RunType, SesType, HostType, Held
<1>2. CASE JoinBuild(s)
  <2>1. [Image EXCEPT ![ses[s].id] = 1] \in Peers
    BY <1>2, ImageTyped DEF JoinBuild, SesTyped, At
  <2>2. (~tlsRecord) \in BOOLEAN
    OBVIOUS
  <2>3. Moved(s, "built")
    BY <1>2, <2>1, <2>2, Builds DEF JoinBuild
  <2> QED
    BY <1>0, <1>2, <2>3, TypeParts
       DEF JoinBuild, Moved, OthersKept, StateType, FileType, RunType, SesType, HostType, Held
<1>3. CASE RecoverBuild(s)
  <2>1. Owned(s) = {Key(s)} /\ Key(s) \in Ids \X Nat /\ ses[s].id \in Ids /\ ses[s].cred \in Nat
    BY <1>3, OwnedTyped DEF RecoverBuild, At
  <2>2. [Image EXCEPT ![ses[s].id] = ses[s].cred] \in Peers
    BY <2>1, ImageTyped
  <2>3. Moved(s, "built")
    BY <1>3, <2>2, BuildsAgain DEF RecoverBuild
  <2>4. FileType'
    BY <1>0, <1>3, <2>1 DEF FileType, RecoverBuild
  <2> QED
    BY <1>0, <1>3, <2>3, <2>4, TypeParts
       DEF RecoverBuild, Moved, OthersKept, StateType, RunType, SesType, HostType, Held
<1>4. CASE Activate(s)
  <2>1. Moved(s, "ready") /\ ses[s].cand \in Peers
    BY <1>0, <1>4, Activates DEF Activate, SesType, SesStates
  <2> QED
    BY <1>0, <1>4, <2>1, TypeParts
       DEF Activate, Moved, OthersKept, StateType, FileType, RunType, SesType, HostType, Held
<1>5. CASE JoinStage(s)
  <2>1. Moved(s, "staged") /\ mutex = s
    BY <1>0, <1>5, Stages DEF JoinStage, Held, At
  <2>2. Owned(s) = {Key(s)} /\ Key(s) \in Ids \X Nat
    BY <1>5, OwnedTyped DEF JoinStage, At
  <2>3. FileType'
    BY <1>0, <1>5, <2>2 DEF FileType, JoinStage
  <2> QED
    BY <1>0, <1>5, <2>1, <2>3, TypeParts
       DEF JoinStage, Moved, OthersKept, StateType, RunType, SesType, HostType, Held
<1>6. CASE JoinRefuse(s) \/ RecoverRefuse(s)
  BY <1>6, RejectTypes DEF JoinRefuse, RecoverRefuse
<1>7. CASE JoinStageFails(s) \/ JoinCommitFails(s) \/ RecoverCommitFails(s)
  <2>1. InForce(s)
    BY <1>7 DEF InForce, JoinStageFails, JoinCommitFails, RecoverCommitFails, At
  <2>2. RollBack(s, 0) \/ RollBack(s, 1)
    BY <1>7 DEF JoinStageFails, JoinCommitFails, RecoverCommitFails
  <2> QED
    BY <2>1, <2>2, RollBackTypes
<1>8. CASE ActivateFails(s)
  <2>1. SesType' /\ OthersKept(s) /\ ses'[s].pc = "reply"
    BY <1>8, Answers DEF ActivateFails
  <2> QED
    BY <1>0, <1>8, <2>1, TypeParts
       DEF ActivateFails, OthersKept, StateType, FileType, RunType, HostType, Held
<1>9. CASE JoinCommit(s) \/ JoinUncertain(s)
  <2>1. SesType' /\ OthersKept(s) /\ ses'[s].pc = "reply"
    BY <1>9, Answers DEF JoinCommit, JoinUncertain
  <2>2. ses[s].pc = "staged" /\ IsJoin(s) /\ ses[s].id \in Ids
    BY <1>9 DEF JoinCommit, JoinUncertain, At, SesTyped
  <2>3. StateType'
    <3>1. expired' = expired /\ (JoinState(s) \/ UNCHANGED stateVars)
      BY <1>9 DEF JoinCommit, JoinUncertain
    <3>2. CASE JoinState(s)
      BY <1>0, <2>2, <3>1, <3>2, JoinStateTypes
    <3>3. CASE UNCHANGED stateVars
      BY <1>0, <3>1, <3>3 DEF StateType
    <3> QED
      BY <3>1, <3>2, <3>3
  <2>4. Held' /\ HostType' /\ FileType'
    BY <1>0, <1>9, <2>1, <2>2 DEF Held, OthersKept, HostType, FileType, JoinCommit, JoinUncertain
  <2>5. RunType'
    <3>1. CASE JoinCommit(s)
      BY <1>0, <3>1 DEF RunType, JoinCommit
    <3>2. CASE JoinUncertain(s)
      <4>1. drift' \in BOOLEAN /\ faults' \in Nat /\ mutex' = Nobody /\ UNCHANGED <<rt, rev>>
        BY <1>0, <3>2 DEF RunType, JoinUncertain
      <4> QED
        BY <1>0, <4>1 DEF RunType
    <3> QED
      BY <1>9, <3>1, <3>2
  <2> QED
    BY <2>1, <2>3, <2>4, <2>5, TypeParts
<1>10. CASE RecoverCommit(s)
  <2>1. SesType' /\ OthersKept(s) /\ ses'[s].pc = "reply"
    BY <1>10, Answers DEF RecoverCommit
  <2>2. ses[s].pc = "ready" /\ ~IsJoin(s) /\ ses[s].id \in Ids /\ ses[s].cred \in Nat
        /\ ses[s].tok \in Recoveries
    BY <1>0, <1>10 DEF RecoverCommit, At, SesTyped, SesType, SesStates, IsJoin
  <2>3. rec' \in [Recoveries -> [st : {"unissued", "active", "consumed"},
                                 id : Ids \cup {"none"}, cred : Nat, gen : Nat]]
    BY <1>0, <1>10, <2>2 DEF RecoverCommit, StateType
  <2>4. nodes' \in [Ids -> [lc : {"none", "active", "revoked", "deleted"},
                            cred : Nat, name : Names \cup {"none"}]]
    BY <1>0, <1>10, <2>2 DEF RecoverCommit, StateType
  <2>5. StateType'
    BY <1>0, <1>10, <2>3, <2>4 DEF RecoverCommit, StateType
  <2>6. Held' /\ HostType' /\ FileType'
    BY <1>0, <1>10, <2>1, <2>2 DEF Held, OthersKept, HostType, FileType, RecoverCommit
  <2>7. RunType'
    BY <1>0, <1>10 DEF RunType, RecoverCommit
  <2> QED
    BY <2>1, <2>5, <2>6, <2>7, TypeParts
<1>11. CASE RecoverCommitLost(s)
  <2>1. SesType' /\ OthersKept(s) /\ ses'[s].pc = "reply"
    BY <1>11, Answers DEF RecoverCommitLost
  <2>2. ses[s].pc = "ready"
    BY <1>11 DEF RecoverCommitLost, At
  <2> QED
    BY <1>0, <1>11, <2>1, <2>2, TypeParts
       DEF RecoverCommitLost, OthersKept, StateType, FileType, RunType, HostType, Held
<1>12. CASE Unheard(s)
  <2>1. Settled
    BY <1>12, Settles DEF Unheard
  <2> QED
    BY <1>0, <1>12, <2>1, TypeParts
       DEF Unheard, Settled, Idle, StateType, FileType, RunType, HostType, Held
<1> QED
  BY <1>1, <1>2, <1>3, <1>4, <1>5, <1>6, <1>7, <1>8, <1>9, <1>10, <1>11, <1>12 DEF SessionStep

(* The exchanges, the revocation's own steps and a crash. *)
LEMMA BeginTypes ==
  ASSUME TypeInv, NEW h \in Hosts, NEW s \in Sessions, NEW id \in Ids,
         NEW cred \in Nat, NEW t \in Invites \cup Recoveries,
         Begin(h, s, id, cred, t)
  PROVE  TypeInv'
<1>0. StateType /\ FileType /\ RunType /\ SesType /\ HostType /\ Held
  BY TypeParts
<1>1. SesType' /\ OthersKept(s) /\ ses'[s].pc = "new"
  BY Begins DEF Begun
<1>2. host[h] \in HostStates
  BY <1>0 DEF HostType
<1>3. [host[h] EXCEPT !.ask = s, !.try = <<id, cred>>, !.keys = @ \cup {<<id, cred>>}] \in HostStates
  <2>1. host[h].keys \cup {<<id, cred>>} \in SUBSET (Ids \X Nat)
    BY <1>2 DEF HostStates
  <2>2. <<id, cred>> \in (Ids \cup {"none"}) \X Nat
    OBVIOUS
  <2> QED
    BY <1>2, <2>1, <2>2 DEF HostStates
<1>4. HostType'
  <2>1. host' = [host EXCEPT ![h] = [host[h] EXCEPT !.ask = s, !.try = <<id, cred>>,
                                       !.keys = @ \cup {<<id, cred>>}]]
    BY <1>0 DEF Begin, HostType
  <2> QED
    BY <1>0, <1>3, <2>1 DEF HostType
<1> QED
  BY <1>0, <1>1, <1>4, TypeParts
     DEF Begin, OthersKept, StateType, FileType, RunType, Held, stateVars, files

(* The host that acts, and only it, changes. *)
LEMMA HostUpdates ==
  ASSUME TypeInv, NEW h \in Hosts
  PROVE  /\ HostAccepts(h) => HostType'
         /\ HostRefused(h) => HostType'
         /\ HostUncertain(h) => HostType'
<1>1. host \in [Hosts -> HostStates] /\ host[h] \in HostStates
  BY DEF TypeInv
<1>2. [host[h] EXCEPT !.ask = "none"] \in HostStates
  BY <1>1 DEF HostStates
<1>3. [host[h] EXCEPT !.ask = "none", !.keys = @ \ {host[h].try}] \in HostStates
  BY <1>1 DEF HostStates
<1>4. [joined |-> TRUE, id |-> host[h].try[1], cred |-> host[h].try[2], ask |-> "none",
       try |-> host[h].try,
       keys |-> host[h].keys \ {<<host[h].try[1], host[h].try[2] - 1>>}] \in HostStates
  <2>1. /\ host[h].try \in (Ids \cup {"none"}) \X Nat
        /\ host[h].keys \in SUBSET (Ids \X Nat)
    BY <1>1 DEF HostStates
  <2>2. host[h].try[1] \in Ids \cup {"none"} /\ host[h].try[2] \in Nat
    BY <2>1
  <2> QED
    BY <2>1, <2>2 DEF HostStates
<1>5. HostRefused(h) => HostType'
  BY <1>1, <1>3 DEF HostRefused, HostType
<1>6. HostUncertain(h) => HostType'
  BY <1>1, <1>2 DEF HostUncertain, HostType
<1>7. HostAccepts(h) => HostType'
  <2> HAVE HostAccepts(h)
  <2>1. CASE host' = [host EXCEPT ![h].ask = "none"]
    BY <1>1, <1>2, <2>1 DEF HostType
  <2>2. CASE host' = [host EXCEPT ![h] =
             [joined |-> TRUE, id |-> @.try[1], cred |-> @.try[2], ask |-> "none",
              try |-> @.try,
              keys |-> @.keys \ {<<@.try[1], @.try[2] - 1>>}]]
    BY <1>1, <1>4, <2>2 DEF HostType
  <2> QED
    BY <2>1, <2>2 DEF HostAccepts
<1> QED
  BY <1>5, <1>6, <1>7

(* So do the steps of the revocation, of the machines and a crash. *)
LEMMA OtherTypes ==
  ASSUME TypeInv,
         \/ RevokeRuntime \/ RevokeCredentials \/ Crash
         \/ \E h \in Hosts : HostStep(h) \/ HostUncertain(h)
  PROVE  TypeInv' /\ Settled
<1> USE DEF files, stateVars, tokens, Fails
<1>0. StateType /\ FileType /\ RunType /\ SesType /\ HostType /\ Held
  BY TypeParts
<1>1. CASE RevokeRuntime
  <2>1. Settled
    BY <1>1, Settles DEF RevokeRuntime
  <2>2. rev' \in RevStates /\ rev.cand \in Peers
    BY <1>0, <1>1 DEF RunType, RevokeRuntime, RevStates
  <2>3. drift' \in BOOLEAN
    BY <1>0, <1>1 DEF RunType, RevokeRuntime
  <2>4. RunType'
    BY <1>0, <1>1, <2>2, <2>3 DEF RunType, RevokeRuntime
  <2> QED
    BY <1>0, <1>1, <2>1, <2>4, TypeParts
       DEF RevokeRuntime, StateType, FileType, SesType, HostType, Held
<1>2. CASE RevokeCredentials
  <2>1. Settled
    BY <1>2, Settles DEF RevokeCredentials
  <2> QED
    BY <1>0, <1>2, <2>1, TypeParts, IdleTyped
       DEF RevokeCredentials, StateType, FileType, SesType, HostType, Held, RunType
<1>3. CASE Crash
  <2>1. Settled
    BY <1>3, Settles DEF Crash
  <2>2. RunType'
    BY <1>0, <1>3, IdleTyped DEF Crash, RunType
  <2>3. Held'
    BY <1>3 DEF Crash, Held, Idle
  <2> QED
    BY <1>0, <1>3, <2>1, <2>2, <2>3, TypeParts
       DEF Crash, StateType, FileType, SesType, HostType, Settled
<1>4. ASSUME NEW h \in Hosts, HostStep(h) \/ HostUncertain(h) PROVE TypeInv' /\ Settled
  <2>1. Settled /\ HostType'
    BY <1>4, Settles, HostUpdates DEF HostStep, HostAccepts, HostRefused, HostUncertain
  <2>2. faults' \in Nat /\ UNCHANGED <<gen, inv, rec, expired, nodes, tlsRecord, tlsFile,
                                       secrets, rt, mutex, rev, drift>>
    BY <1>0, <1>4 DEF HostStep, HostAccepts, HostRefused, HostUncertain, OtherStatus, RunType
  <2>3. Held'
    BY <1>0, <2>1, <2>2 DEF Held, Settled, Idle
  <2> QED
    BY <1>0, <2>1, <2>2, <2>3, TypeParts DEF StateType, FileType, RunType, Settled
<1> QED
  BY <1>1, <1>2, <1>3, <1>4

-----------------------------------------------------------------------------
(* Tokens admit once *)

TokenState == NameReserved /\ Correspond /\ IssuedRecovery /\ RecoveryAtomic
TokenSes(s) == SesTyped(s) /\ SesToken(s) /\ SesFresh(s)
JoinsApart == \A s, t \in Sessions : s # t /\ Busy(s) /\ Busy(t) /\ IsJoin(s) =>
                ses[s].id # ses[t].id

(* The token invariant is the conjunction of its parts, before and after a step. *)
LEMMA TokenParts ==
  /\ TokenInv <=> TokenState /\ (\A s \in Sessions : TokenSes(s)) /\ JoinsApart
  /\ TokenInv' <=> TokenState' /\ (\A s \in Sessions : TokenSes(s)') /\ JoinsApart'
BY DEF TokenInv, TokenState, TokenSes, JoinsApart

(* Time only takes invites away. *)
LEMMA TokenStateKept ==
  ASSUME TokenState, UNCHANGED <<inv, rec, nodes>>, expired \subseteq expired'
  PROVE  TokenState'
BY DEF TokenState, NameReserved, Correspond, IssuedRecovery, RecoveryAtomic, Usable, Known

(* A session that is left alone may rely on what it relied on, when the    *)
(* state is the same or has got a later generation.                        *)
LEMMA TokenSesKept ==
  ASSUME TypeInv, NEW t \in Sessions, TokenSes(t), ses'[t] = ses[t],
         IF gen' = gen THEN UNCHANGED <<inv, nodes, rec>> ELSE gen' = gen + 1,
         Busy(t) /\ IsJoin(t) => ~Known(ses[t].id)',
         \A r \in Recoveries : rec[r].st # "unissued" =>
           rec'[r].st # "unissued" /\ rec'[r].id = rec[r].id /\ rec'[r].cred = rec[r].cred
  PROVE  TokenSes(t)'
<1>0. gen \in Nat /\ ses[t] \in SesStates
  BY DEF TypeInv, TypeOK
<1>1. SesTyped(t)'
  BY DEF TokenSes, SesTyped, At, IsJoin
<1>2. SesToken(t)'
  <2>1. CASE IsJoin(t)
    BY <2>1 DEF TokenSes, SesToken, Busy, IsJoin, Known
  <2>2. CASE ~IsJoin(t)
    BY <2>2 DEF TokenSes, SesTyped, SesToken, Busy, IsJoin, At
  <2> QED
    BY <2>1, <2>2
<1>3. SesFresh(t)'
  <2>1. CASE gen' = gen
    BY <2>1 DEF TokenSes, SesFresh, Bound, IsJoin, Active
  <2>2. CASE gen' = gen + 1
    BY <1>0, <2>2 DEF TokenSes, SesFresh, Bound, SesStates
  <2> QED
    BY <2>1, <2>2
<1> QED
  BY <1>1, <1>2, <1>3 DEF TokenSes

(* A session that has answered or ended relies on nothing. *)
LEMMA TokenSesDone ==
  ASSUME NEW t \in Sessions, ~Busy(t)',
         ses'[t].pc \in {"idle", "reply"},
         ses'[t].pc = "reply" => SesTyped(t) /\ Same(t) /\ ~At(t, "idle")
  PROVE  TokenSes(t)'
BY DEF TokenSes, SesTyped, SesToken, SesFresh, Busy, Bound, At, Same, IsJoin

(* Steps that change neither the state nor move any session forward. *)
LEMMA TokenQuiet ==
  ASSUME TypeInv, TokenInv, UNCHANGED <<gen, inv, rec, nodes>>, expired \subseteq expired',
         \A t \in Sessions :
           \/ ses'[t] = ses[t] \/ ses'[t] = Idle
           \/ Same(t) /\ ses'[t].pc = "reply" /\ ~At(t, "idle")
  PROVE  TokenInv'
<1>1. TokenState'
  BY TokenParts, TokenStateKept
<1>2. ASSUME NEW t \in Sessions PROVE TokenSes(t)'
  <2>1. CASE ses'[t] = ses[t]
    BY <2>1, TokenParts, TokenSesKept DEF TokenSes, SesToken, Known
  <2>2. CASE ses'[t] = Idle
    BY <2>2, TokenSesDone DEF Idle, Busy
  <2>3. CASE Same(t) /\ ses'[t].pc = "reply" /\ ~At(t, "idle")
    BY <2>3, TokenParts, TokenSesDone DEF Busy, TokenSes
  <2> QED
    BY <2>1, <2>2, <2>3
<1>3. \A t \in Sessions : Busy(t)' => ses'[t] = ses[t] /\ Busy(t)
  BY DEF Busy, Idle
<1>4. JoinsApart'
  BY <1>3, TokenParts DEF JoinsApart, IsJoin
<1> QED
  BY <1>1, <1>2, <1>4, TokenParts

(* The state of a later generation, with the sessions untouched. *)
LEMMA TokenLater ==
  ASSUME TypeInv, TokenInv, TokenState', UNCHANGED ses, gen' = gen + 1,
         \A id \in Ids : ~Known(id) => ~Known(id)',
         \A r \in Recoveries : rec[r].st # "unissued" =>
           rec'[r].st # "unissued" /\ rec'[r].id = rec[r].id /\ rec'[r].cred = rec[r].cred
  PROVE  TokenInv'
<1>1. ASSUME NEW t \in Sessions PROVE TokenSes(t)'
  <2>1. TokenSes(t) /\ gen \in Nat
    BY TokenParts DEF TypeInv, TypeOK
  <2>2. Busy(t) /\ IsJoin(t) => ~Known(ses[t].id)'
    BY <2>1 DEF TokenSes, SesToken, SesTyped, Busy, At
  <2> QED
    BY <2>1, <2>2, TokenSesKept
<1>2. JoinsApart'
  BY TokenParts DEF JoinsApart, Busy, IsJoin
<1> QED
  BY <1>1, <1>2, TokenParts

(* What the operator does to the tokens and the nodes. *)
LEMMA OperatorTokens ==
  ASSUME TypeInv, TokenInv, Operator \/ \E t \in Invites \cup Recoveries : Expire(t)
  PROVE  TokenInv'
<1> USE DEF Advance, tokens, files, stateVars
<1>0. StateType /\ TokenState
  BY TypeParts, TokenParts
<1>1. CASE \E t \in Invites \cup Recoveries : Expire(t)
  BY <1>1, TokenQuiet DEF Expire
<1>2. ASSUME NEW i \in Invites, CancelInvite(i) PROVE TokenInv'
  <2>0. UNCHANGED <<ses, rec, nodes, expired>> /\ gen' = gen + 1
        /\ inv' = [inv EXCEPT ![i].st = "cancelled"] /\ inv[i].st = "active"
    BY <1>2 DEF CancelInvite
  <2>1. \A j \in Invites : inv'[j].name = inv[j].name /\ (j # i => inv'[j].st = inv[j].st)
        /\ inv'[i].st = "cancelled"
    BY <1>0, <2>0 DEF StateType
  <2>2. TokenState'
    BY <1>0, <2>0, <2>1
       DEF TokenState, NameReserved, Correspond, IssuedRecovery, RecoveryAtomic, Usable, Known
  <2> QED
    BY <2>0, <2>2, TokenLater DEF Known
<1>3. ASSUME NEW i \in Invites, NEW n \in Names, IssueInvite(i, n) PROVE TokenInv'
  <2>0. UNCHANGED <<ses, rec, nodes, expired>> /\ gen' = gen + 1 /\ NameFree(n)
        /\ inv' = [inv EXCEPT ![i] = [st |-> "active", name |-> n]] /\ inv[i].st = "unissued"
    BY <1>3 DEF IssueInvite
  <2>1. \A j \in Invites : j # i => inv'[j] = inv[j]
    BY <1>0, <2>0 DEF StateType
  <2>2. inv'[i].st = "active" /\ inv'[i].name = n
    BY <1>0, <2>0 DEF StateType
  <2>3. NameReserved'
    BY <1>0, <2>0, <2>1, <2>2 DEF TokenState, NameReserved, Usable, Known, NameFree
  <2>4. Correspond'
    BY <1>0, <2>0, <2>1, <2>2 DEF TokenState, Correspond, Known
  <2>5. TokenState'
    BY <1>0, <2>0, <2>3, <2>4 DEF TokenState, IssuedRecovery, RecoveryAtomic, Known
  <2> QED
    BY <2>0, <2>5, TokenLater DEF Known
<1>4. ASSUME NEW r \in Recoveries, NEW id \in Ids, IssueRecovery(r, id) PROVE TokenInv'
  <2>0. /\ UNCHANGED <<ses, inv, nodes, expired>> /\ gen' = gen + 1 /\ Active(id)
        /\ rec' = [rec EXCEPT ![r] = [st |-> "active", id |-> id,
                                      cred |-> nodes[id].cred, gen |-> gen + 1]]
        /\ rec[r].st = "unissued"
    BY <1>4 DEF IssueRecovery
  <2>1. /\ \A q \in Recoveries : q # r => rec'[q] = rec[q]
        /\ rec'[r].st = "active" /\ rec'[r].id = id
    BY <1>0, <2>0 DEF StateType
  <2>2. TokenState'
    BY <1>0, <2>0, <2>1
       DEF TokenState, NameReserved, Correspond, IssuedRecovery, RecoveryAtomic, Usable,
           Known, Active
  <2> QED
    BY <2>0, <2>1, <2>2, TokenLater DEF Known
<1>5. ASSUME NEW id \in Ids, NEW lc \in {"revoked", "deleted"}, Known(id),
             nodes' = [nodes EXCEPT ![id].lc = lc], gen' = gen + 1,
             UNCHANGED <<inv, rec, expired, ses>>
      PROVE  TokenInv'
  <2>1. \A jd \in Ids : /\ nodes'[jd].name = nodes[jd].name /\ nodes'[jd].cred = nodes[jd].cred
                        /\ Known(jd)' <=> Known(jd)
    BY <1>0, <1>5 DEF StateType, Known
  <2>2. TokenState'
    BY <1>0, <1>5, <2>1
       DEF TokenState, NameReserved, Correspond, IssuedRecovery, RecoveryAtomic, Usable
  <2> QED
    BY <1>5, <2>1, <2>2, TokenLater
<1>6. ASSUME NEW id \in Ids, DeleteNode(id) PROVE TokenInv'
  BY <1>5, <1>6 DEF DeleteNode, Known
<1>7. ASSUME NEW id \in Ids, NEW by \in RevokedBy, RevokeCommit(id, by) PROVE TokenInv'
  BY <1>5, <1>7 DEF RevokeCommit, Known, Active
<1>8. CASE OtherWrite
  <2>1. TokenState'
    BY <1>0, <1>8, TokenStateKept DEF OtherWrite
  <2> QED
    BY <1>8, <2>1, TokenLater DEF OtherWrite, Known
<1> QED
  BY <1>1, <1>2, <1>3, <1>4, <1>6, <1>7, <1>8 DEF Operator

(* A session moves forward, the state is the same. *)
LEMMA TokenMove ==
  ASSUME TypeInv, TokenInv, NEW s \in Sessions, NEW pc \in {"authorized", "built", "ready", "staged"},
         Moved(s, pc), Busy(s), UNCHANGED <<gen, inv, rec, nodes, expired>>,
         ses'[s].base = gen \/ (Bound(s) /\ ses'[s].base = ses[s].base),
         ses'[s].base = gen =>
           IF IsJoin(s) THEN inv[ses[s].tok].st = "active"
           ELSE LET r == rec[ses[s].tok] IN
                r.st = "active" /\ Active(r.id) /\ nodes[r.id].cred = r.cred,
         pc = "staged" => IsJoin(s)
  PROVE  TokenInv'
<1>0. TokenSes(s) /\ gen \in Nat
  BY TokenParts DEF TypeInv, TypeOK
<1>1. TokenState'
  BY TokenParts, TokenStateKept
<1>2. ASSUME NEW t \in Sessions, t # s PROVE TokenSes(t)'
  BY <1>2, TokenParts, TokenSesKept DEF TokenSes, SesToken, Known, Moved, OthersKept
<1>3. SesTyped(s)'
  BY <1>0 DEF TokenSes, SesTyped, Busy, Moved, Same, At, IsJoin
<1>4. SesToken(s)'
  BY <1>0 DEF TokenSes, SesToken, Busy, Moved, Same, IsJoin, Known
<1>5. SesFresh(s)'
  BY <1>0 DEF TokenSes, SesFresh, Bound, Moved, Same, IsJoin, Active
<1>6. JoinsApart'
  BY TokenParts DEF JoinsApart, Busy, Moved, Same, OthersKept, IsJoin
<1> QED
  BY <1>1, <1>2, <1>3, <1>4, <1>5, <1>6, TokenParts DEF TokenSes

(* The Save of a join: the session's invite, which reserves the name, is   *)
(* used up by the node that takes the name.                                *)
LEMMA JoinTokens ==
  ASSUME TypeInv, TokenInv, NEW s \in Sessions, At(s, "staged"), Committable(s),
         JoinState(s), UNCHANGED expired, OthersKept(s), Same(s), ses'[s].pc = "reply"
  PROVE  TokenInv'
<1>0. StateType /\ TokenState /\ TokenSes(s) /\ gen \in Nat
  BY TypeParts, TokenParts DEF StateType
<1> DEFINE i == ses[s].tok
           d == ses[s].id
<1>1. i \in Invites /\ d \in Ids /\ ~Known(d) /\ inv[i].st = "active" /\ i \notin expired
  BY <1>0 DEF TokenSes, SesTyped, SesToken, SesFresh, IsJoin, At, Busy, Bound, Committable, TokenLive
<1>2. /\ \A j \in Invites : inv'[j].name = inv[j].name /\ (j # i => inv'[j].st = inv[j].st)
      /\ inv'[i].st = "consumed"
  BY <1>0, <1>1 DEF JoinState, StateType
<1>3. /\ \A e \in Ids : e # d => nodes'[e] = nodes[e]
      /\ nodes'[d].lc = "active" /\ nodes'[d].cred = 1 /\ nodes'[d].name = inv[i].name
      /\ rec' = rec
  BY <1>0, <1>1 DEF JoinState, StateType
<1> HIDE DEF i, d
<1>4. NameReserved'
  BY <1>0, <1>1, <1>2, <1>3 DEF TokenState, NameReserved, Usable, Known
<1>5. \A e \in Ids : Known(e) => e # d /\ nodes[e].name # inv[i].name
  BY <1>0, <1>1 DEF TokenState, NameReserved, Usable
<1>6. \A j \in Invites : inv[j].st = "consumed" => j # i /\ inv[j].name # inv[i].name
  BY <1>0, <1>1 DEF TokenState, NameReserved, Usable
<1>7. Correspond'
  BY <1>0, <1>1, <1>2, <1>3, <1>5, <1>6 DEF TokenState, Correspond, Known
<1>8. IssuedRecovery' /\ RecoveryAtomic'
  BY <1>0, <1>1, <1>3 DEF TokenState, IssuedRecovery, RecoveryAtomic, Known
<1>9. ASSUME NEW t \in Sessions, t # s PROVE TokenSes(t)'
  <2>1. TokenSes(t) /\ ses'[t] = ses[t] /\ gen' = gen + 1
    BY <1>9, TokenParts DEF OthersKept, JoinState
  <2>2. Busy(t) /\ IsJoin(t) => ~Known(ses[t].id)'
    <3>1. Busy(t) => ses[t].id \in Ids
      BY <2>1 DEF TokenSes, SesTyped, Busy, At
    <3>2. Busy(t) /\ IsJoin(t) => ses[t].id # d
      BY <1>9, TokenParts DEF JoinsApart, At, Busy, d
    <3> QED
      BY <1>3, <2>1, <3>1, <3>2 DEF TokenSes, SesToken, Known
  <2> QED
    BY <1>0, <1>3, <2>1, <2>2, TokenSesKept
<1>10. TokenSes(s)'
  BY <1>0, TokenSesDone DEF TokenSes, Busy, At
<1>11. JoinsApart'
  BY TokenParts DEF JoinsApart, Busy, OthersKept, IsJoin
<1> QED
  BY <1>4, <1>7, <1>8, <1>9, <1>10, <1>11, TokenParts DEF TokenState

(* The Save of a recovery. *)
LEMMA RecoverTokens ==
  ASSUME TypeInv, TokenInv, NEW s \in Sessions, RecoverCommit(s)
  PROVE  TokenInv'
<1>0. StateType /\ TokenState /\ TokenSes(s) /\ gen \in Nat /\ gen' = gen + 1
  BY TypeParts, TokenParts DEF StateType, RecoverCommit
<1>1. OthersKept(s) /\ Same(s) /\ ses'[s].pc = "reply"
  BY Answers DEF RecoverCommit
<1> DEFINE r == ses[s].tok
           d == ses[s].id
<1>2. /\ r \in Recoveries /\ d \in Ids /\ rec[r].st = "active" /\ rec[r].id = d
      /\ Active(d) /\ nodes[d].cred = rec[r].cred /\ ses[s].cred = rec[r].cred + 1
  BY <1>0 DEF TokenSes, SesTyped, SesToken, SesFresh, IsJoin, At, Busy, Bound, Committable,
              RecoverCommit
<1>3. /\ \A q \in Recoveries : /\ rec'[q].id = rec[q].id /\ rec'[q].cred = rec[q].cred
                               /\ q # r => rec'[q].st = rec[q].st
      /\ rec'[r].st = "consumed"
  BY <1>0, <1>2 DEF RecoverCommit, StateType
<1>4. /\ \A e \in Ids : /\ e # d => nodes'[e] = nodes[e]
                        /\ nodes'[e].lc = nodes[e].lc /\ nodes'[e].name = nodes[e].name
      /\ nodes'[d].cred = rec[r].cred + 1
      /\ inv' = inv /\ expired' = expired
  BY <1>0, <1>2 DEF RecoverCommit, StateType
<1>5. rec[r].cred \in Nat /\ \A q \in Recoveries : rec[q].cred \in Nat
  BY <1>0, <1>2 DEF StateType
<1> HIDE DEF r, d
<1>6. NameReserved' /\ Correspond' /\ IssuedRecovery'
  BY <1>0, <1>2, <1>3, <1>4
     DEF TokenState, NameReserved, Correspond, IssuedRecovery, Usable, Known
<1>7. RecoveryAtomic'
  <2> SUFFICES ASSUME NEW q \in Recoveries, rec'[q].st = "consumed"
               PROVE  nodes'[rec'[q].id].cred > rec'[q].cred
    BY DEF RecoveryAtomic
  <2>1. CASE q = r
    BY <1>2, <1>3, <1>4, <1>5, <2>1
  <2>2. CASE q # r
    <3>1. rec[q].id \in Ids /\ nodes[rec[q].id].cred > rec[q].cred
      BY <1>0, <1>3, <2>2 DEF TokenState, RecoveryAtomic, IssuedRecovery
    <3> QED
      BY <1>2, <1>3, <1>4, <1>5, <3>1
  <2> QED
    BY <2>1, <2>2
<1>8. ASSUME NEW t \in Sessions, t # s PROVE TokenSes(t)'
  <2>1. TokenSes(t) /\ ses'[t] = ses[t]
    BY <1>1, <1>8, TokenParts DEF OthersKept
  <2>2. Busy(t) /\ IsJoin(t) => ~Known(ses[t].id)'
    BY <1>4, <2>1 DEF TokenSes, SesToken, SesTyped, Known, Busy, At
  <2>3. \A q \in Recoveries : rec[q].st # "unissued" =>
           rec'[q].st # "unissued" /\ rec'[q].id = rec[q].id /\ rec'[q].cred = rec[q].cred
    BY <1>3
  <2> QED
    BY <1>0, <2>1, <2>2, <2>3, TokenSesKept
<1>9. TokenSes(s)'
  BY <1>0, <1>1, TokenSesDone DEF TokenSes, Busy, At, RecoverCommit
<1>10. JoinsApart'
  BY <1>1, TokenParts DEF JoinsApart, Busy, OthersKept, IsJoin
<1> QED
  BY <1>6, <1>7, <1>8, <1>9, <1>10, TokenParts DEF TokenState

(* Every step of a session keeps the token invariant. *)
LEMMA SessionTokens ==
  ASSUME TypeInv, TokenInv, NEW s \in Sessions, SessionStep(s)
  PROVE  TokenInv'
<1> USE DEF files, stateVars
<1>0. TokenSes(s)
  BY TokenParts
<1>1. CASE JoinAuthorize(s) \/ RecoverAuthorize(s)
  <2>1. Moved(s, "authorized") /\ ses'[s].base = gen
    BY <1>1, Authorizes DEF JoinAuthorize, RecoverAuthorize
  <2>2. Busy(s)
    BY <1>1 DEF JoinAuthorize, RecoverAuthorize, At, Busy
  <2> QED
    BY <1>1, <2>1, <2>2, TokenMove
       DEF JoinAuthorize, RecoverAuthorize, InviteUsable, RecoveryUsable
<1>2. CASE JoinBuild(s) \/ RecoverBuild(s)
  <2>1. ses[s].id \in Ids /\ ses[s].cred \in Nat
    BY <1>2, <1>0, OwnedTyped DEF JoinBuild, RecoverBuild, At, TokenSes
  <2>2. [Image EXCEPT ![ses[s].id] = ses[s].cred] \in Peers
        /\ [Image EXCEPT ![ses[s].id] = 1] \in Peers
    BY <2>1, ImageTyped
  <2>3. Moved(s, "built") /\ ses'[s].base = ses[s].base
    <3>1. (~tlsRecord) \in BOOLEAN
      OBVIOUS
    <3>2. CASE JoinBuild(s)
      BY <2>2, <3>1, <3>2, Builds DEF JoinBuild
    <3>3. CASE RecoverBuild(s)
      BY <2>2, <3>3, BuildsAgain DEF RecoverBuild
    <3> QED
      BY <1>2, <3>2, <3>3
  <2>4. Busy(s) /\ Bound(s)
    BY <1>2 DEF JoinBuild, RecoverBuild, At, Busy, Bound
  <2> QED
    BY <1>0, <1>2, <2>3, <2>4, TokenMove DEF JoinBuild, RecoverBuild, TokenSes, SesFresh
<1>3. CASE Activate(s) \/ JoinStage(s)
  <2>1. \E pc \in {"ready", "staged"} :
          Moved(s, pc) /\ ses'[s].base = ses[s].base /\ (pc = "staged" => IsJoin(s))
    BY <1>3, Activates, Stages DEF Activate, JoinStage
  <2>2. Busy(s) /\ Bound(s)
    BY <1>3 DEF Activate, JoinStage, At, Busy, Bound
  <2> QED
    BY <1>0, <1>3, <2>1, <2>2, TokenMove DEF Activate, JoinStage, TokenSes, SesFresh
<1>4. CASE \/ JoinRefuse(s) \/ RecoverRefuse(s) \/ ActivateFails(s)
           \/ JoinStageFails(s) \/ JoinCommitFails(s) \/ RecoverCommitFails(s)
           \/ RecoverCommitLost(s)
  <2>1. Answer(s, "no") /\ UNCHANGED <<gen, inv, rec, nodes, expired>> /\ ~At(s, "idle")
    BY <1>4 DEF JoinRefuse, RecoverRefuse, ActivateFails, JoinStageFails, JoinCommitFails,
       RecoverCommitFails, RecoverCommitLost, Reject, RollBack, At
  <2>2. OthersKept(s) /\ Same(s) /\ ses'[s].pc = "reply"
    BY <2>1, Answers
  <2> QED
    BY <2>1, <2>2, TokenQuiet DEF OthersKept
<1>5. CASE JoinCommit(s) \/ JoinUncertain(s)
  <2>1. /\ At(s, "staged") /\ Committable(s) /\ UNCHANGED expired
        /\ JoinState(s) \/ UNCHANGED stateVars
    BY <1>5 DEF JoinCommit, JoinUncertain
  <2>2. OthersKept(s) /\ Same(s) /\ ses'[s].pc = "reply"
    BY <1>5, Answers DEF JoinCommit, JoinUncertain
  <2>3. CASE JoinState(s)
    BY <2>1, <2>2, <2>3, JoinTokens
  <2>4. CASE UNCHANGED stateVars
    BY <2>1, <2>2, <2>4, TokenQuiet DEF OthersKept, At
  <2> QED
    BY <2>1, <2>3, <2>4
<1>6. CASE RecoverCommit(s)
  BY <1>6, RecoverTokens
<1>7. CASE Unheard(s)
  BY <1>7, Settles, TokenQuiet DEF Unheard, Settled
<1> QED
  BY <1>1, <1>2, <1>3, <1>4, <1>5, <1>6, <1>7 DEF SessionStep

(* A new exchange. *)
LEMMA AskFacts ==
  ASSUME TypeInv, TokenInv, NEW h \in Hosts, NEW s \in Sessions,
         \/ \E i \in Invites, id \in Ids : JoinAsk(h, s, i, id)
         \/ \E r \in Recoveries : RecoverAsk(h, s, r)
  PROVE  \E id \in Ids, cred \in Nat, t \in Invites \cup Recoveries :
           /\ Begin(h, s, id, cred, t)
           /\ \/ t \in Invites /\ Fresh(h) /\ Unused(id) /\ cred = 1
              \/ /\ t \in Recoveries /\ ~Fresh(h) /\ Known(id) /\ rec[t].st # "unissued"
                 /\ id = host[h].id /\ cred = host[h].cred + 1
                 /\ rec[t].id = id /\ rec[t].cred + 1 = cred
                 /\ <<id, cred>> \notin host[h].keys
<1>1. CASE \E i \in Invites, id \in Ids : JoinAsk(h, s, i, id)
  BY <1>1 DEF JoinAsk
<1>2. ASSUME NEW r \in Recoveries, RecoverAsk(h, s, r)
      PROVE  \E id \in Ids, cred \in Nat :
              /\ Begin(h, s, id, cred, r)
              /\ ~Fresh(h) /\ Known(id) /\ rec[r].st # "unissued"
              /\ id = host[h].id /\ cred = host[h].cred + 1
              /\ rec[r].id = id /\ rec[r].cred + 1 = cred
              /\ <<id, cred>> \notin host[h].keys
  <2>1. host[h].id \in Ids /\ Known(host[h].id)
    BY <1>2, TokenParts DEF RecoverAsk, TokenState, IssuedRecovery
  <2>2. host[h].cred \in Nat
    BY DEF TypeInv, HostStates
  <2>3. host[h].cred + 1 \in Nat
    BY <2>2
  <2> QED
    BY <1>2, <2>1, <2>3 DEF RecoverAsk
<1> QED
  BY <1>1, <1>2

(* A machine that opens an exchange keeps it. *)
LEMMA AskTokens ==
  ASSUME TypeInv, TokenInv, NEW h \in Hosts, NEW s \in Sessions,
         \/ \E i \in Invites, id \in Ids : JoinAsk(h, s, i, id)
         \/ \E r \in Recoveries : RecoverAsk(h, s, r)
  PROVE  TypeInv' /\ TokenInv'
<1>1. PICK id \in Ids, cred \in Nat, t \in Invites \cup Recoveries :
        /\ Begin(h, s, id, cred, t)
        /\ \/ t \in Invites /\ Fresh(h) /\ Unused(id) /\ cred = 1
           \/ /\ t \in Recoveries /\ ~Fresh(h) /\ Known(id) /\ rec[t].st # "unissued"
              /\ id = host[h].id /\ cred = host[h].cred + 1
              /\ rec[t].id = id /\ rec[t].cred + 1 = cred
              /\ <<id, cred>> \notin host[h].keys
  BY AskFacts, Zenon
<1>0. Begin(h, s, id, cred, t)
  BY <1>1
<1>2. TypeInv'
  BY <1>0, BeginTypes
<1>3. /\ OthersKept(s) /\ ses[s].pc = "idle" /\ ses'[s].pc = "new" /\ ses'[s].host = h
      /\ ses'[s].id = id /\ ses'[s].cred = cred /\ ses'[s].tok = t
  <2>1. Begun(h, s, id, cred, t)
    BY <1>0, Begins
  <2> QED
    BY <2>1 DEF Begun
<1>4. UNCHANGED <<gen, inv, rec, nodes, expired>>
  BY <1>0 DEF Begin, stateVars
<1>5. TokenState'
  BY <1>4, TokenParts, TokenStateKept
<1>6. ASSUME NEW u \in Sessions, u # s PROVE TokenSes(u)'
  BY <1>3, <1>4, <1>6, TokenParts, TokenSesKept DEF TokenSes, SesToken, Known, OthersKept
<1>7. TokenSes(s)'
  <2>1. SesTyped(s)' /\ SesFresh(s)'
    BY <1>3 DEF SesTyped, SesFresh, Bound, At
  <2>2. CASE t \in Invites /\ Unused(id) /\ cred = 1
    BY <1>3, <1>4, <2>1, <2>2 DEF TokenSes, SesToken, IsJoin, Unused, Known
  <2>3. CASE /\ t \in Recoveries /\ Known(id) /\ rec[t].st # "unissued"
             /\ rec[t].id = id /\ rec[t].cred + 1 = cred
    BY <1>3, <1>4, <2>1, <2>3 DEF TokenSes, SesToken, IsJoin
  <2> QED
    BY <1>1, <2>2, <2>3
<1>8. JoinsApart'
  <2> SUFFICES ASSUME NEW u \in Sessions, NEW v \in Sessions, u # v, Busy(u)', Busy(v)', IsJoin(u)'
               PROVE  ses'[u].id # ses'[v].id
    BY DEF JoinsApart
  <2>1. CASE u # s /\ v # s
    BY <1>3, <2>1, TokenParts DEF JoinsApart, OthersKept, Busy, IsJoin
  <2>2. CASE u = s
    BY <1>1, <1>3, <2>2 DEF Unused, OthersKept, Busy, IsJoin, At
  <2>3. CASE v = s
    <3>1. ses'[u] = ses[u] /\ Busy(u) /\ IsJoin(u) /\ TokenSes(u)
      BY <1>3, <2>3, TokenParts DEF OthersKept, Busy, IsJoin
    <3> QED
      BY <1>1, <1>3, <2>3, <3>1 DEF Unused, TokenSes, SesToken, At, Busy
  <2> QED
    BY <2>1, <2>2, <2>3
<1> QED
  BY <1>2, <1>5, <1>6, <1>7, <1>8, TokenParts

(* Types and tokens are right at the start. *)
LEMMA InitTokens == Init => TypeInv /\ TokenInv
<1> SUFFICES ASSUME Init PROVE TypeInv /\ TokenInv
  OBVIOUS
<1>1. ses = [s \in Sessions |-> Idle] /\ \A s \in Sessions : ses[s].pc = "idle"
  BY DEF Init, Idle
<1>2. Nothing \in Peers
  BY DEF Nothing, Peers
<1>3. TypeInv
  <2>1. /\ inv \in [Invites -> [st : {"unissued", "active", "consumed", "cancelled"},
                              name : Names \cup {"none"}]]
        /\ rec \in [Recoveries -> [st : {"unissued", "active", "consumed"},
                                   id : Ids \cup {"none"}, cred : Nat, gen : Nat]]
        /\ nodes \in [Ids -> [lc : {"none", "active", "revoked", "deleted"},
                              cred : Nat, name : Names \cup {"none"}]]
    BY DEF Init, NoNode
  <2>6. gen = 1 /\ expired = {} /\ secrets = {} /\ tlsRecord \in BOOLEAN /\ tlsFile \in BOOLEAN
    BY DEF Init
  <2>5. StateType /\ FileType
    BY <2>1, <2>6 DEF StateType, FileType
  <2>2. RunType /\ SesType
    BY <1>2, IdleTyped DEF Init, RunType, SesType
  <2>3. HostType
    <3>1. [joined |-> FALSE, id |-> "none", cred |-> 0, ask |-> "none",
           try |-> <<"none", 0>>, keys |-> {}] \in HostStates
      BY DEF HostStates
    <3> QED
      BY <3>1 DEF Init, HostType
  <2>4. Held
    BY <1>1 DEF Held
  <2> QED
    BY <2>2, <2>3, <2>4, <2>5, TypeParts
<1>4. TokenState
  BY DEF Init, NoNode, TokenState, NameReserved, Correspond, IssuedRecovery, RecoveryAtomic,
         Usable, Known
<1>5. \A s \in Sessions : TokenSes(s)
  BY <1>1 DEF TokenSes, SesTyped, SesToken, SesFresh, Busy, Bound, At
<1>6. JoinsApart
  BY <1>1 DEF JoinsApart, Busy
<1> QED
  BY <1>3, <1>4, <1>5, <1>6, TokenParts

(* Every step keeps types and tokens right. *)
LEMMA NextTokens == TypeInv /\ TokenInv /\ [Next]_vars => TypeInv' /\ TokenInv'
<1> SUFFICES ASSUME TypeInv, TokenInv, [Next]_vars PROVE TypeInv' /\ TokenInv'
  OBVIOUS
<1>1. CASE Operator \/ \E t \in Invites \cup Recoveries : Expire(t)
  BY <1>1, OperatorTypes, OperatorTokens
<1>2. CASE \/ RevokeRuntime \/ RevokeCredentials \/ Crash
           \/ \E h \in Hosts : HostStep(h) \/ HostUncertain(h)
  <2>1. TypeInv' /\ Settled
    BY <1>2, OtherTypes
  <2>2. UNCHANGED <<gen, inv, rec, nodes, expired>>
    BY <1>2 DEF RevokeRuntime, RevokeCredentials, Crash, HostStep, HostAccepts, HostRefused,
                HostUncertain, stateVars, tokens
  <2> QED
    BY <2>1, <2>2, TokenQuiet DEF Settled
<1>3. CASE \E s \in Sessions : SessionStep(s)
  BY <1>3, SessionTypes, SessionTokens, TokenParts DEF TokenSes
<1>4. ASSUME NEW h \in Hosts, NEW s \in Sessions,
             \/ \E i \in Invites, id \in Ids : JoinAsk(h, s, i, id)
             \/ \E r \in Recoveries : RecoverAsk(h, s, r)
      PROVE  TypeInv' /\ TokenInv'
  BY <1>4, AskTokens
<1>5. CASE UNCHANGED vars
  <2>1. TypeInv'
    BY <1>5 DEF vars, TypeInv, TypeOK, InForce
  <2>2. TokenInv'
    BY <1>5, TokenQuiet DEF vars
  <2> QED
    BY <2>1, <2>2
<1> QED
  BY <1>1, <1>2, <1>3, <1>4, <1>5 DEF Next

(* The invariant says what TokensAdmitOnce counts. *)
LEMMA OnceCounted == TokenInv => TokensAdmitOnce
<1> SUFFICES ASSUME TokenInv PROVE InviteAdmitsOne
  BY DEF TokensAdmitOnce, TokenInv
<1>0. Correspond
  BY DEF TokenInv
<1>1. ASSUME NEW i \in Invites, inv[i].st = "consumed"
      PROVE  Cardinality({id \in Ids : nodes[id].lc # "none" /\ nodes[id].name = inv[i].name}) = 1
  <2>1. PICK d \in Ids : Known(d) /\ nodes[d].name = inv[i].name
    BY <1>0, <1>1 DEF Correspond
  <2>2. {id \in Ids : nodes[id].lc # "none" /\ nodes[id].name = inv[i].name} = {d}
    BY <1>0, <2>1 DEF Correspond, Known
  <2> QED
    BY <2>2, FS_Singleton
<1>2. ASSUME NEW id \in Ids, nodes[id].lc # "none"
      PROVE  Cardinality({i \in Invites : inv[i].st = "consumed" /\ inv[i].name = nodes[id].name}) = 1
  <2>1. PICK j \in Invites : inv[j].st = "consumed" /\ inv[j].name = nodes[id].name
    BY <1>0, <1>2 DEF Correspond, Known
  <2>2. {i \in Invites : inv[i].st = "consumed" /\ inv[i].name = nodes[id].name} = {j}
    BY <1>0, <2>1 DEF Correspond
  <2> QED
    BY <2>2, FS_Singleton
<1> QED
  BY <1>1, <1>2 DEF InviteAdmitsOne

(* The sessions and tokens are where the proofs below assume them. *)
THEOREM TokensInductive == Spec => [](TypeInv /\ TokenInv)
BY InitTokens, NextTokens, PTL DEF Spec

(* Whatever exchanges race, are retried, rolled back or cut off by a crash,*)
(* an invite admits one node and a recovery token replaces one generation. *)
THEOREM AdmittedOnce == Spec => []TokensAdmitOnce
BY TokensInductive, OnceCounted, PTL

-----------------------------------------------------------------------------
(* Committed nodes keep their material *)

(* Sessions end or begin, credentials go that nobody relies on, and no     *)
(* node becomes active.                                                    *)
LEMMA MaterialKept ==
  ASSUME TypeInv, TokenInv, MaterialInv, RevInv', UNCHANGED tlsRecord,
         \A id \in Ids : /\ Active(id)' => Active(id)
                         /\ Known(id)' <=> Known(id)
                         /\ nodes'[id].cred = nodes[id].cred,
         \A t \in Sessions : ses'[t] = ses[t] \/ (~Built(t)' /\ ses'[t].ownTls = FALSE),
         \/ tlsFile' = tlsFile
         \/ \E s \in Sessions : ses[s].ownTls /\ ses'[s].ownTls = FALSE,
         \A k \in secrets :
           \/ k \in secrets'
           \/ /\ \A id \in Ids : Active(id)' => k # <<id, nodes[id].cred>>
              /\ \A t \in Sessions : Holds(t) /\ ses'[t] = ses[t] => Key(t) # k
  PROVE  MaterialInv'
<1>0. TlsInv /\ SecretInv /\ \A t \in Sessions : TokenSes(t)
  BY TokenParts DEF MaterialInv
<1>1. \A t \in Sessions : Built(t)' \/ ses'[t].ownTls => ses'[t] = ses[t]
  OBVIOUS
<1>2. \A t \in Sessions : ses'[t] = ses[t] =>
        /\ Built(t)' <=> Built(t)
        /\ IsJoin(t)' <=> IsJoin(t)
        /\ Holds(t)' <=> Holds(t)
        /\ Key(t)' = Key(t)
  BY DEF Built, IsJoin, Holds, Key, At
<1>3. TlsInv'
  <2>1. (tlsRecord => tlsFile)' /\ \A t \in Sessions : ses'[t].ownTls => tlsFile'
    BY <1>0, <1>1 DEF TlsInv
  <2>2. \A id \in Ids : Active(id)' => tlsRecord'
    BY <1>0 DEF TlsInv
  <2> QED
    BY <1>0, <1>1, <1>2, <2>1, <2>2 DEF TlsInv
<1>4. SecretInv'
  <2>1. \A id \in Ids : Active(id)' => <<id, nodes'[id].cred>> \in secrets'
    BY <1>0 DEF SecretInv
  <2>2. ASSUME NEW t \in Sessions, Built(t)', ~IsJoin(t)'
        PROVE  Known(ses[t].id)' /\ nodes'[ses'[t].id].cred # ses'[t].cred /\ ses'[t] = ses[t]
    BY <1>0, <1>1, <1>2, <2>2 DEF SecretInv, TokenSes, SesTyped, Built, At
  <2>3. ASSUME NEW t \in Sessions, Holds(t)' PROVE Key(t)' \in secrets'
    <3>1. ses'[t] = ses[t] /\ Holds(t)
      BY <1>1, <1>2, <2>3 DEF Holds, Built, At
    <3> QED
      BY <1>0, <1>2, <3>1 DEF SecretInv
  <2>4. \A s, t \in Sessions : s # t /\ Built(s)' /\ Built(t)' => Key(s)' # Key(t)'
    BY <1>0, <1>1, <1>2 DEF SecretInv
  <2> QED
    BY <2>1, <2>2, <2>3, <2>4 DEF SecretInv, Known
<1> QED
  BY <1>3, <1>4 DEF MaterialInv

(* What a session has staged is no node's. *)
LEMMA OwnedIsNobodys ==
  ASSUME TypeInv, TokenInv, MaterialInv, NEW s \in Sessions, Built(s)
  PROVE  /\ Owned(s) = {Key(s)}
         /\ \A id \in Ids : Known(id) => Key(s) # <<id, nodes[id].cred>>
         /\ \A t \in Sessions : t # s /\ Holds(t) => Key(t) # Key(s)
<1>0. TokenSes(s) /\ SecretInv
  BY TokenParts DEF MaterialInv
<1>1. Owned(s) = {Key(s)}
  BY DEF Owned, Key
<1>2. \A id \in Ids : Known(id) => Key(s) # <<id, nodes[id].cred>>
  BY <1>0 DEF TokenSes, SesToken, SecretInv, Key, Built, Busy
<1>3. \A t \in Sessions : t # s /\ Holds(t) => Key(t) # Key(s)
  BY <1>0 DEF SecretInv, Holds, Built, At
<1> QED
  BY <1>1, <1>2, <1>3

(* The operator and the expiry of tokens keep the material of the members. *)
LEMMA OperatorMaterial ==
  ASSUME TypeInv, TokenInv, MaterialInv,
         Operator \/ \E t \in Invites \cup Recoveries : Expire(t)
  PROVE  MaterialInv'
<1> USE DEF Advance, tokens, files, stateVars
<1>0. StateType /\ RevInv /\ SecretInv
  BY TypeParts DEF MaterialInv
<1>1. CASE UNCHANGED <<nodes, tlsRecord, files, rev, ses>>
  <2>1. RevInv'
    BY <1>0, <1>1 DEF RevInv
  <2> QED
    BY <1>1, <2>1, MaterialKept DEF Active, Known
<1>2. ASSUME NEW id \in Ids, DeleteNode(id) PROVE MaterialInv'
  <2>1. /\ nodes' = [nodes EXCEPT ![id].lc = "deleted"] /\ nodes[id].lc = "revoked"
        /\ secrets' = secrets \ {<<id, nodes[id].cred>>} /\ rev.pc = "idle"
        /\ UNCHANGED <<tlsRecord, tlsFile, ses, rev>>
    BY <1>2 DEF DeleteNode
  <2>2. \A jd \in Ids : /\ Active(jd)' => Active(jd) /\ jd # id
                        /\ Known(jd)' <=> Known(jd)
                        /\ nodes'[jd].cred = nodes[jd].cred
    BY <1>0, <2>1 DEF StateType, Active, Known
  <2>3. \A t \in Sessions : Holds(t) => Key(t) # <<id, nodes[id].cred>>
    <3> SUFFICES ASSUME NEW t \in Sessions, Holds(t) PROVE Key(t) # <<id, nodes[id].cred>>
      OBVIOUS
    <3>1. Built(t)
      BY DEF Holds, Built, At
    <3> QED
      BY <2>1, <3>1, OwnedIsNobodys DEF Known
  <2>4. RevInv'
    BY <2>1 DEF RevInv
  <2> QED
    BY <2>1, <2>2, <2>3, <2>4, MaterialKept
<1>3. ASSUME NEW id \in Ids, NEW by \in RevokedBy, RevokeCommit(id, by) PROVE MaterialInv'
  <2>1. /\ nodes' = [nodes EXCEPT ![id].lc = "revoked"] /\ nodes[id].lc = "active"
        /\ rev'.pc = "runtime" /\ rev'.id = id /\ rev'.cred = nodes[id].cred
        /\ UNCHANGED <<tlsRecord, tlsFile, ses, secrets>>
    BY <1>3 DEF RevokeCommit, Active
  <2>2. \A jd \in Ids : /\ Active(jd)' => Active(jd)
                        /\ Known(jd)' <=> Known(jd)
                        /\ nodes'[jd].cred = nodes[jd].cred
    BY <1>0, <2>1 DEF StateType, Active, Known
  <2>3. RevInv'
    BY <1>0, <2>1 DEF RevInv, StateType
  <2> QED
    BY <2>1, <2>2, <2>3, MaterialKept
<1> QED
  BY <1>1, <1>2, <1>3
     DEF Operator, Expire, CancelInvite, IssueInvite, IssueRecovery, OtherWrite

(* So do the steps of the revocation, of the machines and a crash. *)
LEMMA OtherMaterial ==
  ASSUME TypeInv, TokenInv, MaterialInv, Settled,
         \/ RevokeRuntime \/ RevokeCredentials \/ Crash
         \/ \E h \in Hosts : HostStep(h) \/ HostUncertain(h)
  PROVE  MaterialInv'
<1> USE DEF tokens, files, stateVars
<1>0. RevInv /\ SecretInv /\ RunType
  BY TypeParts DEF MaterialInv
<1>1. \A t \in Sessions : ses'[t] = ses[t] \/ (~Built(t)' /\ ses'[t].ownTls = FALSE)
  BY DEF Settled, Idle, Built
<1>2. UNCHANGED <<nodes, tlsRecord, tlsFile>>
  BY DEF RevokeRuntime, RevokeCredentials, Crash, HostStep, HostAccepts, HostRefused, HostUncertain
<1>3. RevInv'
  <2>1. CASE RevokeRuntime
    <3>1. rev'.id = rev.id /\ rev'.cred = rev.cred /\ rev.pc = "runtime"
      BY <1>0, <2>1 DEF RevokeRuntime, RunType, RevStates
    <3> QED
      BY <1>0, <1>2, <3>1 DEF RevInv
  <2>2. CASE rev' = rev \/ rev' = NoRevocation
    BY <1>0, <1>2, <2>2 DEF RevInv, NoRevocation
  <2> QED
    BY <2>1, <2>2 DEF RevokeCredentials, Crash, HostStep, HostAccepts, HostRefused, HostUncertain
<1>4. \A k \in secrets :
           \/ k \in secrets'
           \/ /\ \A id \in Ids : Active(id) => k # <<id, nodes[id].cred>>
              /\ \A t \in Sessions : Holds(t) => Key(t) # k
  <2>1. CASE UNCHANGED secrets
    BY <2>1
  <2>2. CASE RevokeCredentials
    <3>1. rev.id \in Ids /\ nodes[rev.id].lc = "revoked" /\ rev.cred = nodes[rev.id].cred
      BY <1>0, <2>2 DEF RevInv, RevokeCredentials
    <3>2. \A t \in Sessions : Holds(t) => Built(t)
      BY DEF Holds, Built, At
    <3>3. \A t \in Sessions : Holds(t) => Key(t) # <<rev.id, rev.cred>>
      BY <3>1, <3>2, OwnedIsNobodys DEF Known
    <3> QED
      BY <2>2, <3>1, <3>3 DEF RevokeCredentials, Active
  <2> QED
    BY <2>1, <2>2
       DEF RevokeRuntime, Crash, HostStep, HostAccepts, HostRefused, HostUncertain
<1> QED
  BY <1>1, <1>2, <1>3, <1>4, MaterialKept DEF Active, Known

(* A session answers, taking back or leaving what it has made. *)
LEMMA EndMaterial ==
  ASSUME TypeInv, TokenInv, MaterialInv, NEW s \in Sessions, Answer(s, "no"),
         UNCHANGED <<nodes, tlsRecord, rev>>,
         tlsFile' = tlsFile \/ (Built(s) /\ ses[s].ownTls),
         secrets' = secrets \/ (Built(s) /\ secrets' = secrets \ Owned(s))
  PROVE  MaterialInv'
<1>1. OthersKept(s) /\ Same(s) /\ ses'[s].pc = "reply" /\ ses'[s].ownTls = FALSE
  BY Answers
<1>2. RevInv'
  BY DEF MaterialInv, RevInv
<1>3. \A t \in Sessions : ses'[t] = ses[t] \/ (~Built(t)' /\ ses'[t].ownTls = FALSE)
  BY <1>1 DEF OthersKept, Built
<1>4. \A t \in Sessions : Holds(t) /\ ses'[t] = ses[t] => t # s
  BY <1>1 DEF Holds, Built, At
<1>5. \A k \in secrets :
           \/ k \in secrets'
           \/ /\ \A id \in Ids : Active(id) => k # <<id, nodes[id].cred>>
              /\ \A t \in Sessions : Holds(t) /\ ses'[t] = ses[t] => Key(t) # k
  <2>1. CASE UNCHANGED secrets
    BY <2>1
  <2>2. CASE Built(s) /\ secrets' = secrets \ Owned(s)
    BY <1>4, <2>2, OwnedIsNobodys DEF Active, Known
  <2> QED
    BY <2>1, <2>2
<1>6. tlsFile' = tlsFile \/ \E u \in Sessions : ses[u].ownTls /\ ses'[u].ownTls = FALSE
  BY <1>1
<1> QED
  BY <1>2, <1>3, <1>5, <1>6, MaterialKept DEF Active, Known

(* A candidate is built, or goes on. *)
LEMMA BuildMaterial ==
  ASSUME TypeInv, TokenInv, MaterialInv, NEW s \in Sessions,
         JoinBuild(s) \/ RecoverBuild(s) \/ Activate(s) \/ JoinStage(s)
  PROVE  MaterialInv'
<1> USE DEF files, stateVars
<1>0. RevInv /\ TlsInv /\ SecretInv /\ TokenSes(s) /\ JoinsApart
  BY TokenParts DEF MaterialInv
<1>a. UNCHANGED <<gen, nodes, tlsRecord, rev>> /\ secrets \subseteq secrets'
  BY DEF JoinBuild, RecoverBuild, Activate, JoinStage
<1>b. RevInv'
  BY <1>0, <1>a DEF RevInv
<1>c. ses[s].id \in Ids /\ ses[s].cred \in Nat /\ Owned(s) = {Key(s)} /\ Busy(s)
  BY <1>0, OwnedTyped DEF JoinBuild, RecoverBuild, Activate, JoinStage, At, TokenSes, Busy
<1>d. [Image EXCEPT ![ses[s].id] = ses[s].cred] \in Peers
      /\ [Image EXCEPT ![ses[s].id] = 1] \in Peers
  BY <1>c, ImageTyped
<1>e. ses[s].pc = "authorized" => ses[s].ownTls = FALSE
  <2>1. ses[s].ownTls \in BOOLEAN
    BY DEF TypeInv, SesStates
  <2> QED
    BY <1>0, <2>1 DEF TlsInv, Built
<1>f. /\ OthersKept(s) /\ Same(s) /\ ses'[s].pc \in {"built", "ready", "staged"}
      /\ JoinBuild(s) => ses'[s].pc = "built" /\ ses'[s].ownTls = ~tlsRecord
      /\ RecoverBuild(s) => ses'[s].pc = "built" /\ ses'[s].ownTls = ses[s].ownTls
      /\ Activate(s) => ses'[s].pc = "ready" /\ ses'[s].ownTls = ses[s].ownTls
      /\ JoinStage(s) => ses'[s].pc = "staged" /\ ses'[s].ownTls = ses[s].ownTls
  <2>0. (~tlsRecord) \in BOOLEAN
    OBVIOUS
  <2>1. CASE JoinBuild(s)
    <3>1. Moved(s, "built") /\ ses'[s].ownTls = ~tlsRecord
      BY <1>d, <2>0, <2>1, Builds DEF JoinBuild
    <3> QED
      BY <2>1, <3>1 DEF Moved, JoinBuild, RecoverBuild, Activate, JoinStage, At
  <2>2. CASE RecoverBuild(s)
    <3>1. Moved(s, "built") /\ ses'[s].ownTls = ses[s].ownTls
      BY <1>d, <2>2, BuildsAgain DEF RecoverBuild
    <3> QED
      BY <2>2, <3>1 DEF Moved, JoinBuild, RecoverBuild, Activate, JoinStage, At
  <2>3. CASE Activate(s)
    <3>1. Moved(s, "ready") /\ ses'[s].ownTls = ses[s].ownTls
      BY <2>3, Activates DEF Activate
    <3> QED
      BY <2>3, <3>1 DEF Moved, JoinBuild, RecoverBuild, Activate, JoinStage, At
  <2>4. CASE JoinStage(s)
    <3>1. Moved(s, "staged") /\ ses'[s].ownTls = ses[s].ownTls
      BY <2>4, Stages DEF JoinStage
    <3> QED
      BY <2>4, <3>1 DEF Moved, JoinBuild, RecoverBuild, Activate, JoinStage, At
  <2> QED
    BY <2>1, <2>2, <2>3, <2>4
<1>g. \A t \in Sessions : /\ IsJoin(t)' <=> IsJoin(t)
                          /\ Key(t)' = Key(t)
                          /\ t # s => ses'[t] = ses[t] /\ (Built(t)' <=> Built(t))
                                      /\ (Holds(t)' <=> Holds(t))
  BY <1>f DEF OthersKept, Same, IsJoin, Key, Built, Holds, At
<1>h. Built(s)'
  BY <1>f DEF Built
<1>i. TlsInv'
  <2>1. CASE JoinBuild(s)
    <3>1. tlsFile' = TRUE /\ (tlsRecord \/ ~tlsFile) /\ IsJoin(s) /\ ses'[s].ownTls = ~tlsRecord
      BY <1>f, <2>1 DEF JoinBuild
    <3>2. \A t \in Sessions : ses'[t].ownTls => t = s \/ tlsRecord
      BY <1>0, <1>g, <3>1 DEF TlsInv
    <3>3. \A t \in Sessions : t # s => ~ses'[t].ownTls \/ ~ses'[s].ownTls
      BY <1>0, <1>g, <3>1 DEF TlsInv
    <3>4. \A t \in Sessions : ses'[t].ownTls => Built(t)' /\ IsJoin(t)' /\ ~tlsRecord'
      BY <1>0, <1>a, <1>g, <1>h, <3>1 DEF TlsInv
    <3> QED
      BY <1>0, <1>a, <1>g, <1>h, <3>1, <3>2, <3>3, <3>4 DEF TlsInv, Active
  <2>2. CASE RecoverBuild(s) \/ Activate(s) \/ JoinStage(s)
    <3>1. tlsFile' = tlsFile /\ ses'[s].ownTls = ses[s].ownTls /\ (IsJoin(s) => Built(s))
      BY <1>f, <2>2 DEF RecoverBuild, Activate, JoinStage, Built, At
    <3> QED
      BY <1>0, <1>a, <1>g, <1>h, <3>1 DEF TlsInv, Active
  <2> QED
    BY <2>1, <2>2
<1>j. SecretInv'
  <2>1. \A id \in Ids : Active(id)' => <<id, nodes'[id].cred>> \in secrets'
    BY <1>0, <1>a DEF SecretInv, Active
  <2>2. ~IsJoin(s) => Known(ses[s].id) /\ nodes[ses[s].id].cred # ses[s].cred
    <3>1. CASE Built(s)
      BY <1>0, <3>1 DEF SecretInv
    <3>2. CASE RecoverBuild(s)
      <4>1. /\ rec[ses[s].tok].id = ses[s].id /\ ses[s].cred = rec[ses[s].tok].cred + 1
            /\ Active(ses[s].id) /\ nodes[ses[s].id].cred = rec[ses[s].tok].cred
        BY <1>0, <3>2 DEF RecoverBuild, TokenSes, SesToken, SesFresh, Busy, Bound, At
      <4>2. nodes[ses[s].id].cred \in Nat
        BY <1>c DEF TypeInv, TypeOK
      <4> QED
        BY <4>1, <4>2 DEF Active, Known
    <3> QED
      BY <3>1, <3>2 DEF JoinBuild, Activate, JoinStage, Built, At
  <2>3. \A t \in Sessions : Built(t)' /\ ~IsJoin(t)' =>
          Known(ses[t].id)' /\ nodes'[ses'[t].id].cred # ses'[t].cred
    BY <1>0, <1>a, <1>f, <1>g, <2>2 DEF SecretInv, Known, Same
  <2>4. \A t \in Sessions : Holds(t)' => Key(t)' \in secrets'
    <3>1. Holds(s)' => Key(s) \in secrets'
      <4>1. CASE RecoverBuild(s) \/ JoinStage(s)
        BY <1>c, <4>1 DEF RecoverBuild, JoinStage
      <4>2. CASE JoinBuild(s)
        BY <1>f, <1>g, <4>2 DEF JoinBuild, Holds, At
      <4>3. CASE Activate(s)
        BY <1>0, <1>a, <1>f, <1>g, <4>3 DEF Activate, SecretInv, Holds, Built, At
      <4> QED
        BY <4>1, <4>2, <4>3
    <3> QED
      BY <1>0, <1>a, <1>g, <3>1 DEF SecretInv
  <2>5. \A t \in Sessions : t # s /\ Built(t) => Key(t) # Key(s)
    <3>1. CASE Built(s)
      BY <1>0, <3>1 DEF SecretInv
    <3>2. CASE JoinBuild(s)
      BY <1>0, <1>c, <3>2 DEF JoinBuild, JoinsApart, Key, Busy, Built
    <3>3. CASE RecoverBuild(s)
      <4>1. Key(s) \notin secrets
        BY <1>c, <3>3 DEF RecoverBuild
      <4>2. \A t \in Sessions : t # s /\ Built(t) /\ IsJoin(t) => Key(t) # Key(s)
        BY <1>0, <1>c DEF JoinsApart, Key, Busy, Built
      <4>3. \A t \in Sessions : t # s /\ Built(t) /\ ~IsJoin(t) => Key(t) # Key(s)
        BY <1>0, <4>1 DEF SecretInv, Holds
      <4> QED
        BY <4>2, <4>3
    <3> QED
      BY <3>1, <3>2, <3>3 DEF Activate, JoinStage, Built, At
  <2>6. \A u, t \in Sessions : u # t /\ Built(u)' /\ Built(t)' => Key(u)' # Key(t)'
    BY <1>0, <1>g, <2>5 DEF SecretInv
  <2> QED
    BY <2>1, <2>3, <2>4, <2>6 DEF SecretInv
<1> QED
  BY <1>b, <1>i, <1>j DEF MaterialInv

(* A join is committed: the node's credentials are staged, and the tunnel  *)
(* identity is recorded or was made by this session.                       *)
LEMMA JoinMaterial ==
  ASSUME TypeInv, TokenInv, MaterialInv, NEW s \in Sessions, At(s, "staged"),
         JoinState(s), Answer(s, "ok") \/ Answer(s, "no"), UNCHANGED <<files, rev>>
  PROVE  MaterialInv'
<1> USE DEF files
<1>0. StateType /\ RevInv /\ TlsInv /\ SecretInv /\ TokenSes(s) /\ JoinsApart
  BY TypeParts, TokenParts DEF MaterialInv
<1>1. OthersKept(s) /\ ses'[s].pc = "reply" /\ ses'[s].ownTls = FALSE
  BY Answers
<1> DEFINE d == ses[s].id
<1>2. d \in Ids /\ ~Known(d) /\ Built(s) /\ IsJoin(s) /\ Key(s) = <<d, 1>> /\ Key(s) \in secrets
  BY <1>0 DEF TokenSes, SesTyped, SesToken, At, Busy, Built, Key, SecretInv, Holds
<1>3. /\ \A e \in Ids : e # d => nodes'[e] = nodes[e]
      /\ nodes'[d].lc = "active" /\ nodes'[d].cred = 1 /\ tlsRecord' = TRUE
  BY <1>0, <1>2 DEF JoinState, StateType
<1> HIDE DEF d
<1>4. RevInv'
  BY <1>0, <1>2, <1>3 DEF RevInv, Known
<1>5. \A t \in Sessions : Built(t)' \/ ses'[t].ownTls => t # s /\ ses'[t] = ses[t]
  BY <1>1 DEF OthersKept, Built
<1>6. \A t \in Sessions : ses'[t] = ses[t] =>
        /\ Built(t)' <=> Built(t)
        /\ IsJoin(t)' <=> IsJoin(t)
        /\ Holds(t)' <=> Holds(t)
        /\ Key(t)' = Key(t)
  BY DEF Built, IsJoin, Holds, Key, At
<1>7. \A t \in Sessions : ses'[t].ownTls => FALSE
  BY <1>0, <1>2, <1>5 DEF TlsInv
<1>8. TlsInv'
  BY <1>0, <1>2, <1>3, <1>7 DEF TlsInv
<1>9. SecretInv'
  <2>1. \A id \in Ids : Active(id)' => <<id, nodes'[id].cred>> \in secrets'
    BY <1>0, <1>2, <1>3 DEF SecretInv, Active
  <2>2. ASSUME NEW t \in Sessions, Built(t)', ~IsJoin(t)'
        PROVE  Known(ses[t].id)' /\ nodes'[ses'[t].id].cred # ses'[t].cred /\ ses'[t] = ses[t]
    <3>1. ses'[t] = ses[t] /\ TokenSes(t) /\ Built(t) /\ ~IsJoin(t)
      BY <1>5, <1>6, <2>2, TokenParts
    <3>2. ses[t].id \in Ids /\ Known(ses[t].id) /\ nodes[ses[t].id].cred # ses[t].cred
      BY <1>0, <3>1 DEF SecretInv, TokenSes, SesTyped, Built, At
    <3> QED
      BY <1>2, <1>3, <3>1, <3>2 DEF Known
  <2>3. ASSUME NEW t \in Sessions, Holds(t)' PROVE Key(t)' \in secrets'
    <3>1. Built(t)'
      BY <2>3 DEF Holds, Built, At
    <3> QED
      BY <1>0, <1>5, <1>6, <2>3, <3>1 DEF SecretInv
  <2>4. \A u, t \in Sessions : u # t /\ Built(u)' /\ Built(t)' => Key(u)' # Key(t)'
    BY <1>0, <1>5, <1>6 DEF SecretInv
  <2> QED
    BY <2>1, <2>2, <2>3, <2>4 DEF SecretInv, Known
<1> QED
  BY <1>4, <1>8, <1>9 DEF MaterialInv

(* A recovery is committed: the new generation is staged, and the one that *)
(* goes is the node's old one.                                             *)
LEMMA RecoverMaterial ==
  ASSUME TypeInv, TokenInv, MaterialInv, NEW s \in Sessions, RecoverCommit(s)
  PROVE  MaterialInv'
<1>0. StateType /\ RevInv /\ TlsInv /\ SecretInv /\ TokenSes(s) /\ JoinsApart
  BY TypeParts, TokenParts DEF MaterialInv
<1>1. OthersKept(s) /\ ses'[s].pc = "reply" /\ ses'[s].ownTls = FALSE
  BY Answers DEF RecoverCommit
<1> DEFINE d == ses[s].id
           c == rec[ses[s].tok].cred
<1>2. /\ d \in Ids /\ Active(d) /\ Built(s) /\ ~IsJoin(s) /\ nodes[d].cred = c
      /\ ses[s].cred = c + 1 /\ Key(s) \in secrets
  BY <1>0 DEF RecoverCommit, Committable, TokenSes, SesTyped, SesToken, SesFresh, At, Busy,
              Bound, Built, SecretInv, Holds
<1>3. c \in Nat
  BY <1>0, <1>2 DEF StateType
<1>4. /\ \A e \in Ids : (e # d => nodes'[e] = nodes[e]) /\ nodes'[e].lc = nodes[e].lc
      /\ nodes'[d].cred = c + 1
      /\ UNCHANGED <<tlsRecord, tlsFile, rev>>
      /\ secrets' = secrets \ {<<d, c>>}
      /\ Key(s) = <<d, c + 1>>
  BY <1>0, <1>2, <1>3 DEF RecoverCommit, StateType, Key
<1> HIDE DEF d, c
<1>5. RevInv'
  BY <1>0, <1>2, <1>4 DEF RevInv, Active
<1>6. \A t \in Sessions : Built(t)' \/ ses'[t].ownTls => t # s /\ ses'[t] = ses[t]
  BY <1>1 DEF OthersKept, Built
<1>7. \A t \in Sessions : ses'[t] = ses[t] =>
        /\ Built(t)' <=> Built(t)
        /\ IsJoin(t)' <=> IsJoin(t)
        /\ Holds(t)' <=> Holds(t)
        /\ Key(t)' = Key(t)
  BY DEF Built, IsJoin, Holds, Key, At
<1>8. TlsInv'
  BY <1>0, <1>4, <1>6, <1>7 DEF TlsInv, Active
<1>9. SecretInv'
  <2>1. \A id \in Ids : Active(id)' => <<id, nodes'[id].cred>> \in secrets'
    BY <1>0, <1>2, <1>3, <1>4 DEF SecretInv, Active
  <2>2. ASSUME NEW t \in Sessions, Built(t)', ~IsJoin(t)'
        PROVE  Known(ses[t].id)' /\ nodes'[ses'[t].id].cred # ses'[t].cred /\ ses'[t] = ses[t]
    <3>1. ses'[t] = ses[t] /\ TokenSes(t) /\ Built(t) /\ ~IsJoin(t) /\ t # s
      BY <1>6, <1>7, <2>2, TokenParts
    <3>2. ses[t].id \in Ids /\ Known(ses[t].id) /\ nodes[ses[t].id].cred # ses[t].cred
      BY <1>0, <3>1 DEF SecretInv, TokenSes, SesTyped, Built, At
    <3>3. ses[t].id = d => ses[t].cred # c + 1
      BY <1>0, <1>2, <1>4, <3>1 DEF SecretInv, Key
    <3> QED
      BY <1>2, <1>4, <3>1, <3>2, <3>3 DEF Known
  <2>3. ASSUME NEW t \in Sessions, Holds(t)' PROVE Key(t)' \in secrets'
    <3>1. Built(t)'
      BY <2>3 DEF Holds, Built, At
    <3>2. t # s /\ Holds(t) /\ Built(t) /\ Key(t)' = Key(t) /\ Key(t) \in secrets
      BY <1>0, <1>6, <1>7, <2>3, <3>1 DEF SecretInv
    <3>3. Key(t) # <<d, c>>
      BY <1>2, <3>2, OwnedIsNobodys DEF Active, Known
    <3> QED
      BY <1>4, <3>2, <3>3
  <2>4. \A u, t \in Sessions : u # t /\ Built(u)' /\ Built(t)' => Key(u)' # Key(t)'
    BY <1>0, <1>6, <1>7 DEF SecretInv
  <2> QED
    BY <2>1, <2>2, <2>3, <2>4 DEF SecretInv, Known
<1> QED
  BY <1>5, <1>8, <1>9 DEF MaterialInv

(* Every step of a session keeps the material of the members. *)
LEMMA SessionMaterial ==
  ASSUME TypeInv, TokenInv, MaterialInv, NEW s \in Sessions, SessionStep(s)
  PROVE  MaterialInv'
<1> USE DEF files, stateVars
<1>0. RevInv /\ TlsInv
  BY DEF MaterialInv
<1>1. CASE JoinAuthorize(s) \/ RecoverAuthorize(s)
  <2>1. Moved(s, "authorized") /\ ses'[s].ownTls = ses[s].ownTls
    BY <1>1, Authorizes DEF JoinAuthorize, RecoverAuthorize
  <2>2. ses[s].ownTls = FALSE
    <3>1. ses[s].ownTls \in BOOLEAN
      BY DEF TypeInv, SesStates
    <3> QED
      BY <1>0, <1>1, <3>1 DEF TlsInv, Built, JoinAuthorize, RecoverAuthorize, At
  <2>3. UNCHANGED <<nodes, tlsRecord, tlsFile, secrets, rev>>
    BY <1>1 DEF JoinAuthorize, RecoverAuthorize
  <2>4. RevInv'
    BY <1>0, <2>3 DEF RevInv
  <2>5. \A t \in Sessions : ses'[t] = ses[t] \/ (~Built(t)' /\ ses'[t].ownTls = FALSE)
    BY <2>1, <2>2 DEF Moved, OthersKept, Built
  <2> QED
    BY <2>3, <2>4, <2>5, MaterialKept DEF Active, Known
<1>2. CASE JoinBuild(s) \/ RecoverBuild(s) \/ Activate(s) \/ JoinStage(s)
  BY <1>2, BuildMaterial
<1>3. CASE JoinRefuse(s) \/ RecoverRefuse(s)
  <2>1. ~ses[s].ownTls
    BY <1>0, <1>3 DEF TlsInv, Built, JoinRefuse, RecoverRefuse, At
  <2>2. tlsFile' = tlsFile
    BY <1>3, <2>1 DEF TypeInv, TypeOK, JoinRefuse, RecoverRefuse, Reject
  <2> QED
    BY <1>3, <2>2, EndMaterial DEF JoinRefuse, RecoverRefuse, Reject
<1>4. CASE \/ ActivateFails(s) \/ JoinStageFails(s) \/ JoinCommitFails(s)
           \/ RecoverCommitFails(s)
  <2>1. Built(s) /\ Answer(s, "no") /\ UNCHANGED <<nodes, tlsRecord, rev>>
        /\ (secrets' = secrets \/ secrets' = secrets \ Owned(s))
    BY <1>4 DEF Built, ActivateFails, JoinStageFails, JoinCommitFails, RecoverCommitFails,
       RollBack, At
  <2>2. tlsFile' = (tlsFile /\ ~ses[s].ownTls)
    BY <1>4 DEF ActivateFails, JoinStageFails, JoinCommitFails, RecoverCommitFails, RollBack
  <2>3. tlsFile' = tlsFile \/ ses[s].ownTls
    BY <2>2 DEF TypeInv, TypeOK
  <2> QED
    BY <2>1, <2>3, EndMaterial
<1>5. CASE RecoverCommitLost(s)
  BY <1>5, EndMaterial DEF RecoverCommitLost
<1>6. CASE JoinCommit(s) \/ JoinUncertain(s)
  <2>1. CASE JoinState(s)
    BY <1>6, <2>1, JoinMaterial DEF JoinCommit, JoinUncertain
  <2>2. CASE JoinUncertain(s) /\ UNCHANGED stateVars
    BY <2>2, EndMaterial DEF JoinUncertain
  <2> QED
    BY <1>6, <2>1, <2>2 DEF JoinCommit, JoinUncertain
<1>7. CASE RecoverCommit(s)
  BY <1>7, RecoverMaterial
<1>8. CASE Unheard(s)
  <2>1. Settled /\ UNCHANGED <<nodes, tlsRecord, tlsFile, secrets, rev>>
    BY <1>8, Settles DEF Unheard
  <2>2. RevInv'
    BY <1>0, <2>1 DEF RevInv
  <2>3. \A t \in Sessions : ses'[t] = ses[t] \/ (~Built(t)' /\ ses'[t].ownTls = FALSE)
    BY <2>1 DEF Settled, Idle, Built
  <2> QED
    BY <2>1, <2>2, <2>3, MaterialKept DEF Active, Known
<1> QED
  BY <1>1, <1>2, <1>3, <1>4, <1>5, <1>6, <1>7, <1>8 DEF SessionStep

(* Every step keeps the material invariant. *)
LEMMA NextMaterial ==
  TypeInv /\ TokenInv /\ MaterialInv /\ [Next]_vars => MaterialInv'
<1> SUFFICES ASSUME TypeInv, TokenInv, MaterialInv, [Next]_vars PROVE MaterialInv'
  OBVIOUS
<1>1. CASE Operator \/ \E t \in Invites \cup Recoveries : Expire(t)
  BY <1>1, OperatorMaterial
<1>2. CASE \/ RevokeRuntime \/ RevokeCredentials \/ Crash
           \/ \E h \in Hosts : HostStep(h) \/ HostUncertain(h)
  BY <1>2, OtherTypes, OtherMaterial
<1>3. CASE \E s \in Sessions : SessionStep(s)
  BY <1>3, SessionMaterial
<1>4. ASSUME NEW h \in Hosts, NEW s \in Sessions,
             \/ \E i \in Invites, id \in Ids : JoinAsk(h, s, i, id)
             \/ \E r \in Recoveries : RecoverAsk(h, s, r)
      PROVE  MaterialInv'
  <2>1. PICK id \in Ids, cred \in Nat, t \in Invites \cup Recoveries : Begin(h, s, id, cred, t)
    BY <1>4, AskFacts, Zenon
  <2>2. Begun(h, s, id, cred, t)
    BY <2>1, Begins
  <2>3. UNCHANGED <<nodes, tlsRecord, tlsFile, secrets, rev>>
    BY <2>1 DEF Begin, stateVars, files
  <2>4. RevInv'
    BY <2>3 DEF MaterialInv, RevInv
  <2>5. \A u \in Sessions : ses'[u] = ses[u] \/ (~Built(u)' /\ ses'[u].ownTls = FALSE)
    BY <2>2 DEF Begun, OthersKept, Built
  <2> QED
    BY <2>3, <2>4, <2>5, MaterialKept DEF Active, Known
<1>5. CASE UNCHANGED vars
  <2>1. RevInv'
    BY <1>5 DEF MaterialInv, RevInv, vars
  <2> QED
    BY <1>5, <2>1, MaterialKept DEF vars, Active, Known
<1> QED
  BY <1>1, <1>2, <1>3, <1>4, <1>5 DEF Next

(* The material invariant holds at the start. *)
LEMMA InitMaterial == Init => MaterialInv
BY DEF Init, MaterialInv, RevInv, TlsInv, SecretInv, NoRevocation, NoNode, Idle, Active, Built,
       Holds, At

(* Every committed node has its credentials in the store and the gateway   *)
(* its tunnel identity, whatever the sessions around it roll back and      *)
(* whoever revokes.                                                        *)
THEOREM MaterialKeptAlways == Spec => []MemberHasMaterial
<1>1. MaterialInv => MemberHasMaterial
  BY DEF MaterialInv, TlsInv, SecretInv, MemberHasMaterial
<1> QED
  BY <1>1, TokensInductive, InitMaterial, NextMaterial, PTL DEF Spec

-----------------------------------------------------------------------------
(* The runtime serves the members *)

(* Renderings depend on the nodes only. *)
LEMMA ImageKept ==
  ASSUME \A id \in Ids : (Active(id)' <=> Active(id)) /\ nodes'[id].cred = nodes[id].cred
  PROVE  Image' = Image
BY DEF Image, Active

(* A commit turns the candidate's rendering into the state's. *)
LEMMA ImageCommitted ==
  ASSUME NEW d \in Ids, NEW c, nodes'[d].lc = "active", nodes'[d].cred = c,
         \A e \in Ids : e # d => nodes'[e] = nodes[e]
  PROVE  Image' = [Image EXCEPT ![d] = c]
BY DEF Image, Active

(* The runtime invariant is the conjunction of its parts, before and after a step. *)
LEMMA RuntimeParts ==
  /\ RuntimeInv <=> RevHolds /\ CandInv /\ (Calm => Quiescent)
  /\ RuntimeInv' <=> RevHolds' /\ CandInv' /\ (Calm' => Quiescent')
BY DEF RuntimeInv

(* Candidates of sessions left alone, in the same state or a later one. *)
LEMMA CandKept ==
  ASSUME TypeInv, TokenInv, CandInv,
         IF gen' = gen THEN Image' = Image ELSE gen' = gen + 1,
         \A t \in Sessions : ses'[t] = ses[t] \/ ~Built(t)'
  PROVE  CandInv'
<1> SUFFICES ASSUME NEW t \in Sessions, Built(t)', ses'[t].base = gen'
             PROVE  ses'[t].cand = [Image' EXCEPT ![ses'[t].id] = ses'[t].cred]
  BY DEF CandInv
<1>1. ses'[t] = ses[t] /\ Built(t)
  BY DEF Built
<1>2. gen \in Nat /\ ses[t].base \in Nat /\ ses[t].base <= gen
  BY <1>1, TokenParts DEF TokenSes, SesFresh, Bound, Built, TypeInv, TypeOK, SesStates
<1>3. gen' = gen
  BY <1>1, <1>2
<1> QED
  BY <1>1, <1>3 DEF CandInv

(* A revocation holds the mutex; the other writes leave the image as it is. *)
LEMMA OperatorRuntime ==
  ASSUME TypeInv, TokenInv, RuntimeInv,
         Operator \/ \E t \in Invites \cup Recoveries : Expire(t)
  PROVE  RuntimeInv'
<1> USE DEF Advance, tokens, files, stateVars, history
<1>0. StateType /\ RunType /\ Held /\ RevHolds /\ CandInv /\ (Calm => Quiescent)
  BY TypeParts, RuntimeParts
<1>1. gen \in Nat /\ UNCHANGED <<ses, rt, drift, overlap>> /\ gen' \in {gen, gen + 1}
  BY <1>0 DEF StateType, Operator, CancelInvite, IssueInvite, IssueRecovery, DeleteNode,
     RevokeCommit, OtherWrite, Expire
<1>2. CASE Image' = Image /\ UNCHANGED <<mutex, rev>>
  <2>1. CandInv'
    BY <1>0, <1>1, <1>2, CandKept
  <2> QED
    BY <1>0, <1>1, <1>2, <2>1, RuntimeParts DEF RevHolds, Quiescent, InForce, Calm
<1>3. CASE UNCHANGED <<nodes, mutex, rev>>
  BY <1>2, <1>3, ImageKept DEF Active
<1>4. ASSUME NEW id \in Ids, DeleteNode(id) PROVE RuntimeInv'
  <2>1. Image' = Image
    BY <1>0, <1>4, ImageKept DEF DeleteNode, Active, StateType
  <2> QED
    BY <1>2, <1>4, <2>1 DEF DeleteNode
<1>5. ASSUME NEW id \in Ids, NEW by \in RevokedBy, RevokeCommit(id, by) PROVE RuntimeInv'
  <2>1. /\ rev'.pc = "runtime" /\ gen' = gen + 1
        /\ rev'.cand = [Image EXCEPT ![id] = 0]
    BY <1>5 DEF RevokeCommit
  <2>2. Image' = [Image EXCEPT ![id] = 0]
    <3>1. nodes' = [nodes EXCEPT ![id].lc = "revoked"]
      BY <1>5 DEF RevokeCommit
    <3>2. nodes'[id].lc = "revoked" /\ \A e \in Ids : e # id => nodes'[e] = nodes[e]
      BY <1>0, <3>1 DEF StateType
    <3> QED
      BY <3>2 DEF Image, Active
  <2>3. CandInv'
    BY <1>0, <1>1, <2>1, CandKept
  <2>4. RevHolds'
    BY <1>0, <1>1, <2>1 DEF RevHolds
  <2>5. Quiescent'
    BY <2>1, <2>2 DEF Quiescent
  <2> QED
    BY <2>3, <2>4, <2>5, RuntimeParts
<1> QED
  BY <1>3, <1>4, <1>5 DEF Operator, Expire, CancelInvite, IssueInvite, IssueRecovery, OtherWrite

(* The steps of the revocation, of the machines and a crash. *)
LEMMA OtherRuntime ==
  ASSUME TypeInv, TokenInv, RuntimeInv, Settled,
         \/ RevokeRuntime \/ RevokeCredentials \/ Crash
         \/ \E h \in Hosts : HostStep(h) \/ HostUncertain(h)
  PROVE  RuntimeInv'
<1> USE DEF tokens, files, stateVars, history
<1>0. RunType /\ Held /\ RevHolds /\ CandInv /\ (Calm => Quiescent)
  BY TypeParts, RuntimeParts
<1>1. UNCHANGED <<gen, nodes>>
  BY DEF RevokeRuntime, RevokeCredentials, Crash, HostStep, HostAccepts, HostRefused, HostUncertain
<1>2. Image' = Image
  BY <1>1, ImageKept DEF Active
<1>3. CandInv'
  <2>1. \A t \in Sessions : ses'[t] = ses[t] \/ ~Built(t)'
    BY DEF Settled, Idle, Built
  <2> QED
    BY <1>0, <1>1, <1>2, <2>1, CandKept
<1>4. \A t \in Sessions : InForce(t)' => InForce(t) /\ ses'[t] = ses[t]
  BY DEF Settled, Idle, InForce
<1>5. CASE RevokeRuntime
  <2>1. rev.pc = "runtime" /\ rev'.pc = "credentials" /\ mutex' = mutex /\ overlap' \in BOOLEAN
    BY <1>0, <1>5 DEF RevokeRuntime, RunType, RevStates, Clobbers
  <2>2. ASSUME Calm' PROVE Quiescent'
    <3>1. rt' = rev.cand /\ ~drift /\ ~overlap
      BY <1>0, <1>5, <2>2 DEF RevokeRuntime, Calm, Clobbers, RevHolds, RunType
    <3>2. mutex = Revoker \/ (mutex \notin Sessions /\ rev.cand = Image)
      BY <1>5, <2>2 DEF RevokeRuntime, Calm, Clobbers
    <3>3. rev.cand = Image
      BY <1>0, <2>1, <3>1, <3>2 DEF Calm, Quiescent
    <3>4. \A t \in Sessions : ~InForce(t)'
      BY <1>0, <1>4, <3>2 DEF Held, InForce
    <3> QED
      BY <1>2, <2>1, <3>1, <3>3, <3>4 DEF Quiescent
  <2>3. RevHolds'
    BY <2>1 DEF RevHolds
  <2> QED
    BY <1>3, <2>2, <2>3, RuntimeParts
<1>6. CASE RevokeCredentials
  <2>1. /\ rev.pc = "credentials" /\ rev'.pc = "idle" /\ UNCHANGED <<rt, drift, overlap>>
        /\ mutex' = IF mutex = Revoker THEN Nobody ELSE mutex
    BY <1>6 DEF RevokeCredentials, NoRevocation
  <2>2. RevHolds'
    BY <1>0, <2>1 DEF RevHolds
  <2>3. Calm' => Quiescent'
    BY <1>0, <1>2, <1>4, <2>1 DEF Calm, Quiescent
  <2> QED
    BY <1>3, <2>2, <2>3, RuntimeParts
<1>7. CASE Crash
  <2>1. RevHolds'
    BY <1>0, <1>7 DEF Crash, RevHolds
  <2>2. \A t \in Sessions : ~InForce(t)'
    BY <1>7 DEF Crash, InForce, Idle
  <2>3. CASE mutex # Nobody
    <3>1. drift'
      BY <1>7, <2>3 DEF Crash
    <3> QED
      BY <1>3, <2>1, <3>1, RuntimeParts DEF Calm
  <2>4. CASE mutex = Nobody
    <3>1. mutex' = Nobody /\ rev' = rev /\ rt' = rt /\ (Calm' => Calm)
      BY <1>0, <1>7, <2>4 DEF Crash, Calm
    <3>2. Calm' => Quiescent'
      BY <1>0, <1>2, <2>2, <2>4, <3>1 DEF Quiescent
    <3> QED
      BY <1>3, <2>1, <3>2, RuntimeParts
  <2> QED
    BY <2>3, <2>4
<1>8. CASE \E h \in Hosts : HostStep(h) \/ HostUncertain(h)
  <2>1. UNCHANGED <<rt, mutex, rev, drift, overlap>>
    BY <1>8 DEF HostStep, HostAccepts, HostRefused, HostUncertain
  <2> QED
    BY <1>0, <1>2, <1>3, <1>4, <2>1, RuntimeParts DEF RevHolds, Quiescent, Calm
<1> QED
  BY <1>5, <1>6, <1>7, <1>8

(* A session of which nothing is in force. *)
LEMMA IdleRuntime ==
  ASSUME TypeInv, TokenInv, RuntimeInv, NEW s \in Sessions, OthersKept(s),
         ~InForce(s), ~InForce(s)', CandInv', UNCHANGED <<gen, nodes, rt, mutex, rev, drift, overlap>>
  PROVE  RuntimeInv'
<1>0. RevHolds /\ (Calm => Quiescent)
  BY RuntimeParts
<1>1. Image' = Image
  BY ImageKept DEF Active
<1>2. \A t \in Sessions : InForce(t)' => InForce(t) /\ ses'[t] = ses[t]
  BY DEF OthersKept, InForce
<1> QED
  BY <1>0, <1>1, <1>2, RuntimeParts DEF RevHolds, Quiescent, Calm

(* A session in force gives the mutex up. *)
LEMMA ReleaseRuntime ==
  ASSUME TypeInv, TokenInv, RuntimeInv, NEW s \in Sessions, InForce(s), OthersKept(s),
         ~InForce(s)', CandInv', UNCHANGED <<rev, overlap>>, mutex' \in {Nobody, Leaked},
         Calm' => Calm /\ (mutex' = Nobody /\ rev.pc # "runtime" => rt' = Image')
  PROVE  RuntimeInv'
<1>0. RevHolds /\ Held
  BY RuntimeParts, TypeParts
<1>1. mutex = s /\ \A t \in Sessions : t # s => ~InForce(t)
  BY <1>0 DEF Held, InForce
<1>2. \A t \in Sessions : ~InForce(t)'
  BY <1>1 DEF OthersKept, InForce
<1>3. mutex' # Revoker
  OBVIOUS
<1>4. RevHolds'
  BY <1>0, <1>3 DEF RevHolds
<1>5. Calm' => Quiescent'
  BY <1>2, <1>3 DEF Quiescent
<1> QED
  BY <1>4, <1>5, RuntimeParts

(* The steps of a session: in force is its candidate or the snapshot it took. *)
LEMMA SessionRuntime ==
  ASSUME TypeInv, TokenInv, RuntimeInv, NEW s \in Sessions, SessionStep(s)
  PROVE  RuntimeInv'
<1> USE DEF files, stateVars, history
<1>0. /\ RunType /\ Held /\ RevHolds /\ CandInv /\ (Calm => Quiescent)
      /\ TokenSes(s) /\ StateType
  BY TypeParts, TokenParts, RuntimeParts
<1>1. CASE JoinAuthorize(s) \/ RecoverAuthorize(s)
  <2>1. Moved(s, "authorized") /\ UNCHANGED <<gen, nodes, rt, mutex, rev, drift, overlap>> /\ At(s, "new")
    BY <1>1, Authorizes DEF JoinAuthorize, RecoverAuthorize
  <2>2. OthersKept(s) /\ ~InForce(s) /\ ~InForce(s)' /\ ~Built(s)'
    BY <2>1 DEF Moved, InForce, Built, At
  <2>3. CandInv'
    <3>1. Image' = Image
      BY <2>1, ImageKept DEF Active
    <3>2. \A t \in Sessions : ses'[t] = ses[t] \/ ~Built(t)'
      BY <2>2 DEF OthersKept
    <3> QED
      BY <1>0, <2>1, <3>1, <3>2, CandKept
  <2> QED
    BY <2>1, <2>2, <2>3, IdleRuntime
<1>2. CASE JoinBuild(s) \/ RecoverBuild(s)
  <2>0. ses[s].id \in Ids /\ ses[s].cred \in Nat
    BY <1>2, <1>0, OwnedTyped DEF JoinBuild, RecoverBuild, At, TokenSes
  <2>1. [Image EXCEPT ![ses[s].id] = ses[s].cred] \in Peers
    BY <2>0, ImageTyped
  <2>2. Moved(s, "built") /\ ses'[s].cand = [Image EXCEPT ![ses[s].id] = ses[s].cred]
    <3>1. (~tlsRecord) \in BOOLEAN
      OBVIOUS
    <3>2. CASE JoinBuild(s)
      <4>1. ses[s].cred = 1
        BY <1>0, <3>2 DEF JoinBuild, TokenSes, SesToken, Busy, At
      <4> QED
        BY <2>1, <3>1, <3>2, <4>1, Builds DEF JoinBuild
    <3>3. CASE RecoverBuild(s)
      BY <2>1, <3>3, BuildsAgain DEF RecoverBuild
    <3> QED
      BY <1>2, <3>2, <3>3
  <2>3. UNCHANGED <<gen, nodes, rt, mutex, rev, drift, overlap>> /\ At(s, "authorized")
    BY <1>2 DEF JoinBuild, RecoverBuild
  <2>4. Image' = Image
    BY <2>3, ImageKept DEF Active
  <2>5. OthersKept(s) /\ ~InForce(s) /\ ~InForce(s)'
    BY <2>2, <2>3 DEF Moved, InForce, At
  <2>6. CandInv'
    BY <1>0, <2>2, <2>3, <2>4 DEF CandInv, Moved, Same, OthersKept, Built
  <2> QED
    BY <2>3, <2>5, <2>6, IdleRuntime
<1>3. CASE Activate(s)
  <2>1. /\ Moved(s, "ready") /\ ses'[s].base = ses[s].base
        /\ ses'[s].cand = ses[s].cand /\ ses'[s].snap = rt
    BY <1>3, Activates DEF Activate
  <2>2. /\ At(s, "built") /\ mutex = Nobody /\ mutex' = s /\ rt' = ses[s].cand
        /\ UNCHANGED <<gen, nodes, rev, drift, overlap>>
    BY <1>3 DEF Activate
  <2>3. Image' = Image
    BY <2>2, ImageKept DEF Active
  <2>4. CandInv'
    BY <1>0, <2>1, <2>2, <2>3 DEF CandInv, Moved, Same, OthersKept, Built, At
  <2>5. \A t \in Sessions : InForce(t)' => t = s
    BY <1>0, <2>1, <2>2 DEF Held, InForce, Moved, OthersKept
  <2>6. RevHolds' /\ mutex' # Revoker /\ mutex' # Nobody
    BY <1>0, <2>2 DEF RevHolds
  <2>7. Calm' => Quiescent'
    BY <1>0, <2>1, <2>2, <2>3, <2>5, <2>6 DEF Quiescent, Calm
  <2> QED
    BY <2>4, <2>6, <2>7, RuntimeParts
<1>4. CASE JoinStage(s)
  <2>1. /\ Moved(s, "staged") /\ ses'[s].base = ses[s].base
        /\ ses'[s].cand = ses[s].cand /\ ses'[s].snap = ses[s].snap
    BY <1>4, Stages DEF JoinStage
  <2>2. At(s, "ready") /\ UNCHANGED <<gen, nodes, rt, mutex, rev, drift, overlap>>
    BY <1>4 DEF JoinStage
  <2>3. Image' = Image
    BY <2>2, ImageKept DEF Active
  <2>4. CandInv'
    BY <1>0, <2>1, <2>2, <2>3 DEF CandInv, Moved, Same, OthersKept, Built, At
  <2> QED
    BY <1>0, <2>1, <2>2, <2>3, <2>4, RuntimeParts
       DEF RevHolds, Quiescent, InForce, At, Moved, OthersKept, Calm
<1>5. ASSUME NEW out \in {"no", "ok"}, Answer(s, out)
      PROVE  OthersKept(s) /\ ~Built(s)' /\ ~InForce(s)'
  BY <1>5, Answers DEF Built, InForce
<1>6. ASSUME OthersKept(s), ~Built(s)', IF gen' = gen THEN UNCHANGED nodes ELSE gen' = gen + 1
      PROVE  CandInv'
  <2>1. gen' = gen => Image' = Image
    BY <1>6, ImageKept DEF Active
  <2>2. \A t \in Sessions : ses'[t] = ses[t] \/ ~Built(t)'
    BY <1>6 DEF OthersKept
  <2> QED
    BY <1>0, <1>6, <2>1, <2>2, CandKept
<1>7. CASE JoinRefuse(s) \/ RecoverRefuse(s) \/ ActivateFails(s)
  <2>1. Answer(s, "no") /\ UNCHANGED <<gen, nodes, rt, mutex, rev, drift, overlap>> /\ ~InForce(s)
    BY <1>7 DEF JoinRefuse, RecoverRefuse, ActivateFails, Reject, InForce, At
  <2> QED
    BY <1>5, <1>6, <2>1, IdleRuntime
<1>8. CASE JoinStageFails(s) \/ JoinCommitFails(s) \/ RecoverCommitFails(s)
  <2>1. /\ Answer(s, "no") /\ UNCHANGED <<gen, nodes, rev, overlap>> /\ InForce(s) /\ mutex' = Nobody
        /\ (rt' = ses[s].snap /\ UNCHANGED drift) \/ drift' = TRUE
    BY <1>8 DEF JoinStageFails, JoinCommitFails, RecoverCommitFails, RollBack, RestoreRuntime,
       InForce, At
  <2>2. Image' = Image
    BY <2>1, ImageKept DEF Active
  <2>3. Calm' => Calm /\ (rev.pc # "runtime" => rt' = Image')
    BY <1>0, <2>1, <2>2 DEF Quiescent, Calm
  <2> QED
    BY <1>5, <1>6, <2>1, <2>3, ReleaseRuntime
<1>9. CASE JoinUncertain(s)
  <2>1. Answer(s, "no") /\ UNCHANGED <<rev, overlap>> /\ InForce(s) /\ mutex' = Nobody /\ ~Calm'
    BY <1>9 DEF JoinUncertain, InForce, At, Calm
  <2>2. IF gen' = gen THEN UNCHANGED nodes ELSE gen' = gen + 1
    BY <1>0, <1>9 DEF JoinUncertain, JoinState, StateType
  <2>3. OthersKept(s) /\ ~InForce(s)' /\ CandInv'
    BY <1>5, <1>6, <2>1, <2>2
  <2> QED
    BY <2>1, <2>3, ReleaseRuntime
<1>10. CASE RecoverCommitLost(s)
  <2>1. /\ Answer(s, "no") /\ UNCHANGED <<gen, nodes, rev, drift, overlap>> /\ InForce(s) /\ mutex' = Leaked
    BY <1>10 DEF RecoverCommitLost, InForce, At
  <2> QED
    BY <1>5, <1>6, <2>1, ReleaseRuntime DEF Calm
<1>11. CASE JoinCommit(s) \/ RecoverCommit(s)
  <2>1. /\ Answer(s, "ok") /\ UNCHANGED <<rev, rt, drift, overlap>> /\ InForce(s) /\ mutex' = Nobody
        /\ gen' = gen + 1 /\ gen = ses[s].base /\ Built(s)
    BY <1>11 DEF JoinCommit, RecoverCommit, JoinState, Committable, InForce, At, Built
  <2>2. /\ ses[s].id \in Ids /\ nodes'[ses[s].id].lc = "active"
        /\ nodes'[ses[s].id].cred = ses[s].cred
        /\ \A e \in Ids : e # ses[s].id => nodes'[e] = nodes[e]
    <3>1. CASE JoinCommit(s)
      BY <1>0, <3>1 DEF JoinCommit, JoinState, TokenSes, SesTyped, SesToken, Busy, At, StateType
    <3>2. CASE RecoverCommit(s)
      <4>1. ses[s].id \in Ids /\ Active(ses[s].id)
        BY <1>0, <2>1, <3>2 DEF RecoverCommit, TokenSes, SesTyped, SesToken, SesFresh, Busy,
           Bound, At
      <4> QED
        BY <1>0, <3>2, <4>1 DEF RecoverCommit, Active, StateType
    <3> QED
      BY <1>11, <3>1, <3>2
  <2>3. Image' = [Image EXCEPT ![ses[s].id] = ses[s].cred]
    BY <2>2, ImageCommitted
  <2>4. ses[s].cand = [Image EXCEPT ![ses[s].id] = ses[s].cred]
    BY <1>0, <2>1 DEF CandInv
  <2>5. Calm' => Calm /\ (rev.pc # "runtime" => rt' = Image')
    BY <1>0, <2>1, <2>3, <2>4 DEF Quiescent, Calm
  <2>6. gen \in Nat
    BY <1>0 DEF StateType
  <2> QED
    BY <1>5, <1>6, <2>1, <2>5, <2>6, ReleaseRuntime
<1>12. CASE Unheard(s)
  <2>1. /\ ses' = [ses EXCEPT ![s] = Idle] /\ At(s, "reply")
        /\ UNCHANGED <<gen, nodes, rt, mutex, rev, drift, overlap>>
    BY <1>12 DEF Unheard
  <2>2. OthersKept(s) /\ ses'[s].pc = "idle"
    BY <2>1 DEF TypeInv, OthersKept, Idle
  <2>3. ~InForce(s) /\ ~InForce(s)' /\ ~Built(s)'
    BY <2>1, <2>2 DEF InForce, Built, At
  <2> QED
    BY <1>6, <2>1, <2>2, <2>3, IdleRuntime
<1> QED
  BY <1>1, <1>2, <1>3, <1>4, <1>7, <1>8, <1>9, <1>10, <1>11, <1>12 DEF SessionStep

(* Every step keeps the runtime invariant. *)
LEMMA NextRuntime ==
  TypeInv /\ TokenInv /\ RuntimeInv /\ [Next]_vars => RuntimeInv'
<1> SUFFICES ASSUME TypeInv, TokenInv, RuntimeInv, [Next]_vars PROVE RuntimeInv'
  OBVIOUS
<1>1. CASE Operator \/ \E t \in Invites \cup Recoveries : Expire(t)
  BY <1>1, OperatorRuntime
<1>2. CASE \/ RevokeRuntime \/ RevokeCredentials \/ Crash
           \/ \E h \in Hosts : HostStep(h) \/ HostUncertain(h)
  BY <1>2, OtherTypes, OtherRuntime
<1>3. CASE \E s \in Sessions : SessionStep(s)
  BY <1>3, SessionRuntime
<1>4. ASSUME NEW h \in Hosts, NEW s \in Sessions,
             \/ \E i \in Invites, id \in Ids : JoinAsk(h, s, i, id)
             \/ \E r \in Recoveries : RecoverAsk(h, s, r)
      PROVE  RuntimeInv'
  <2>1. PICK id \in Ids, cred \in Nat, t \in Invites \cup Recoveries : Begin(h, s, id, cred, t)
    BY <1>4, AskFacts, Zenon
  <2>2. Begun(h, s, id, cred, t)
    BY <2>1, Begins
  <2>3. UNCHANGED <<gen, nodes, rt, mutex, rev, drift, overlap>>
    BY <2>1 DEF Begin, stateVars, files, history
  <2>4. OthersKept(s) /\ ~InForce(s) /\ ~InForce(s)' /\ ~Built(s)'
    BY <2>2 DEF Begun, InForce, Built
  <2>5. CandInv'
    <3>1. Image' = Image
      BY <2>3, ImageKept DEF Active
    <3>2. \A u \in Sessions : ses'[u] = ses[u] \/ ~Built(u)'
      BY <2>4 DEF OthersKept
    <3> QED
      BY <2>3, <3>1, <3>2, CandKept, RuntimeParts
  <2> QED
    BY <2>3, <2>4, <2>5, IdleRuntime
<1>5. CASE UNCHANGED vars
  <2>1. Image' = Image
    BY <1>5, ImageKept DEF vars, Active
  <2>2. UNCHANGED <<ses, gen, rt, mutex, rev, drift, overlap>>
    BY <1>5 DEF vars
  <2>3. CandInv'
    BY <2>1, <2>2, CandKept, RuntimeParts
  <2> QED
    BY <2>1, <2>2, <2>3, RuntimeParts DEF RevHolds, Quiescent, InForce, Calm
<1> QED
  BY <1>1, <1>2, <1>3, <1>4, <1>5 DEF Next

(* A committed node can connect and nobody else can, with the mutex free   *)
(* and nothing reported as uncertain, whoever revokes - unless `node       *)
(* revoke`, which does not take mutationMu, has published its candidate    *)
(* while a session's was in force, or after one was committed that it did  *)
(* not know (overlap; README, section 4).                                  *)
THEOREM ServedMembers == Spec => []MembersServed
<1>1. Init => RuntimeInv
  <2> SUFFICES ASSUME Init PROVE RuntimeInv
    OBVIOUS
  <2>1. Image = Nothing
    BY DEF Init, Image, Active, NoNode, Nothing
  <2>2. rev.pc = "idle" /\ mutex = Nobody /\ rt = Nothing /\ \A s \in Sessions : ses[s].pc = "idle"
    BY DEF Init, NoRevocation, Idle
  <2>3. overlap \in BOOLEAN
    BY DEF Init
  <2> QED
    BY <2>1, <2>2, <2>3 DEF RuntimeInv, RevHolds, Quiescent, CandInv, InForce, Built
<1>2. TypeInv /\ TokenInv /\ RuntimeInv /\ [Next]_vars => RuntimeInv'
  BY NextRuntime
<1>3. RuntimeInv => RuntimeServesMembers
  BY DEF RuntimeInv, RuntimeServesMembers, Calm, Quiescent
<1>4. MembersServed <=> MemberHasMaterial /\ RuntimeServesMembers
  BY DEF MembersServed
<1> QED
  BY <1>1, <1>2, <1>3, <1>4, TokensInductive, MaterialKeptAlways, PTL DEF Spec

-----------------------------------------------------------------------------
(* Both sides of an exchange agree *)

(* The machines do nothing, and no session begins. *)
LEMMA HostInvKept ==
  ASSUME TypeInv, TokenInv, HostInv, UNCHANGED host, denied \subseteq denied',
         \A t \in Sessions : ses'[t].pc # "idle" => ~At(t, "idle") /\ Same(t),
         \A id \in Ids : Known(id) => Known(id)'
  PROVE  HostInv'
<1>0. \A t \in Sessions : ~At(t, "idle")' => ~At(t, "idle") /\ ses'[t].host = ses[t].host /\ Key(t)' = Key(t)
  BY DEF At, Same, Key
<1>1. SesKey'
  BY <1>0 DEF HostInv, SesKey, Fresh
<1>2. HostsApart' /\ Asking' /\ JoinedKey'
  BY DEF HostInv, HostsApart, Asking, JoinedKey, Fresh, Silent
<1>3. KeysApart'
  BY <1>0 DEF HostInv, KeysApart
<1>4. KeyRange'
  BY DEF HostInv, KeyRange, TypeInv, HostStates
<1> QED
  BY <1>1, <1>2, <1>3, <1>4 DEF HostInv

(* ... nor is anything committed. *)
LEMMA SidesKept ==
  ASSUME TypeInv, TokenInv, SidesInv, UNCHANGED host, denied \subseteq denied',
         \A id \in Ids : /\ Active(id)' => Active(id)
                         /\ Known(id)' <=> Known(id)
                         /\ nodes'[id].cred = nodes[id].cred,
         \A t \in Sessions :
           \/ ses'[t] = ses[t] \/ ses'[t] = Idle
           \/ Same(t) /\ Busy(t) /\ (Busy(t)' \/ (ses'[t].pc = "reply" /\ ses'[t].out = "no"))
  PROVE  SidesInv'
<1>0. \A t \in Sessions : ses'[t].pc # "idle" =>
        ~At(t, "idle") /\ Same(t) /\ ses[t].id \in Ids
  BY TokenParts DEF Idle, Same, Busy, At, TokenSes, SesTyped
<1>1. HostInv'
  BY <1>0, HostInvKept DEF SidesInv
<1>2. ASSUME NEW s \in Sessions, At(s, "reply")', ses'[s].out = "ok"
      PROVE  Known(ses[s].id)' /\ ses'[s].cred <= nodes'[ses'[s].id].cred /\ ses'[s] = ses[s]
  <2>1. ses'[s] = ses[s] /\ ses[s].id \in Ids
    BY <1>0, <1>2 DEF At, Idle, Busy
  <2>2. Known(ses[s].id) /\ ses[s].cred <= nodes[ses[s].id].cred
    BY <1>2, <2>1 DEF SidesInv, ReplyInv, At
  <2> QED
    BY <2>1, <2>2
<1>3. ASSUME NEW s \in Sessions, Key(s)' \notin denied',
             Busy(s)' \/ (At(s, "reply")' /\ ses'[s].out = "no"), Active(ses[s].id)'
      PROVE  nodes'[ses'[s].id].cred # ses'[s].cred
  <2>1. ses'[s].pc # "idle" /\ ses'[s] # Idle
    BY <1>3 DEF Busy, At, Idle
  <2>2. Same(s) /\ ses[s].id \in Ids /\ (Busy(s) \/ (At(s, "reply") /\ ses[s].out = "no"))
    BY <1>0, <1>3, <2>1 DEF Busy, At
  <2> QED
    BY <1>3, <2>2 DEF SidesInv, ReplyInv, Same, Key
<1>4. ReplyInv'
  <2>1. \A s \in Sessions : At(s, "reply")' /\ ses'[s].out = "ok" =>
          Known(ses[s].id)' /\ ses'[s].cred <= nodes'[ses'[s].id].cred /\ ses'[s].id = ses[s].id
    BY <1>2
  <2>2. \A s \in Sessions : Busy(s)' \/ (At(s, "reply")' /\ ses'[s].out = "no") => ses'[s].id = ses[s].id
    BY <1>0 DEF Busy, At, Same
  <2> QED
    BY <1>3, <2>1, <2>2 DEF ReplyInv, Known, Active
<1>5. CommittedKeyKept'
  BY DEF SidesInv, CommittedKeyKept
<1>6. JoinedIsMember'
  BY DEF SidesInv, JoinedIsMember, HostInv, JoinedKey, Fresh, Known
<1> QED
  BY <1>1, <1>4, <1>5, <1>6 DEF SidesInv

(* A commit: the machine holds the key, and no other exchange is about it. *)
LEMMA CommitSides ==
  ASSUME TypeInv, TokenInv, SidesInv, NEW s \in Sessions, Busy(s), UNCHANGED host,
         denied \subseteq denied', OthersKept(s), Same(s), ses'[s].pc = "reply",
         Key(s) \in denied' \/ ses'[s].out = "ok",
         nodes'[ses[s].id].lc = "active", nodes'[ses[s].id].cred = ses[s].cred,
         Known(ses[s].id) => nodes[ses[s].id].cred <= ses[s].cred,
         \A e \in Ids : e # ses[s].id => nodes'[e] = nodes[e]
  PROVE  SidesInv'
<1> DEFINE d == ses[s].id
<1>0. TokenSes(s) /\ d \in Ids /\ ses[s].cred \in Nat /\ ~At(s, "idle") /\ ses[s].host \in Hosts
  BY TokenParts DEF TokenSes, SesTyped, Busy, At, TypeInv, SesStates
<1>1. \A id \in Ids : Known(id) => Known(id)' /\ nodes[id].cred <= nodes'[id].cred
  <2>1. \A id \in Ids : nodes[id].cred \in Nat
    BY DEF TypeInv, TypeOK
  <2> QED
    BY <1>0, <2>1 DEF Known
<1>2. \A t \in Sessions : ses'[t].pc # "idle" => ~At(t, "idle") /\ Same(t)
  BY <1>0 DEF OthersKept, Same, At
<1>3. HostInv'
  BY <1>1, <1>2, HostInvKept DEF SidesInv
<1>4. \A t \in Sessions : t # s /\ ~At(t, "idle") =>
        (Key(t) \notin denied => Key(t) # <<d, ses[s].cred>>) /\ ses[t].id \in Ids
  BY <1>0, TokenParts DEF SidesInv, HostInv, KeysApart, Key, TokenSes, SesTyped
<1>5. ReplyInv'
  <2>1. ASSUME NEW t \in Sessions, At(t, "reply")', ses'[t].out = "ok"
        PROVE  nodes'[ses'[t].id].lc # "none" /\ ses'[t].cred <= nodes'[ses'[t].id].cred
    <3>1. CASE t = s
      BY <1>0, <3>1 DEF Same
    <3>2. CASE t # s
      <4>1. ses'[t] = ses[t] /\ ses[t].id \in Ids /\ ses[t].cred \in Nat
        BY <1>4, <2>1, <3>2 DEF OthersKept, At, TypeInv, SesStates
      <4>2. Known(ses[t].id) /\ ses[t].cred <= nodes[ses[t].id].cred
        BY <2>1, <3>2, <4>1 DEF SidesInv, ReplyInv, At
      <4>3. nodes[ses[t].id].cred \in Nat /\ nodes'[ses[t].id].cred \in Nat
        BY <1>0, <4>1 DEF TypeInv, TypeOK
      <4> QED
        BY <1>1, <4>1, <4>2, <4>3 DEF Known
    <3> QED
      BY <3>1, <3>2
  <2>2. ASSUME NEW t \in Sessions, Key(t)' \notin denied',
               Busy(t)' \/ (At(t, "reply")' /\ ses'[t].out = "no"),
               nodes'[ses'[t].id].lc = "active"
        PROVE  nodes'[ses'[t].id].cred # ses'[t].cred
    <3>1. t # s
      BY <2>2 DEF Busy, At, Key, Same
    <3>2. /\ ses'[t] = ses[t] /\ ~At(t, "idle") /\ ses[t].id \in Ids /\ Key(t) \notin denied
          /\ Busy(t) \/ (At(t, "reply") /\ ses[t].out = "no")
      BY <1>4, <2>2, <3>1 DEF OthersKept, Busy, At, Key
    <3>3. CASE ses[t].id = d
      BY <1>4, <3>1, <3>2, <3>3 DEF Key
    <3>4. CASE ses[t].id # d
      BY <2>2, <3>2, <3>4 DEF SidesInv, ReplyInv, Active
    <3> QED
      BY <3>3, <3>4
  <2> QED
    BY <2>1, <2>2 DEF ReplyInv, Known, Active
<1>6. CommittedKeyKept'
  <2>1. <<d, ses[s].cred>> \notin denied => <<d, ses[s].cred>> \in host[ses[s].host].keys
    BY <1>0 DEF SidesInv, HostInv, SesKey, Key
  <2> QED
    BY <1>0, <2>1 DEF SidesInv, CommittedKeyKept, Active
<1>7. JoinedIsMember'
  <2> SUFFICES ASSUME NEW h \in Hosts, host[h].joined
               PROVE  nodes'[host[h].id].lc # "none" /\ host[h].cred <= nodes'[host[h].id].cred
    BY DEF JoinedIsMember
  <2>1. host[h].id \in Ids /\ Known(host[h].id) /\ host[h].cred <= nodes[host[h].id].cred
    BY DEF SidesInv, HostInv, JoinedKey, Fresh, JoinedIsMember, Known
  <2>2. host[h].cred \in Nat /\ nodes[host[h].id].cred \in Nat /\ nodes'[host[h].id].cred \in Nat
    BY <1>0, <2>1 DEF TypeInv, TypeOK, HostStates
  <2> QED
    BY <1>1, <2>1, <2>2 DEF Known
<1> QED
  BY <1>3, <1>5, <1>6, <1>7 DEF SidesInv

(* Every step of a session keeps the two sides together. *)
LEMMA SessionSides ==
  ASSUME TypeInv, TokenInv, SidesInv, NEW s \in Sessions, SessionStep(s)
  PROVE  SidesInv'
<1> USE DEF files, stateVars, history
<1>0. TokenSes(s) /\ StateType /\ RunType
  BY TypeParts, TokenParts
<1>1. ASSUME NEW pc \in {"authorized", "built", "ready", "staged"}, Moved(s, pc), Busy(s),
             UNCHANGED <<host, denied, nodes>>
      PROVE  SidesInv'
  <2>1. \A t \in Sessions : ses'[t] = ses[t] \/ (Same(t) /\ Busy(t) /\ Busy(t)')
    BY <1>1 DEF Moved, OthersKept, Busy
  <2> QED
    BY <1>1, <2>1, SidesKept DEF Active, Known
<1>2. CASE JoinAuthorize(s) \/ RecoverAuthorize(s)
  <2>1. Moved(s, "authorized") /\ Busy(s) /\ UNCHANGED <<host, denied, nodes>>
    BY <1>2, Authorizes DEF JoinAuthorize, RecoverAuthorize, At, Busy
  <2> QED
    BY <1>1, <2>1
<1>3. CASE JoinBuild(s) \/ RecoverBuild(s)
  <2>0. ses[s].id \in Ids /\ ses[s].cred \in Nat
    BY <1>3, <1>0, OwnedTyped DEF JoinBuild, RecoverBuild, At, TokenSes
  <2>1. [Image EXCEPT ![ses[s].id] = ses[s].cred] \in Peers
        /\ [Image EXCEPT ![ses[s].id] = 1] \in Peers
    BY <2>0, ImageTyped
  <2>2. Moved(s, "built")
    <3>1. (~tlsRecord) \in BOOLEAN
      OBVIOUS
    <3>2. CASE JoinBuild(s)
      BY <2>1, <3>1, <3>2, Builds DEF JoinBuild
    <3>3. CASE RecoverBuild(s)
      BY <2>1, <3>3, BuildsAgain DEF RecoverBuild
    <3> QED
      BY <1>3, <3>2, <3>3
  <2>3. Busy(s) /\ UNCHANGED <<host, denied, nodes>>
    BY <1>3 DEF JoinBuild, RecoverBuild, At, Busy
  <2> QED
    BY <1>1, <2>2, <2>3
<1>4. CASE Activate(s)
  <2>1. Moved(s, "ready") /\ Busy(s) /\ UNCHANGED <<host, denied, nodes>>
    BY <1>4, Activates DEF Activate, At, Busy
  <2> QED
    BY <1>1, <2>1
<1>5. CASE JoinStage(s)
  <2>1. Moved(s, "staged") /\ Busy(s) /\ UNCHANGED <<host, denied, nodes>>
    BY <1>5, Stages DEF JoinStage, At, Busy
  <2> QED
    BY <1>1, <2>1
<1>6. CASE \/ JoinRefuse(s) \/ RecoverRefuse(s) \/ ActivateFails(s)
           \/ JoinStageFails(s) \/ JoinCommitFails(s) \/ RecoverCommitFails(s)
           \/ RecoverCommitLost(s) \/ (JoinUncertain(s) /\ UNCHANGED stateVars)
  <2>1. Answer(s, "no") /\ UNCHANGED <<nodes, host>> /\ Busy(s)
    BY <1>6 DEF JoinRefuse, RecoverRefuse, ActivateFails, JoinStageFails, JoinCommitFails,
       RecoverCommitFails, RecoverCommitLost, JoinUncertain, Reject, RollBack, At, Busy
  <2>2. denied \subseteq denied'
    BY <1>6 DEF JoinRefuse, RecoverRefuse, ActivateFails, JoinStageFails, JoinCommitFails,
       RecoverCommitFails, RecoverCommitLost, JoinUncertain, Reject, RollBack
  <2>3. OthersKept(s) /\ Same(s) /\ ses'[s].pc = "reply" /\ ses'[s].out = "no"
    BY <2>1, Answers
  <2>4. \A t \in Sessions :
           \/ ses'[t] = ses[t]
           \/ Same(t) /\ Busy(t) /\ ses'[t].pc = "reply" /\ ses'[t].out = "no"
    BY <2>1, <2>3 DEF OthersKept
  <2> QED
    BY <2>1, <2>2, <2>4, SidesKept DEF Active, Known
<1>7. CASE (JoinCommit(s) \/ JoinUncertain(s)) /\ JoinState(s)
  <2>1. UNCHANGED host /\ Busy(s) /\ denied \subseteq denied'
    BY <1>7 DEF JoinCommit, JoinUncertain, At, Busy
  <2>2. OthersKept(s) /\ Same(s) /\ ses'[s].pc = "reply"
        /\ (Key(s) \in denied' \/ ses'[s].out = "ok")
    BY <1>7, Answers DEF JoinCommit, JoinUncertain, Owned, Key
  <2>3. ses[s].id \in Ids /\ ~Known(ses[s].id) /\ ses[s].cred = 1
    BY <1>0, <1>7 DEF JoinCommit, JoinUncertain, TokenSes, SesTyped, SesToken, At, Busy
  <2>4. /\ nodes'[ses[s].id].lc = "active" /\ nodes'[ses[s].id].cred = ses[s].cred
        /\ \A e \in Ids : e # ses[s].id => nodes'[e] = nodes[e]
    BY <1>0, <1>7, <2>3 DEF JoinState, StateType
  <2> QED
    BY <2>1, <2>2, <2>3, <2>4, CommitSides
<1>8. CASE RecoverCommit(s)
  <2>1. UNCHANGED <<host, denied>> /\ Busy(s)
    BY <1>8 DEF RecoverCommit, At, Busy
  <2>2. OthersKept(s) /\ Same(s) /\ ses'[s].pc = "reply" /\ ses'[s].out = "ok"
    BY <1>8, Answers DEF RecoverCommit
  <2>3. /\ ses[s].id \in Ids /\ Active(ses[s].id)
        /\ ses[s].cred = nodes[ses[s].id].cred + 1
    BY <1>0, <1>8 DEF RecoverCommit, Committable, TokenSes, SesTyped, SesToken, SesFresh, At,
                      Busy, Bound
  <2>4. /\ nodes'[ses[s].id].lc = "active" /\ nodes'[ses[s].id].cred = ses[s].cred
        /\ \A e \in Ids : e # ses[s].id => nodes'[e] = nodes[e]
        /\ nodes[ses[s].id].cred \in Nat
    BY <1>0, <1>8, <2>3 DEF RecoverCommit, StateType, Active
  <2>5. nodes[ses[s].id].cred <= ses[s].cred
    BY <2>3, <2>4
  <2> QED
    BY <2>1, <2>2, <2>3, <2>4, <2>5, CommitSides
<1>9. CASE Unheard(s)
  <2>1. Settled /\ UNCHANGED <<nodes, host, denied>>
    BY <1>9, Settles DEF Unheard
  <2> QED
    BY <2>1, SidesKept DEF Settled, Active, Known
<1> QED
  BY <1>2, <1>3, <1>4, <1>5, <1>6, <1>7, <1>8, <1>9 DEF SessionStep, JoinCommit, JoinUncertain

(* A new exchange is about a key nobody else has. *)
LEMMA AskSides ==
  ASSUME TypeInv, TokenInv, SidesInv, NEW h \in Hosts, NEW s \in Sessions,
         \/ \E i \in Invites, id \in Ids : JoinAsk(h, s, i, id)
         \/ \E r \in Recoveries : RecoverAsk(h, s, r)
  PROVE  SidesInv'
<1>0. HostType /\ HostInv /\ ReplyInv /\ CommittedKeyKept /\ JoinedIsMember
  BY TypeParts DEF SidesInv
<1>1. PICK id \in Ids, cred \in Nat, t \in Invites \cup Recoveries :
        /\ Begin(h, s, id, cred, t)
        /\ \/ t \in Invites /\ Fresh(h) /\ Unused(id) /\ cred = 1
           \/ /\ t \in Recoveries /\ ~Fresh(h) /\ Known(id) /\ rec[t].st # "unissued"
              /\ id = host[h].id /\ cred = host[h].cred + 1
              /\ rec[t].id = id /\ rec[t].cred + 1 = cred
              /\ <<id, cred>> \notin host[h].keys
  BY AskFacts, Zenon
<1> DEFINE K == <<id, cred>>
<1>2. Begin(h, s, id, cred, t)
  BY <1>1
<1>3. /\ OthersKept(s) /\ ses[s].pc = "idle" /\ ses'[s].pc = "new" /\ ses'[s].host = h
      /\ ses'[s].id = id /\ ses'[s].cred = cred
  <2>1. Begun(h, s, id, cred, t)
    BY <1>2, Begins
  <2> QED
    BY <2>1 DEF Begun
<1>4. /\ host'[h].keys = host[h].keys \cup {K} /\ host'[h].ask = s /\ host'[h].try = K
      /\ host'[h].joined = host[h].joined /\ host'[h].id = host[h].id
      /\ host'[h].cred = host[h].cred
      /\ \A g \in Hosts : g # h => host'[g] = host[g]
      /\ UNCHANGED <<nodes, denied>>
  BY <1>0, <1>2 DEF Begin, HostType, HostStates, stateVars, history
<1>5. /\ K \notin host[h].keys
      /\ \A g \in Hosts : \A k \in host[g].keys : k[1] = id => g = h
  <2>1. CASE Fresh(h) /\ Unused(id) /\ cred = 1
    <3>1. \A g \in Hosts : \A k \in host[g].keys : k \in Ids \X Nat /\ k[2] > 0 /\ (k[2] > 1 => Known(k[1]))
      BY <1>0 DEF HostInv, KeyRange, HostType, HostStates
    <3>2. \A g \in Hosts : \A k \in host[g].keys : k[1] = id => k = <<id, 1>>
      BY <2>1, <3>1 DEF Unused, Known
    <3> QED
      BY <2>1, <3>2 DEF Unused
  <2>2. CASE ~Fresh(h) /\ id = host[h].id /\ K \notin host[h].keys
    <3>1. <<id, host[h].cred>> \in host[h].keys
      BY <1>0, <2>2 DEF HostInv, JoinedKey
    <3> QED
      BY <1>0, <2>2, <3>1 DEF HostInv, HostsApart
  <2> QED
    BY <1>1, <2>1, <2>2
<1>6. \A u \in Sessions : u # s /\ ~At(u, "idle") =>
        /\ Key(u)' = Key(u) /\ ses'[u] = ses[u] /\ ses[u].host \in Hosts
        /\ Key(u) \notin denied => Key(u) # K
  <2> SUFFICES ASSUME NEW u \in Sessions, u # s, ~At(u, "idle")
               PROVE  /\ Key(u)' = Key(u) /\ ses'[u] = ses[u] /\ ses[u].host \in Hosts
                      /\ Key(u) \notin denied => Key(u) # K
    OBVIOUS
  <2>1. ses[u].host \in Hosts /\ ses'[u] = ses[u] /\ Key(u)' = Key(u)
    BY <1>3, TokenParts DEF TokenSes, SesTyped, OthersKept, Key
  <2>2. Key(u) \notin denied => Key(u) \in host[ses[u].host].keys
    BY <1>0 DEF HostInv, SesKey
  <2> QED
    BY <1>5, <2>1, <2>2
<1>7. \A u \in Sessions : ~At(u, "idle")' /\ u # s => ~At(u, "idle")
  BY <1>3 DEF OthersKept, At
<1>8. Key(s)' = K
  BY <1>3 DEF Key
<1>9. cred > 0 /\ (cred > 1 => Known(id)) /\ (~Fresh(h) => K = <<host[h].id, host[h].cred + 1>>)
      /\ (Fresh(h) => cred = 1) /\ host[h].cred \in Nat
  <2>1. host[h].cred \in Nat
    BY <1>0 DEF HostType, HostStates
  <2> QED
    BY <1>1, <2>1
<1> HIDE DEF K
<1>10. SesKey'
  <2>1. ASSUME NEW u \in Sessions, ~At(u, "idle")', u # s, Key(u)' \notin denied'
        PROVE  /\ Key(u)' \in host'[ses'[u].host].keys
               /\ ~Fresh(ses[u].host)' => Key(u)' # <<host'[ses'[u].host].id, host'[ses'[u].host].cred>>
               /\ ses'[u].host = ses[u].host
    <3>1. ses'[u] = ses[u] /\ Key(u)' = Key(u) /\ ~At(u, "idle") /\ ses[u].host \in Hosts
      BY <1>6, <1>7, <2>1
    <3>2. Key(u) \notin denied
      BY <1>4, <2>1, <3>1
    <3>3. /\ Key(u) \in host[ses[u].host].keys
          /\ ~Fresh(ses[u].host) => Key(u) # <<host[ses[u].host].id, host[ses[u].host].cred>>
      BY <1>0, <3>1, <3>2 DEF HostInv, SesKey
    <3> QED
      BY <1>4, <3>1, <3>3 DEF Fresh
  <2>2. K \in host'[h].keys /\ (~Fresh(h)' => K # <<host'[h].id, host'[h].cred>>)
    BY <1>4, <1>9 DEF Fresh
  <2> QED
    BY <1>3, <1>8, <2>1, <2>2 DEF SesKey, Fresh
<1>11. HostsApart'
  BY <1>0, <1>4, <1>5 DEF HostInv, HostsApart, K
<1>12. KeysApart'
  <2> SUFFICES ASSUME NEW u \in Sessions, NEW v \in Sessions, u # v, ~At(u, "idle")',
                      ~At(v, "idle")', Key(u)' \notin denied'
               PROVE  Key(u)' # Key(v)'
    BY DEF KeysApart
  <2>1. denied' = denied
    BY <1>4
  <2>2. CASE u = s
    BY <1>6, <1>7, <1>8, <2>1, <2>2
  <2>3. CASE v = s
    BY <1>6, <1>7, <1>8, <2>1, <2>3
  <2>4. CASE u # s /\ v # s
    BY <1>0, <1>6, <1>7, <2>1, <2>4 DEF HostInv, KeysApart
  <2> QED
    BY <2>2, <2>3, <2>4
<1>13. KeyRange'
  BY <1>0, <1>4, <1>9 DEF HostInv, KeyRange, Known, K
<1>14. Asking'
  <2>1. /\ host'[h].try \in host'[h].keys
        /\ IF Fresh(h)' THEN host'[h].try[2] = 1
           ELSE host'[h].try = <<host'[h].id, host'[h].cred + 1>>
    <3>1. K[2] = cred /\ (Fresh(h)' <=> Fresh(h))
      BY <1>4 DEF K, Fresh
    <3> QED
      BY <1>4, <1>9, <3>1
  <2>2. \A g \in Hosts : g # h =>
          (Silent(g)' <=> Silent(g)) /\ (Fresh(g)' <=> Fresh(g)) /\ host'[g] = host[g]
    BY <1>4 DEF Silent, Fresh
  <2> QED
    BY <1>0, <2>1, <2>2 DEF HostInv, Asking
<1>15. JoinedKey'
  BY <1>0, <1>4 DEF HostInv, JoinedKey, Fresh
<1>16. ReplyInv'
  <2>1. ASSUME K \notin denied, Active(id) PROVE nodes[id].cred # cred
    <3>1. CASE Unused(id)
      BY <2>1, <3>1 DEF Unused, Active
    <3>2. CASE ~Fresh(h)
      <4>1. SUFFICES ASSUME nodes[id].cred = cred PROVE FALSE
        OBVIOUS
      <4>2. PICK g \in Hosts : <<id, nodes[id].cred>> \in host[g].keys
        BY <1>0, <2>1, <4>1 DEF CommittedKeyKept, K
      <4>3. g = h
        BY <1>5, <4>2
      <4> QED
        BY <1>5, <4>1, <4>2, <4>3 DEF K
    <3> QED
      BY <1>1, <3>1, <3>2
  <2>2. \A u \in Sessions : u # s => ses'[u] = ses[u]
    BY <1>3 DEF OthersKept
  <2>3. \A u \in Sessions : At(u, "reply")' /\ ses'[u].out = "ok" => u # s
    BY <1>3 DEF At
  <2> QED
    BY <1>0, <1>3, <1>4, <1>8, <2>1, <2>2, <2>3 DEF ReplyInv, Known, Active, At, Busy, Key
<1>17. CommittedKeyKept'
  BY <1>0, <1>4 DEF CommittedKeyKept, Active
<1>18. JoinedIsMember'
  BY <1>0, <1>4 DEF JoinedIsMember
<1> QED
  BY <1>10, <1>11, <1>12, <1>13, <1>14, <1>15, <1>16, <1>17, <1>18 DEF SidesInv, HostInv

(* What the machine that hears an answer, or nothing, does. *)
LEMMA HostSides ==
  ASSUME TypeInv, TokenInv, SidesInv, NEW h \in Hosts,
         HostStep(h) \/ HostUncertain(h)
  PROVE  SidesInv'
<1> USE DEF files, stateVars, history
<1>0. HostType /\ HostInv /\ ReplyInv /\ CommittedKeyKept /\ JoinedIsMember /\ StateType /\ SesType
  BY TypeParts DEF SidesInv
<1>1. UNCHANGED nodes /\ denied \subseteq denied' /\ EndExchange(h)
  BY DEF HostStep, HostAccepts, HostRefused, HostUncertain, OtherStatus
<1>2. \A t \in Sessions : /\ ses'[t] = ses[t] \/ ses'[t] = Idle
                          /\ Serves(t, h) /\ At(t, "reply") => ses'[t] = Idle
  BY <1>1 DEF EndExchange
<1>3. \A t \in Sessions : ~At(t, "idle")' =>
        /\ ~At(t, "idle") /\ ses'[t] = ses[t] /\ Key(t)' = Key(t) /\ ses[t].host \in Hosts
        /\ Key(t) \notin denied => Key(t) \in host[ses[t].host].keys
        /\ ~(Serves(t, h) /\ At(t, "reply"))
  <2> SUFFICES ASSUME NEW t \in Sessions, ~At(t, "idle")'
               PROVE  /\ ~At(t, "idle") /\ ses'[t] = ses[t] /\ Key(t)' = Key(t)
                      /\ ses[t].host \in Hosts
                      /\ Key(t) \notin denied => Key(t) \in host[ses[t].host].keys
                      /\ ~(Serves(t, h) /\ At(t, "reply"))
    OBVIOUS
  <2>1. ses'[t] # Idle
    BY DEF At, Idle
  <2>2. ses'[t] = ses[t] /\ ~(Serves(t, h) /\ At(t, "reply"))
    BY <1>2, <2>1
  <2>3. ~At(t, "idle") /\ Key(t)' = Key(t) /\ TokenSes(t)
    BY <2>2, TokenParts DEF At, Key
  <2> QED
    BY <1>0, <2>2, <2>3 DEF HostInv, SesKey, TokenSes, SesTyped
<1>4. ReplyInv'
  <2>1. \A t \in Sessions : Busy(t)' \/ At(t, "reply")' => ~At(t, "idle")'
    BY DEF Busy, At
  <2> QED
    BY <1>0, <1>1, <1>3, <2>1 DEF ReplyInv, Known, Active, Busy, At
<1>5. KeysApart'
  BY <1>0, <1>1, <1>3 DEF HostInv, KeysApart
<1>6. host[h] \in HostStates /\ DOMAIN host = Hosts
  BY <1>0 DEF HostType
(* Only the asking ends. *)
<1>7. CASE host' = [host EXCEPT ![h].ask = "none"]
  <2>1. /\ \A g \in Hosts : /\ host'[g].keys = host[g].keys /\ host'[g].joined = host[g].joined
                            /\ host'[g].id = host[g].id /\ host'[g].cred = host[g].cred
                            /\ host'[g].try = host[g].try
      /\ host'[h].ask = "none" /\ \A g \in Hosts : g # h => host'[g] = host[g]
    BY <1>6, <1>7 DEF HostStates
  <2>2. HostsApart' /\ KeyRange' /\ JoinedKey' /\ CommittedKeyKept' /\ JoinedIsMember'
    BY <1>0, <1>1, <2>1
       DEF HostInv, HostsApart, KeyRange, JoinedKey, CommittedKeyKept, JoinedIsMember,
           Fresh, Known, Active
  <2>3. Asking'
    BY <1>0, <2>1 DEF HostInv, Asking, Silent, Fresh
  <2>4. SesKey'
    BY <1>0, <1>1, <1>3, <2>1 DEF HostInv, SesKey, Fresh
  <2> QED
    BY <1>4, <1>5, <2>2, <2>3, <2>4 DEF SidesInv, HostInv
(* The attempt's key goes; the gateway has said no, or somebody in its place. *)
<1>8. CASE HostRefused(h)
  <2> DEFINE K == host[h].try
  <2>1. ~Silent(h)
    BY <1>8 DEF HostRefused, OtherStatus, Answered, Serves, Silent
  <2>2. \/ K \in denied'
        \/ \E s \in Sessions : /\ Serves(s, h) /\ At(s, "reply") /\ ses[s].out = "no"
                               /\ K = Key(s) /\ ~At(s, "idle") /\ ses[s].id \in Ids
    <3>1. CASE K \in denied'
      BY <3>1
    <3>2. CASE Answered(h, "no")
      <4>1. PICK s \in Sessions : Serves(s, h) /\ At(s, "reply") /\ ses[s].out = "no"
        BY <3>2 DEF Answered
      <4>2. K = Key(s) /\ ~At(s, "idle") /\ ses[s].id \in Ids
        BY <4>1, TokenParts DEF Serves, Key, TokenSes, SesTyped, At
      <4> QED
        BY <4>1, <4>2
    <3> QED
      BY <1>8, <3>1, <3>2 DEF HostRefused, OtherStatus
  <2>3. /\ host'[h].keys = host[h].keys \ {K} /\ host'[h].joined = host[h].joined
        /\ host'[h].id = host[h].id /\ host'[h].cred = host[h].cred
        /\ host'[h].try = host[h].try /\ host'[h].ask = "none"
        /\ \A g \in Hosts : g # h => host'[g] = host[g]
    BY <1>6, <1>8 DEF HostRefused, HostStates
  <2> HIDE DEF K
  <2>4. \A g \in Hosts : host'[g].keys \subseteq host[g].keys
    BY <2>3
  <2>5. HostsApart' /\ KeyRange'
    BY <1>0, <1>1, <2>4 DEF HostInv, HostsApart, KeyRange, Known
  <2>6. JoinedKey'
    <3>1. ~Fresh(h) => <<host[h].id, host[h].cred>> # K
      <4>1. ~Fresh(h) => K = <<host[h].id, host[h].cred + 1>>
        BY <1>0, <2>1 DEF HostInv, Asking, K
      <4>2. host[h].cred \in Nat
        BY <1>6 DEF HostStates
      <4> QED
        BY <4>1, <4>2
    <3> QED
      BY <1>0, <2>3, <3>1 DEF HostInv, JoinedKey, Fresh
  <2>7. Asking'
    BY <1>0, <2>3 DEF HostInv, Asking, Silent, Fresh
  <2>8. SesKey'
    <3>1. ASSUME NEW u \in Sessions, ~At(u, "idle")', Key(u) \notin denied' PROVE Key(u) # K
      <4>1. CASE K \in denied'
        BY <3>1, <4>1
      <4>2. ASSUME NEW s \in Sessions, Serves(s, h), At(s, "reply"), K = Key(s), ~At(s, "idle")
            PROVE  Key(u) # K
        BY <1>0, <1>1, <1>3, <3>1, <4>2 DEF HostInv, KeysApart
      <4> QED
        BY <2>2, <4>1, <4>2
    <3> QED
      BY <1>0, <1>1, <1>3, <2>3, <3>1 DEF HostInv, SesKey, Fresh
  <2>9. CommittedKeyKept'
    <3>1. \A id \in Ids : Active(id) /\ <<id, nodes[id].cred>> \notin denied' =>
            <<id, nodes[id].cred>> # K
      BY <1>0, <1>1, <2>2 DEF ReplyInv, Key
    <3> QED
      BY <1>0, <1>1, <2>3, <3>1 DEF CommittedKeyKept, Active
  <2>10. JoinedIsMember'
    BY <1>0, <1>1, <2>3 DEF JoinedIsMember
  <2> QED
    BY <1>4, <1>5, <2>5, <2>6, <2>7, <2>8, <2>9, <2>10 DEF SidesInv, HostInv
(* The attempt becomes the machine's identity, and its old key goes. *)
<1>9. CASE /\ Answered(h, "ok")
           /\ host' = [host EXCEPT ![h] =
             [joined |-> TRUE, id |-> @.try[1], cred |-> @.try[2], ask |-> "none",
              try |-> @.try,
              keys |-> @.keys \ {<<@.try[1], @.try[2] - 1>>}]]
  <2>1. PICK s \in Sessions : Serves(s, h) /\ At(s, "reply") /\ ses[s].out = "ok"
    BY <1>9 DEF Answered
  <2> DEFINE d == ses[s].id
             c == ses[s].cred
             L == <<d, c - 1>>
  <2>2. /\ host[h].try = <<d, c>> /\ Key(s) = <<d, c>> /\ ~Silent(h) /\ ~At(s, "idle")
        /\ ses[s].host = h /\ d \in Ids /\ c \in Nat
    BY <1>0, <2>1, TokenParts DEF Serves, Key, Silent, TokenSes, SesTyped, At, SesType, SesStates
  <2>3. /\ host'[h].keys = host[h].keys \ {L} /\ host'[h].joined = TRUE
        /\ host'[h].id = d /\ host'[h].cred = c /\ host'[h].ask = "none"
        /\ \A g \in Hosts : g # h => host'[g] = host[g]
    <3>1. host[h].try[1] = d /\ host[h].try[2] = c
      BY <2>2
    <3> QED
      BY <1>6, <1>9, <3>1
  <2>4. Known(d) /\ c <= nodes[d].cred /\ nodes[d].cred \in Nat
    BY <1>0, <2>1, <2>2 DEF ReplyInv, StateType
  <2>5. <<d, c>> \in host[h].keys /\ c > 0
    <3>1. <<d, c>> \in host[h].keys
      BY <1>0, <2>2 DEF HostInv, Asking
    <3>2. <<d, c>>[2] > 0
      BY <1>0, <3>1 DEF HostInv, KeyRange
    <3> QED
      BY <3>1, <3>2
  <2>6. L # <<d, c>> /\ L # <<d, nodes[d].cred>>
    BY <2>2, <2>4
  <2>7. ~Fresh(h) => L = <<host[h].id, host[h].cred>>
    <3>1. ~Fresh(h) => <<d, c>> = <<host[h].id, host[h].cred + 1>>
      BY <1>0, <2>2 DEF HostInv, Asking
    <3>2. host[h].cred \in Nat
      BY <1>6 DEF HostStates
    <3> QED
      BY <3>1, <3>2
  <2>8. Fresh(h) => L \notin host[h].keys
    <3>1. Fresh(h) => c = 1
      BY <1>0, <2>2 DEF HostInv, Asking
    <3>2. L \in host[h].keys => L[2] > 0
      BY <1>0 DEF HostInv, KeyRange
    <3> QED
      BY <3>1, <3>2
  <2> HIDE DEF L, d, c
  <2>9. HostsApart' /\ KeyRange'
    <3>1. \A g \in Hosts : host'[g].keys \subseteq host[g].keys
      BY <2>3
    <3> QED
      BY <1>0, <1>1, <3>1 DEF HostInv, HostsApart, KeyRange, Known
  <2>10. JoinedKey' /\ Asking'
    BY <1>0, <2>2, <2>3, <2>5, <2>6 DEF HostInv, JoinedKey, Asking, Fresh, Silent
  <2>11. SesKey'
    <3>1. ASSUME NEW u \in Sessions, ~At(u, "idle")', Key(u) \notin denied' PROVE Key(u) # <<d, c>>
      BY <1>0, <1>1, <1>3, <2>1, <2>2, <3>1 DEF HostInv, KeysApart
    <3>2. ASSUME NEW u \in Sessions, ~At(u, "idle")', ses[u].host = h, Key(u) \notin denied'
          PROVE  Key(u) \in host'[h].keys
      <4>1. Key(u) \in host[h].keys /\ (~Fresh(h) => Key(u) # <<host[h].id, host[h].cred>>)
        BY <1>0, <1>1, <1>3, <3>2 DEF HostInv, SesKey
      <4> QED
        BY <2>3, <2>7, <2>8, <4>1
    <3> QED
      BY <1>0, <1>1, <1>3, <2>3, <3>1, <3>2 DEF HostInv, SesKey, Fresh
  <2>12. CommittedKeyKept'
    <3>1. \A id \in Ids : <<id, nodes[id].cred>> # L
      BY <2>6 DEF L
    <3> QED
      BY <1>0, <1>1, <2>3, <3>1 DEF CommittedKeyKept, Active
  <2>13. JoinedIsMember'
    BY <1>0, <1>1, <2>3, <2>4 DEF JoinedIsMember, Known
  <2> QED
    BY <1>4, <1>5, <2>9, <2>10, <2>11, <2>12, <2>13 DEF SidesInv, HostInv
<1> QED
  BY <1>7, <1>8, <1>9 DEF HostStep, HostAccepts, HostUncertain

(* Every step keeps the two sides together. *)
LEMMA NextSides ==
  TypeInv /\ TokenInv /\ SidesInv /\ [Next]_vars => SidesInv'
<1> SUFFICES ASSUME TypeInv, TokenInv, SidesInv, [Next]_vars PROVE SidesInv'
  OBVIOUS
<1> USE DEF files, stateVars, tokens, history
<1>1. CASE Operator \/ \E t \in Invites \cup Recoveries : Expire(t)
  <2>1. UNCHANGED <<ses, host, denied>>
    BY <1>1 DEF Operator, Expire, CancelInvite, IssueInvite, IssueRecovery, DeleteNode,
       RevokeCommit, OtherWrite
  <2>2. \A id \in Ids : /\ Active(id)' => Active(id)
                        /\ Known(id)' <=> Known(id)
                        /\ nodes'[id].cred = nodes[id].cred
    <3>0. StateType
      BY TypeParts
    <3>1. CASE UNCHANGED nodes
      BY <3>1 DEF Active, Known
    <3>2. ASSUME NEW d \in Ids, NEW lc \in {"revoked", "deleted"}, nodes[d].lc # "none",
                 nodes' = [nodes EXCEPT ![d].lc = lc]
          PROVE  \A id \in Ids : /\ Active(id)' => Active(id)
                                 /\ Known(id)' <=> Known(id)
                                 /\ nodes'[id].cred = nodes[id].cred
      BY <3>0, <3>2 DEF StateType, Active, Known
    <3> QED
      BY <1>1, <3>1, <3>2 DEF Operator, Expire, CancelInvite, IssueInvite, IssueRecovery,
         DeleteNode, RevokeCommit, OtherWrite, Active
  <2> QED
    BY <2>1, <2>2, SidesKept
<1>2. CASE RevokeRuntime \/ RevokeCredentials \/ Crash
  <2>1. Settled
    BY <1>2, OtherTypes
  <2>2. UNCHANGED <<nodes, host, denied>>
    BY <1>2 DEF RevokeRuntime, RevokeCredentials, Crash
  <2> QED
    BY <2>1, <2>2, SidesKept DEF Settled, Active, Known
<1>3. CASE \E h \in Hosts : HostStep(h) \/ HostUncertain(h)
  BY <1>3, HostSides
<1>4. CASE \E s \in Sessions : SessionStep(s)
  BY <1>4, SessionSides
<1>5. ASSUME NEW h \in Hosts, NEW s \in Sessions,
             \/ \E i \in Invites, id \in Ids : JoinAsk(h, s, i, id)
             \/ \E r \in Recoveries : RecoverAsk(h, s, r)
      PROVE  SidesInv'
  BY <1>5, AskSides
<1>6. CASE UNCHANGED vars
  BY <1>6, SidesKept DEF vars, Active, Known
<1> QED
  BY <1>1, <1>2, <1>3, <1>4, <1>5, <1>6 DEF Next

(* Whatever answers are lost and whatever either side keeps or deletes on  *)
(* its own, the machine holds what the gateway has committed and the       *)
(* gateway knows every machine that has joined - but for the generations   *)
(* of which a machine may hear a status that is not the gateway's          *)
(* decision: nginx's own, or the 404 for an uncertain save (denied;        *)
(* README, section 4).                                                     *)
THEOREM SidesAgreeAlways == Spec => []SidesAgree
<1>1. Init => SidesInv
  <2> SUFFICES ASSUME Init PROVE SidesInv
    OBVIOUS
  <2>1. /\ \A s \in Sessions : ses[s].pc = "idle"
        /\ \A id \in Ids : nodes[id].lc = "none"
        /\ \A h \in Hosts : host[h].joined = FALSE /\ host[h].ask = "none" /\ host[h].keys = {}
    BY DEF Init, Idle, NoNode
  <2>2. HostInv
    BY <2>1 DEF HostInv, SesKey, HostsApart, KeysApart, KeyRange, Asking, JoinedKey, At, Silent, Fresh
  <2>3. ReplyInv
    BY <2>1 DEF ReplyInv, At, Busy
  <2>4. CommittedKeyKept /\ JoinedIsMember
    BY <2>1 DEF CommittedKeyKept, JoinedIsMember, Active
  <2> QED
    BY <2>2, <2>3, <2>4 DEF SidesInv
<1>2. TypeInv /\ TokenInv /\ SidesInv /\ [Next]_vars => SidesInv'
  BY NextSides
<1>3. TypeInv /\ SidesInv => SidesAgree
  BY DEF TypeInv, SidesInv, SidesAgree
<1> QED
  BY <1>1, <1>2, <1>3, TokensInductive, PTL DEF Spec
=============================================================================
