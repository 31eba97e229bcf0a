----------------------------- MODULE Enrollment -----------------------------
(***************************************************************************)
(* How private nodes get, replace and lose their membership: invitations,  *)
(* the public join and break-glass recovery exchanges, and revocation.     *)
(*                                                                         *)
(*   internal/enrollment/invite.go, recovery_token.go    the two tokens    *)
(*   internal/enrollment/public_handler.go               one HTTP session  *)
(*   internal/enrollment/join_gateway.go, gateway_system_readiness.go      *)
(*   internal/enrollment/recovery_public.go, node_rotation.go,             *)
(*     gateway_system_recovery.go                                          *)
(*   internal/enrollment/join_node.go, join_http.go, recovery_node.go      *)
(*   internal/enrollment/node_lifecycle.go                                 *)
(*   internal/controller/node_revocation_system.go, uninstall_rpc.go       *)
(*                                                                         *)
(* A session reads the authoritative state first, without a lock; only     *)
(* then does it take the controller's mutationMu, puts its candidate into  *)
(* force in the gateway's runtime, and keeps the mutex until it has        *)
(* committed or rolled back.  Save is taken as one compare-and-swap here   *)
(* (StateStore has its steps).                                             *)
(***************************************************************************)
EXTENDS Naturals, FiniteSets

CONSTANTS
  Hosts,        \* private machines
  Ids,          \* node identities; each join attempt allocates a fresh one
  Names,        \* node names an invite can be issued for
  Invites,      \* invite tokens
  Recoveries,   \* recovery tokens
  Sessions,     \* public handler goroutines
  Revoker,      \* a revocation at work: CLI process, or uninstall RPC
  Nobody,       \* "mutationMu is free"
  Leaked,       \* "mutationMu is held by a session that has ended"
  RevokedBy,    \* subset of {"daemon", "cli"}: who revokes
  FaultKinds,   \* the failures a run injects
  MaxGeneration, MaxFaults

AllFaults == {"runtime", "restore", "save", "load", "secret", "lost",
              "proxy", "host", "crash"}

ASSUME EnrollmentAssumptions ==
  /\ RevokedBy \subseteq {"daemon", "cli"}
  /\ FaultKinds \subseteq AllFaults
  /\ MaxGeneration \in Nat /\ MaxFaults \in Nat
  /\ Nobody \notin Sessions \cup {Revoker, Leaked}
  /\ Leaked \notin Sessions \cup {Revoker}
  /\ Revoker \notin Sessions
  /\ Invites \cap Recoveries = {}
  /\ "none" \notin Hosts \cup Ids \cup Sessions \cup Invites \cup Recoveries

VARIABLES
  gen,       \* generation of the authoritative state
  inv,       \* invites:  state and name
  rec,       \* recovery tokens: state, node, its generation, state generation
  expired,   \* tokens whose 15 minutes are over
  nodes,     \* node records: lifecycle, credential generation, name
  tlsRecord, \* the tunnel identity is in the state
  tlsFile,   \* ... and its files in the secret store
  secrets,   \* node credentials <<id, generation>> in the gateway's store
  rt,        \* the generation of each node the gateway's runtime admits, or 0
  mutex,     \* holder of the controller's mutationMu
  ses,       \* the sessions
  rev,       \* the revocation in progress
  host,      \* the private machines
  drift,     \* a crash, or a failure the gateway could not make good and has
             \*   reported, may have left runtime and state apart
  overlap,   \* history: a revocation without the mutex has published its
             \*   candidate over a session's
  denied,    \* history: generations <<id, generation>> whose machine may hear
             \*   a status that is not the gateway's decision
  faults

stateVars == <<gen, inv, rec, nodes, tlsRecord>>
tokens    == <<inv, rec, expired>>
files     == <<tlsFile, secrets>>
history   == <<overlap, denied>>
vars == <<gen, inv, rec, expired, nodes, tlsRecord, tlsFile, secrets, rt,
          mutex, ses, rev, host, drift, overlap, denied, faults>>

Nothing == [id \in Ids |-> 0]

Idle == [pc |-> "idle", host |-> "none", id |-> "none",
         cred |-> 0, tok |-> "none", base |-> 0,
         cand |-> Nothing, snap |-> Nothing, ownTls |-> FALSE, out |-> "no"]
NoRevocation == [pc |-> "idle", id |-> "none", cred |-> 0, cand |-> Nothing]
NoNode == [lc |-> "none", cred |-> 0, name |-> "none"]

Fails(kind) ==
  /\ kind \in FaultKinds /\ faults < MaxFaults
  /\ faults' = faults + 1

At(s, pc) == ses[s].pc = pc
Active(id) == nodes[id].lc = "active"

(* The peers a rendering of the state admits: active nodes only.           *)
Image == [id \in Ids |-> IF Active(id) THEN nodes[id].cred ELSE 0]

Advance == gen < MaxGeneration /\ gen' = gen + 1

-----------------------------------------------------------------------------
(* The operator on the gateway                                             *)

(* ensureNodeNameAvailable: a name is never used again, and is reserved by *)
(* an active invite until that expires.                                    *)
NameFree(n) ==
  /\ \A id \in Ids : nodes[id].lc # "none" => nodes[id].name # n
  /\ \A i \in Invites :
       \/ inv[i].st \in {"unissued", "cancelled"}
       \/ inv[i].st = "active" /\ i \in expired
       \/ inv[i].name # n

IssueInvite(i, n) ==
  /\ mutex = Nobody
  /\ inv[i].st = "unissued" /\ NameFree(n)
  /\ inv' = [inv EXCEPT ![i] = [st |-> "active", name |-> n]]
  /\ Advance
  /\ UNCHANGED <<rec, expired, nodes, tlsRecord, files, rt, mutex, ses, rev,
                 host, drift, history, faults>>

CancelInvite(i) ==
  /\ mutex = Nobody
  /\ inv[i].st = "active"
  /\ inv' = [inv EXCEPT ![i].st = "cancelled"]
  /\ Advance
  /\ UNCHANGED <<rec, expired, nodes, tlsRecord, files, rt, mutex, ses, rev,
                 host, drift, history, faults>>

(* A recovery token is bound to the generation its issuance creates.       *)
IssueRecovery(r, id) ==
  /\ mutex = Nobody
  /\ rec[r].st = "unissued" /\ Active(id)
  /\ rec' = [rec EXCEPT ![r] = [st |-> "active", id |-> id,
                                cred |-> nodes[id].cred, gen |-> gen + 1]]
  /\ Advance
  /\ UNCHANGED <<inv, expired, nodes, tlsRecord, files, rt, mutex, ses, rev,
                 host, drift, history, faults>>

Expire(t) ==
  /\ t \notin expired
  /\ IF t \in Invites THEN inv[t].st = "active" ELSE rec[t].st = "active"
  /\ expired' = expired \cup {t}
  /\ UNCHANGED <<stateVars, files, rt, mutex, ses, rev, host, drift, history, faults>>

(* Any other change of the state: under the mutex by the controller, or    *)
(* without it by a CLI process (see the module Controller).                *)
OtherWrite ==
  /\ Advance
  /\ UNCHANGED <<tokens, nodes, tlsRecord, files, rt, mutex, ses, rev, host,
                 drift, history, faults>>

-----------------------------------------------------------------------------
(* Revocation: state first, then the runtime, then the credentials         *)

RevokeCommit(id, by) ==
  /\ by \in RevokedBy /\ rev.pc = "idle"
  /\ Active(id)
  /\ by = "daemon" => mutex = Nobody
  /\ mutex' = IF by = "daemon" THEN Revoker ELSE mutex
  /\ nodes' = [nodes EXCEPT ![id].lc = "revoked"]
  /\ rev' = [pc |-> "runtime", id |-> id, cred |-> nodes[id].cred,
             cand |-> [Image EXCEPT ![id] = 0]]
  /\ Advance
  /\ UNCHANGED <<tokens, tlsRecord, files, rt, ses, host, drift, history, faults>>

(* The revocation of the CLI knows nothing of mutationMu: a session may be *)
(* in force now, and will put its own snapshot back over this candidate,   *)
(* or has committed a node since the candidate was made.                   *)
Clobbers ==
  overlap' = (overlap \/ (mutex # Revoker /\ (mutex \in Sessions \/ rev.cand # Image)))

(* Variant: a failed runtime step passes for a finished one.               *)
RevokeRuntimeUnreported ==
  /\ rev.pc = "runtime"
  /\ \/ rt' = rev.cand /\ UNCHANGED <<drift, faults>>
     \/ Fails("runtime") /\ UNCHANGED <<rt, drift>>
  /\ Clobbers
  /\ rev' = [rev EXCEPT !.pc = "credentials"]
  /\ UNCHANGED <<denied, gen, tokens, nodes, tlsRecord, files, mutex, ses, host>>

(* Both listeners are published from the committed candidate and every     *)
(* service is restarted; a failure is reported as reconciliation needed.   *)
RevokeRuntime ==
  /\ rev.pc = "runtime"
  /\ \/ rt' = rev.cand /\ UNCHANGED <<drift, faults>>
     \/ Fails("runtime") /\ drift' = TRUE /\ UNCHANGED rt
  /\ Clobbers
  /\ rev' = [rev EXCEPT !.pc = "credentials"]
  /\ UNCHANGED <<denied, gen, tokens, nodes, tlsRecord, files, mutex, ses, host>>

RevokeCredentials ==
  /\ rev.pc = "credentials"
  /\ secrets' = secrets \ {<<rev.id, rev.cred>>}
  /\ rev' = NoRevocation
  /\ mutex' = IF mutex = Revoker THEN Nobody ELSE mutex
  /\ UNCHANGED <<stateVars, expired, tlsFile, rt, ses, host, drift, history, faults>>

(* Deletion of a revoked node leaves a record that keeps its name.         *)
DeleteNode(id) ==
  /\ nodes[id].lc = "revoked" /\ rev.pc = "idle"
  /\ nodes' = [nodes EXCEPT ![id].lc = "deleted"]
  /\ secrets' = secrets \ {<<id, nodes[id].cred>>}
  /\ Advance
  /\ UNCHANGED <<tokens, tlsRecord, tlsFile, rt, mutex, ses, rev, host, drift, history, faults>>

-----------------------------------------------------------------------------
(* The ends of a session                                                   *)

Owned(s) == {<<ses[s].id, ses[s].cred>>}

(* The session answers; everything it has kept for its candidate goes.     *)
Answer(s, out) ==
  ses' = [ses EXCEPT ![s] = [Idle EXCEPT !.pc = "reply", !.host = ses[s].host,
                             !.id = ses[s].id, !.cred = ses[s].cred,
                             !.tok = ses[s].tok, !.out = out]]

Reject(s) ==
  /\ Answer(s, "no")
  /\ UNCHANGED <<stateVars, expired, secrets, rt, mutex, rev, host, drift, history>>
  /\ tlsFile' = (tlsFile /\ ~ses[s].ownTls)

(* rollbackLocked and restoreGatewayJoinRuntime: the snapshot is put back, *)
(* the services are restarted and the mutex is released.                   *)
RestoreRuntime(s, cost) ==
  /\ mutex' = Nobody
  /\ faults + cost <= MaxFaults
  /\ \/ /\ rt' = ses[s].snap
        /\ faults' = faults + cost
        /\ UNCHANGED drift
     \/ /\ "restore" \in FaultKinds /\ faults + cost < MaxFaults
        /\ faults' = faults + cost + 1
        /\ drift' = TRUE
        /\ UNCHANGED rt

(* Roll everything back that this session has created, and nothing else;   *)
(* cost counts the failure that led here.                                  *)
RollBack(s, cost) ==
  /\ RestoreRuntime(s, cost)
  /\ secrets' = secrets \ Owned(s)
  /\ tlsFile' = (tlsFile /\ ~ses[s].ownTls)
  /\ Answer(s, "no")
  /\ UNCHANGED <<stateVars, expired, rev, host, history>>

-----------------------------------------------------------------------------
(* A join at the gateway                                                   *)

IsJoin(s) == ses[s].tok \in Invites
TokenLive(s) == ses[s].tok \notin expired

InviteUsable(s) == inv[ses[s].tok].st = "active" /\ TokenLive(s)

JoinAuthorize(s) ==
  /\ At(s, "new") /\ IsJoin(s)
  /\ InviteUsable(s)
  /\ ses' = [ses EXCEPT ![s].pc = "authorized", ![s].base = gen]
  /\ UNCHANGED <<stateVars, expired, files, rt, mutex, rev, host, drift, history, faults>>

(* PrepareAuthorizedEnrollment loads the state again.                      *)
JoinAdmissible(s) ==
  /\ gen = ses[s].base
  /\ nodes[ses[s].id].lc = "none"
  /\ \A id \in Ids : nodes[id].lc \in {"active", "revoked"} =>
                       nodes[id].name # inv[ses[s].tok].name

(* The first join creates the gateway's tunnel identity, whose files must  *)
(* not be there yet.                                                       *)
JoinBuild(s) ==
  /\ At(s, "authorized") /\ IsJoin(s)
  /\ JoinAdmissible(s)
  /\ tlsRecord \/ ~tlsFile
  /\ tlsFile' = TRUE
  /\ ses' = [ses EXCEPT ![s].pc = "built",
                        ![s].cand = [Image EXCEPT ![ses[s].id] = 1],
                        ![s].ownTls = ~tlsRecord]
  /\ UNCHANGED <<stateVars, expired, secrets, rt, mutex, rev, host, drift, history, faults>>

JoinRefuse(s) ==
  /\ IsJoin(s)
  /\ \/ At(s, "new") /\ ~InviteUsable(s)
     \/ At(s, "authorized") /\ ~(JoinAdmissible(s) /\ (tlsRecord \/ ~tlsFile))
  /\ Reject(s)
  /\ UNCHANGED faults

(* Readiness.Prepare: the mutex is taken now, the configuration of the     *)
(* candidate that was built before is published and proved healthy.        *)
Activate(s) ==
  /\ At(s, "built") /\ mutex = Nobody
  /\ mutex' = s
  /\ rt' = ses[s].cand
  /\ ses' = [ses EXCEPT ![s].pc = "ready", ![s].snap = rt]
  /\ UNCHANGED <<stateVars, expired, files, rev, host, drift, history, faults>>

(* It cannot be published or does not get healthy, and is taken back.      *)
ActivateFails(s) ==
  /\ At(s, "built") /\ mutex = Nobody
  /\ Fails("runtime")
  /\ secrets' = IF IsJoin(s) THEN secrets ELSE secrets \ Owned(s)
  /\ tlsFile' = (tlsFile /\ ~ses[s].ownTls)
  /\ Answer(s, "no")
  /\ UNCHANGED <<stateVars, expired, rt, mutex, rev, host, drift, history>>

(* Commit stages the node's credentials; or the response cannot be signed, *)
(* or a credential cannot be written, and all is rolled back.              *)
JoinStage(s) ==
  /\ At(s, "ready") /\ IsJoin(s)
  /\ secrets' = secrets \cup Owned(s)
  /\ ses' = [ses EXCEPT ![s].pc = "staged"]
  /\ UNCHANGED <<stateVars, expired, tlsFile, rt, mutex, rev, host, drift, history, faults>>

JoinStageFails(s) ==
  /\ At(s, "ready") /\ IsJoin(s)
  /\ "secret" \in FaultKinds
  /\ RollBack(s, 1)

(* Variant: the invite is not marked as consumed.                          *)
JoinStateKeepsInvite(s) ==
  /\ nodes' = [nodes EXCEPT ![ses[s].id] =
       [lc |-> "active", cred |-> 1, name |-> inv[ses[s].tok].name]]
  /\ tlsRecord' = TRUE
  /\ gen' = gen + 1
  /\ UNCHANGED <<inv, rec>>

(* One Save consumes the invite and adds the node and, the first time, the *)
(* tunnel identity.                                                        *)
JoinState(s) ==
  /\ inv' = [inv EXCEPT ![ses[s].tok].st = "consumed"]
  /\ nodes' = [nodes EXCEPT ![ses[s].id] =
       [lc |-> "active", cred |-> 1, name |-> inv[ses[s].tok].name]]
  /\ tlsRecord' = TRUE
  /\ gen' = gen + 1
  /\ UNCHANGED rec

Committable(s) == gen = ses[s].base /\ TokenLive(s)

(* Success, also when Save has failed but the state shows the join.        *)
JoinCommit(s) ==
  /\ At(s, "staged")
  /\ Committable(s) /\ inv[ses[s].tok].st = "active"
  /\ JoinState(s)
  /\ mutex' = Nobody
  /\ Answer(s, "ok")
  /\ UNCHANGED <<expired, files, rt, rev, host, drift, history, faults>>

(* Refused or failed, and the state shows that the node is not in it.      *)
JoinCommitFails(s) ==
  /\ At(s, "staged")
  /\ Committable(s) => "save" \in FaultKinds
  /\ RollBack(s, IF Committable(s) THEN 1 ELSE 0)

(* Save has failed and the state cannot be read: ErrJoinUncertain.  All is *)
(* kept, the mutex released, and the node told "not found".                *)
JoinUncertain(s) ==
  /\ At(s, "staged") /\ Committable(s)
  /\ Fails("load")
  /\ \/ JoinState(s) \/ UNCHANGED stateVars
  /\ mutex' = Nobody
  /\ drift' = TRUE
  /\ denied' = denied \cup Owned(s)
  /\ Answer(s, "no")
  /\ UNCHANGED <<expired, files, rt, rev, host, overlap>>

-----------------------------------------------------------------------------
(* A recovery at the gateway                                               *)

RecoveryUsable(s) ==
  LET r == rec[ses[s].tok] IN
  /\ r.st = "active" /\ TokenLive(s)
  /\ r.gen = gen
  /\ Active(r.id) /\ nodes[r.id].cred = r.cred

RecoverAuthorize(s) ==
  /\ At(s, "new") /\ ~IsJoin(s)
  /\ RecoveryUsable(s)
  /\ ses' = [ses EXCEPT ![s].pc = "authorized", ![s].base = gen]
  /\ UNCHANGED <<stateVars, expired, files, rt, mutex, rev, host, drift, history, faults>>

(* The credentials of the new generation are staged, the candidate is      *)
(* rendered and validated; nothing is in force yet and no lock is held.    *)
RecoverBuild(s) ==
  /\ At(s, "authorized") /\ ~IsJoin(s)
  /\ gen = ses[s].base
  /\ Owned(s) \cap secrets = {}
  /\ secrets' = secrets \cup Owned(s)
  /\ ses' = [ses EXCEPT ![s].pc = "built",
                        ![s].cand = [Image EXCEPT ![ses[s].id] = ses[s].cred]]
  /\ UNCHANGED <<stateVars, expired, tlsFile, rt, mutex, rev, host, drift, history, faults>>

RecoverRefuse(s) ==
  /\ ~IsJoin(s)
  /\ \/ At(s, "new") /\ ~RecoveryUsable(s)
     \/ At(s, "authorized") /\ (gen # ses[s].base \/ Owned(s) \cap secrets # {})
  /\ Reject(s)
  /\ UNCHANGED faults

(* One Save consumes the token and publishes the new generation; then the  *)
(* old one is drained, its files go and the mutex is released.             *)
RecoverCommit(s) ==
  /\ At(s, "ready") /\ ~IsJoin(s)
  /\ Committable(s)
  /\ rec' = [rec EXCEPT ![ses[s].tok].st = "consumed"]
  /\ nodes' = [nodes EXCEPT ![ses[s].id].cred = ses[s].cred]
  /\ gen' = gen + 1
  /\ secrets' = secrets \ {<<ses[s].id, ses[s].cred - 1>>}
  /\ mutex' = Nobody
  /\ Answer(s, "ok")
  /\ UNCHANGED <<inv, expired, tlsRecord, tlsFile, rt, rev, host, drift, history, faults>>

(* Save has failed and the state is the old one: all is rolled back.       *)
RecoverCommitFails(s) ==
  /\ At(s, "ready") /\ ~IsJoin(s)
  /\ Committable(s)
  /\ "save" \in FaultKinds
  /\ RollBack(s, 1)

(* The token has expired, or the state has moved since the candidate was   *)
(* built (commit state "unknown").  commitAttempted is set, so Destroy     *)
(* does not abort: the candidate stays in force, its files stay, and       *)
(* nobody is left to unlock the mutex.                                     *)
RecoverCommitLost(s) ==
  /\ At(s, "ready") /\ ~IsJoin(s)
  /\ ~Committable(s)
  /\ mutex' = Leaked
  /\ Answer(s, "no")
  /\ UNCHANGED <<stateVars, expired, files, rt, rev, host, drift, history, faults>>

-----------------------------------------------------------------------------
(* The private machines                                                    *)

Fresh(h) == ~host[h].joined
Silent(h) == host[h].ask = "none"

Begin(h, s, id, cred, t) ==
  /\ At(s, "idle") /\ Silent(h)
  /\ host' = [host EXCEPT ![h].ask = s, ![h].try = <<id, cred>>,
                          ![h].keys = @ \cup {<<id, cred>>}]
  /\ ses' = [ses EXCEPT ![s] = [Idle EXCEPT !.pc = "new", !.host = h, !.id = id,
                                !.cred = cred, !.tok = t]]
  /\ UNCHANGED <<stateVars, expired, files, rt, mutex, rev, drift, history, faults>>

Unused(id) ==
  /\ nodes[id].lc = "none"
  /\ \A h \in Hosts : <<id, 1>> \notin host[h].keys
  /\ \A s \in Sessions : At(s, "idle") \/ ses[s].id # id
  /\ <<id, 1>> \notin secrets

(* Join allocates an identity, creates its credentials and posts them.  An *)
(* earlier attempt that ended uncertain has left its own credentials.      *)
JoinAsk(h, s, i, id) ==
  /\ inv[i].st # "unissued"
  /\ Fresh(h) /\ Unused(id)
  /\ Begin(h, s, id, 1, i)

(* Recovery creates the next generation beside the current one; files of   *)
(* an earlier attempt at the same generation are in the way.               *)
RecoverAsk(h, s, r) ==
  /\ rec[r].st # "unissued"
  /\ ~Fresh(h)
  /\ rec[r].id = host[h].id /\ rec[r].cred = host[h].cred
  /\ <<host[h].id, host[h].cred + 1>> \notin host[h].keys
  /\ Begin(h, s, host[h].id, host[h].cred + 1, r)

(* Session s is at work for the exchange host h waits for.                 *)
Serves(s, h) ==
  /\ host[h].ask = s /\ ~At(s, "idle")
  /\ ses[s].host = h /\ <<ses[s].id, ses[s].cred>> = host[h].try

Answered(h, out) ==
  \E s \in Sessions : Serves(s, h) /\ At(s, "reply") /\ ses[s].out = out

EndExchange(h) ==
  ses' = [s \in Sessions |-> IF Serves(s, h) /\ At(s, "reply") THEN Idle ELSE ses[s]]

(* A 200: the response is verified, stored, and the local state saved; if  *)
(* that fails the outcome is uncertain and everything is kept.             *)
HostAccepts(h) ==
  /\ Answered(h, "ok")
  /\ \/ /\ host' = [host EXCEPT ![h] =
             [joined |-> TRUE, id |-> @.try[1], cred |-> @.try[2], ask |-> "none",
              try |-> @.try,
              keys |-> @.keys \ {<<@.try[1], @.try[2] - 1>>}]]
        /\ UNCHANGED faults
     \/ Fails("host") /\ host' = [host EXCEPT ![h].ask = "none"]
  /\ EndExchange(h)
  /\ UNCHANGED <<stateVars, expired, files, rt, mutex, rev, drift, history>>

(* Any other HTTP status: CommitPossible is false and the attempt's        *)
(* credentials are deleted.  The status is the gateway's, or nginx has     *)
(* answered 502 or 504 in its place.                                       *)
OtherStatus(h) ==
  \/ Answered(h, "no") /\ UNCHANGED <<denied, faults>>
  \/ ~Silent(h) /\ Fails("proxy") /\ denied' = denied \cup {host[h].try}

HostRefused(h) ==
  /\ OtherStatus(h)
  /\ host' = [host EXCEPT ![h].ask = "none", ![h].keys = @ \ {host[h].try}]
  /\ EndExchange(h)
  /\ UNCHANGED <<stateVars, expired, files, rt, mutex, rev, drift, overlap>>

(* Variant: the attempt's credentials go when the outcome is not known.    *)
HostUncertainForgets(h) ==
  /\ ~Silent(h)
  /\ \/ Fails("lost")
     \/ UNCHANGED faults /\ \A s \in Sessions : ~Serves(s, h)
  /\ host' = [host EXCEPT ![h].ask = "none", ![h].keys = @ \ {host[h].try}]
  /\ EndExchange(h)
  /\ UNCHANGED <<stateVars, expired, files, rt, mutex, rev, drift, history>>

(* The connection breaks or the budget ends after the request was written: *)
(* uncertain, everything is kept.                                          *)
HostUncertain(h) ==
  /\ ~Silent(h)
  /\ \/ Fails("lost")
     \/ UNCHANGED faults /\ \A s \in Sessions : ~Serves(s, h)
  /\ host' = [host EXCEPT ![h].ask = "none"]
  /\ EndExchange(h)
  /\ UNCHANGED <<stateVars, expired, files, rt, mutex, rev, drift, history>>

(* The answer of a session nobody listens to any more.                     *)
Unheard(s) ==
  /\ At(s, "reply")
  /\ ~Serves(s, ses[s].host)
  /\ ses' = [ses EXCEPT ![s] = Idle]
  /\ UNCHANGED <<stateVars, expired, files, rt, mutex, rev, host, drift, history, faults>>

-----------------------------------------------------------------------------
(* The controller dies and is restarted.  Hosts that were waiting hear of  *)
(* it as of any other broken exchange.                                     *)
InForce(s) == ses[s].pc \in {"ready", "staged"}

Crash ==
  /\ Fails("crash")
  /\ ses' = [s \in Sessions |-> Idle]
  /\ rev' = IF mutex = Revoker THEN NoRevocation ELSE rev
  /\ drift' = (drift \/ mutex # Nobody)
  /\ mutex' = Nobody
  /\ UNCHANGED <<stateVars, expired, files, rt, host, history>>

-----------------------------------------------------------------------------
Init ==
  /\ gen = 1
  /\ inv = [i \in Invites |-> [st |-> "unissued", name |-> "none"]]
  /\ rec = [r \in Recoveries |-> [st |-> "unissued", id |-> "none", cred |-> 0, gen |-> 0]]
  /\ expired = {} /\ nodes = [id \in Ids |-> NoNode]
  /\ tlsRecord = FALSE /\ tlsFile = FALSE /\ secrets = {}
  /\ rt = Nothing /\ mutex = Nobody
  /\ ses = [s \in Sessions |-> Idle] /\ rev = NoRevocation
  /\ host = [h \in Hosts |-> [joined |-> FALSE, id |-> "none", cred |-> 0,
                              ask |-> "none", try |-> <<"none", 0>>, keys |-> {}]]
  /\ drift = FALSE /\ overlap = FALSE /\ denied = {} /\ faults = 0

SessionStep(s) ==
  \/ JoinAuthorize(s) \/ JoinBuild(s) \/ JoinRefuse(s)
  \/ Activate(s) \/ ActivateFails(s)
  \/ JoinStage(s) \/ JoinStageFails(s)
  \/ JoinCommit(s) \/ JoinCommitFails(s) \/ JoinUncertain(s)
  \/ RecoverAuthorize(s) \/ RecoverBuild(s) \/ RecoverRefuse(s)
  \/ RecoverCommit(s) \/ RecoverCommitFails(s) \/ RecoverCommitLost(s)
  \/ Unheard(s)

HostStep(h) == HostAccepts(h) \/ HostRefused(h)

Operator ==
  \/ \E i \in Invites : CancelInvite(i) \/ \E n \in Names : IssueInvite(i, n)
  \/ \E r \in Recoveries, id \in Ids : IssueRecovery(r, id)
  \/ \E id \in Ids : DeleteNode(id) \/ \E by \in RevokedBy : RevokeCommit(id, by)
  \/ OtherWrite

Next ==
  \/ Operator
  \/ \E t \in Invites \cup Recoveries : Expire(t)
  \/ RevokeRuntime \/ RevokeCredentials
  \/ \E s \in Sessions : SessionStep(s)
  \/ \E h \in Hosts, s \in Sessions :
       \/ \E i \in Invites, id \in Ids : JoinAsk(h, s, i, id)
       \/ \E r \in Recoveries : RecoverAsk(h, s, r)
  \/ \E h \in Hosts : HostStep(h) \/ HostUncertain(h)
  \/ Crash

Spec == Init /\ [][Next]_vars

(* Goroutines and the revocation run on; a session that waits for the      *)
(* mutex gets it in turn (sync.Mutex is fair to those who have waited).    *)
Fairness ==
  /\ \A s \in Sessions : SF_vars(SessionStep(s))
  /\ \A h \in Hosts : WF_vars((Answered(h, "ok") \/ Answered(h, "no")) /\ HostStep(h))
  /\ WF_vars(RevokeRuntime \/ RevokeCredentials)

FairSpec == Spec /\ Fairness

-----------------------------------------------------------------------------
(* Properties                                                              *)

TypeOK ==
  /\ gen \in Nat \ {0}
  /\ inv \in [Invites -> [st : {"unissued", "active", "consumed", "cancelled"},
                          name : Names \cup {"none"}]]
  /\ rec \in [Recoveries -> [st : {"unissued", "active", "consumed"}, id : Ids \cup {"none"},
                             cred : Nat, gen : Nat]]
  /\ expired \subseteq Invites \cup Recoveries
  /\ nodes \in [Ids -> [lc : {"none", "active", "revoked", "deleted"},
                        cred : Nat, name : Names \cup {"none"}]]
  /\ tlsRecord \in BOOLEAN /\ tlsFile \in BOOLEAN
  /\ secrets \subseteq Ids \X Nat
  /\ rt \in [Ids -> Nat]
  /\ mutex \in Sessions \cup {Nobody, Leaked, Revoker}
  /\ \A s \in Sessions : InForce(s) => mutex = s

(* An invite admits one node, and only by its own consumption: nodes and   *)
(* consumed invites correspond one to one, by name, whatever races, retries*)
(* and crashes there were.                                                 *)
InviteAdmitsOne ==
  /\ \A i \in Invites : inv[i].st = "consumed" =>
       Cardinality({id \in Ids : nodes[id].lc # "none" /\ nodes[id].name = inv[i].name}) = 1
  /\ \A id \in Ids : nodes[id].lc # "none" =>
       Cardinality({i \in Invites : inv[i].st = "consumed" /\ inv[i].name = nodes[id].name}) = 1

(* There is no state with a consumed recovery token and the credentials it *)
(* was to replace, nor a replaced generation without a consumed token.     *)
RecoveryAtomic ==
  \A r \in Recoveries :
    rec[r].st = "consumed" => nodes[rec[r].id].cred > rec[r].cred

(* A token of either kind takes effect once, as a whole.                   *)
TokensAdmitOnce == InviteAdmitsOne /\ RecoveryAtomic

(* What one session rolls back is never what a committed node relies on:   *)
(* every active node has its credentials and the tunnel identity.          *)
MemberHasMaterial ==
  \A id \in Ids : Active(id) => <<id, nodes[id].cred>> \in secrets /\ tlsFile

(* With the mutex free the gateway admits exactly the active nodes, each   *)
(* at its committed generation, though candidates are built from states    *)
(* that others have since replaced, put in force before they are committed *)
(* and taken back by snapshot.  Exempt are failures reported as uncertain, *)
(* crashes with the mutex held (drift), and a `node revoke` that publishes *)
(* over a session in force or over a commit it does not know (overlap);    *)
(* one that meets sessions which have only been built is not exempt.       *)
RuntimeServesMembers ==
  ~drift /\ ~overlap /\ mutex = Nobody /\ rev.pc = "idle" => rt = Image

(* A committed node can connect: it is admitted, with credentials that     *)
(* exist, whatever the sessions around it roll back; and nobody else is.   *)
MembersServed == MemberHasMaterial /\ RuntimeServesMembers

(* A committed generation is held by the machine it was made on: no        *)
(* machine deletes credentials that the gateway has admitted, whatever     *)
(* answers are lost.  Exempt are the generations in denied: a status that  *)
(* is not the gateway's decision is believed as if it were one.            *)
CommittedKeyKept ==
  \A id \in Ids : Active(id) /\ <<id, nodes[id].cred>> \notin denied =>
    \E h \in Hosts : <<id, nodes[id].cred>> \in host[h].keys

(* A machine that believes it has joined is a node of the gateway, under   *)
(* that identity and with a generation that is not ahead.                  *)
JoinedIsMember ==
  \A h \in Hosts : host[h].joined =>
    nodes[host[h].id].lc # "none" /\ host[h].cred <= nodes[host[h].id].cred

(* The two sides of a join or a recovery, each of which decides on its own *)
(* what to keep, agree in the end whatever answers were lost.              *)
SidesAgree == TypeOK /\ CommittedKeyKept /\ JoinedIsMember

(* Every session ends: the waiting for mutationMu is never for ever.  It   *)
(* does not hold (README, section 4), so no run lists it.                  *)
SessionsEnd == \A s \in Sessions : ~At(s, "idle") ~> At(s, "idle")
=============================================================================
