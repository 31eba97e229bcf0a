------------------------------- MODULE Expose -------------------------------
(***************************************************************************)
(* Publishing an HTTP application of a private node at the gateway, and    *)
(* removing it again.                                                      *)
(*                                                                         *)
(*   internal/operations/expose_create.go, expose_remove.go     node sagas *)
(*   internal/operations/expose_tunnel_frp.go, internal/tunnel             *)
(*     /configuration.go, readiness.go                the node's tunnel    *)
(*   internal/operations/expose_rpc.go             requests and the lock   *)
(*   internal/operations/expose_gateway.go, expose_gateway_system.go,      *)
(*     expose_remove_gateway.go, internal/ingress/expose.go                *)
(*                                                  the gateway's half     *)
(*   internal/ingress/nginx.go, nginx_activation.go   generations of nginx *)
(*   internal/tunnel/allocator.go, authorization.go   ports and frps       *)
(*                                                                         *)
(* Three places must agree without a common transaction: the route in      *)
(* nginx, the record in the two state files and the mapping in frpc.       *)
(***************************************************************************)
EXTENDS Naturals, FiniteSets, FiniteSetsExt

CONSTANTS
  Nodes,
  Ids,          \* an expose gets a fresh ID; each is used for one request
  Owner,        \* the node that asks for it
  PathOf,       \* and the public path it asks for
  Published,    \* the exposes that exist already when a run starts
  Ports,        \* the gateway's loopback ports for mappings
  Procs,        \* command processes
  HostOf,       \* the node a process runs on
  Commands,     \* subset of {"create", "defer", "remove"}
  Serial,       \* the operator runs one command at a time on a node
  Busy,         \* the nodes on which other commands change the state too
  FaultKinds,   \* the failures a run injects
  MaxOther,     \* changes by others happen below this generation
  MaxFaults,
  None

AllFaults == {"call", "save", "tunnel", "nginx", "kill", "restart"}

ASSUME ExposeAssumptions ==
  /\ Owner \in [Ids -> Nodes] /\ HostOf \in [Procs -> Nodes]
  /\ Ports \subseteq Nat \ {0} /\ Published \subseteq Ids
  /\ Commands \subseteq {"create", "defer", "remove"}
  /\ Serial \in BOOLEAN /\ Busy \subseteq Nodes /\ FaultKinds \subseteq AllFaults
  /\ MaxOther \in Nat /\ MaxFaults \in Nat
  /\ None \notin Ids \cup Procs
  /\ \E f \in [Published -> Ports] : \A x, y \in Published : x # y => f[x] # f[y]
  /\ \A x, y \in Published : x # y => PathOf[x] # PathOf[y]

VARIABLES
  gw,      \* the gateway's state: generation and the exposes on record
  node,    \* each node's state: generation, the gateway's as last known, exposes
  port,    \* the port planned for an expose (0: not planned yet)
  conf,    \* each node's frpc: the mapped exposes, and a snapshot left behind
  reg,     \* the mappings that frps is listening for
  nginx,   \* the generation linked as current, the routes the workers serve,
           \*   and the inactive generations still on disk
  h,       \* the publication at work in the controller, under its lock
  late,    \* requests whose caller has given up and that may still arrive
  proc,    \* the commands at work
  acked,   \* exposes reported as created and not yet being removed
  torn,    \* a failure has left nginx and the gateway's state apart
  faults

local == <<node, port, conf>>
gateway == <<gw, nginx, h, late, acked, torn>>
vars == <<gw, node, port, conf, reg, nginx, h, late, proc, acked, torn, faults>>

Idle == [pc |-> "idle", cmd |-> "none", e |-> None, base |-> None,
         gen |-> 0, saved |-> FALSE]
NoHandler == [step |-> "none", r |-> None, p |-> None, prev |-> None]

At(p, cmd, pc) == proc[p].cmd = cmd /\ proc[p].pc = pc
To(p, pc) == proc' = [proc EXCEPT ![p].pc = pc]
End(p) == proc' = [proc EXCEPT ![p] = Idle]

Fails(kind) ==
  /\ kind \in FaultKinds /\ faults < MaxFaults
  /\ faults' = faults + 1

Present(ex) == {x \in Ids : ex[x] # "absent"}
Enabled(ex) == {x \in Ids : ex[x] \in {"pending", "ready"}}
Ready(ex)   == {x \in Ids : ex[x] = "ready"}

(* model.State.Validate: no port twice, no active path twice.              *)
Valid(ex) ==
  \A x, y \in Present(ex) : x # y =>
    /\ port[x] # port[y]
    /\ x \in Enabled(ex) /\ y \in Enabled(ex) => PathOf[x] # PathOf[y]

-----------------------------------------------------------------------------
(* Planning reads both hosts and changes neither                           *)

(* A listener on a port that no record owns is somebody else's.            *)
Foreign == {port[x] : x \in reg} \ {port[x] : x \in Present(gw.ex)}
FreePorts == (Ports \ {port[x] : x \in Present(gw.ex)}) \ Foreign

Allocate == Min(FreePorts)

MayStart(p) ==
  /\ proc[p] = Idle
  /\ Serial => \A q \in Procs : HostOf[q] = HostOf[p] => proc[q] = Idle

Start(p, cmd, e) ==
  proc' = [proc EXCEPT ![p] = [Idle EXCEPT !.pc = "planned", !.cmd = cmd,
                                 !.e = e, !.base = node[HostOf[p]],
                                 !.gen = gw.gen]]

PlanCreate(p, cmd, e) ==
  /\ cmd \in Commands \cap {"create", "defer"}
  /\ MayStart(p) /\ h = NoHandler
  /\ port[e] = 0 /\ Owner[e] = HostOf[p]
  /\ gw.gen >= node[HostOf[p]].last
  /\ \A x \in Enabled(gw.ex) : PathOf[x] # PathOf[e]
  /\ FreePorts # {}
  /\ port' = [port EXCEPT ![e] = Allocate]
  /\ Start(p, cmd, e)
  /\ UNCHANGED <<node, conf, reg, gateway, faults>>

(* The two records of the expose must be equal.                            *)
PlanRemove(p, e) ==
  /\ "remove" \in Commands
  /\ MayStart(p) /\ h = NoHandler
  /\ Owner[e] = HostOf[p]
  /\ gw.gen >= node[HostOf[p]].last
  /\ gw.ex[e] # "absent" /\ node[HostOf[p]].ex[e] = gw.ex[e]
  /\ Start(p, "remove", e)
  /\ UNCHANGED <<local, reg, gateway, faults>>

-----------------------------------------------------------------------------
(* Requests to the gateway.  Every answer but success, a refusal too, is   *)
(* an outcome the caller calls uncertain: it stops where it is.            *)

Asking == {"planned", "aborting", "publishing", "finalizing"}
RequestOf(p) ==
  [act |-> CASE proc[p].pc = "planned" /\ proc[p].cmd = "create" -> "reserve"
             [] proc[p].pc = "planned" /\ proc[p].cmd = "defer" -> "defer"
             [] proc[p].pc = "planned" /\ proc[p].cmd = "remove" -> "unpublish"
             [] proc[p].pc = "aborting"   -> "abort"
             [] proc[p].pc = "publishing" -> "publish"
             [] proc[p].pc = "finalizing" -> "finalize",
   e |-> proc[p].e, gen |-> proc[p].gen,
   was |-> IF proc[p].pc = "planned" THEN proc[p].base.ex[proc[p].e]
                                     ELSE "absent"]

(* Apply loads the node's state again and compares it with the plan before *)
(* it asks the gateway; Defer does not.                                    *)
StillPlanned(p) ==
  proc[p].pc = "planned" /\ proc[p].cmd # "defer" /\ h.p # p =>
    node[HostOf[p]] = proc[p].base

Put(e, s) == [gen |-> gw.gen + 1, ex |-> [gw.ex EXCEPT ![e] = s]]

(* Reserve, Defer, Abort and FinalizeRemoval are one save under the lock.  *)
Reservable(r) == r.act \in {"reserve", "defer"} /\ Valid(Put(r.e, "pending").ex)
Abortable(r)  == r.act = "abort" /\ gw.ex[r.e] = "pending"
Releasable(r) == r.act = "finalize" /\ gw.ex[r.e] = "disabled"

Applies(r) == gw.gen = r.gen /\ (Reservable(r) \/ Abortable(r) \/ Releasable(r))
Applied(r) ==
  Put(r.e, IF r.act \in {"reserve", "defer"} THEN "pending" ELSE "absent")

(* The next step of a command whose request was answered, with what was    *)
(* the gateway's generation after it.                                      *)
Answered(p, ok, g) ==
  LET act == RequestOf(p).act IN
  CASE ok /\ act = "reserve"   -> proc' = [proc EXCEPT ![p].pc = "reserved", ![p].gen = g]
    [] ok /\ act = "publish"   -> proc' = [proc EXCEPT ![p].pc = "published", ![p].gen = g]
    [] ok /\ act = "unpublish" -> proc' = [proc EXCEPT ![p].pc = "unpublished", ![p].gen = g]
    [] ok /\ act = "finalize"  -> proc' = [proc EXCEPT ![p].pc = "released", ![p].gen = g]
    [] act = "abort" /\ proc[p].saved ->
         proc' = [proc EXCEPT ![p].pc = "unsaving", ![p].gen = IF ok THEN g ELSE @]
    [] OTHER -> End(p)

Saving == {"reserve", "defer", "abort", "finalize"}

HandleCall(p) ==
  /\ proc[p].pc \in Asking /\ RequestOf(p).act \in Saving
  /\ StillPlanned(p) /\ h = NoHandler
  /\ LET r == RequestOf(p) IN
     /\ gw' = IF Applies(r) THEN Applied(r) ELSE gw
     /\ Answered(p, Applies(r), gw'.gen)
  /\ UNCHANGED <<local, reg, nginx, h, late, acked, torn, faults>>

(* The node's state has changed since the plan: nothing is asked.          *)
PlanStale(p) ==
  /\ ~StillPlanned(p)
  /\ End(p)
  /\ UNCHANGED <<local, reg, gateway, faults>>

(* The call times out, its answer is lost, or the gateway's save fails     *)
(* with or without effect.                                                 *)
CallFails(p) ==
  /\ proc[p].pc \in Asking /\ StillPlanned(p)
  /\ Fails("call")
  /\ IF h.p = p
       THEN h' = [h EXCEPT !.p = None] /\ UNCHANGED late
       ELSE late' = late \cup {RequestOf(p)} /\ UNCHANGED h
  /\ Answered(p, FALSE, 0)
  /\ UNCHANGED <<local, reg, gw, nginx, acked, torn>>

HandleLate(r) ==
  /\ r \in late /\ r.act \in Saving /\ h = NoHandler
  /\ gw' = IF Applies(r) THEN Applied(r) ELSE gw
  /\ late' = late \ {r}
  /\ UNCHANGED <<local, reg, nginx, h, proc, acked, torn, faults>>

LoseLate(r) ==
  /\ r \in late
  /\ late' = late \ {r}
  /\ UNCHANGED <<local, reg, gw, nginx, h, proc, acked, torn, faults>>

(* Any other change of either state; not all of them take a lock.          *)
OtherWrite ==
  /\ gw.gen < MaxOther
  /\ gw' = [gw EXCEPT !.gen = @ + 1]
  /\ UNCHANGED <<local, reg, nginx, h, late, proc, acked, torn, faults>>

NodeWrite(n) ==
  /\ n \in Busy /\ node[n].gen < MaxOther
  /\ node' = [node EXCEPT ![n].gen = @ + 1]
  /\ UNCHANGED <<port, conf, reg, gateway, proc, faults>>

-----------------------------------------------------------------------------
(* Publish and Unpublish: nginx first, then the state, then the cleanup    *)

Goal(r) == IF r.act = "publish" THEN "ready" ELSE "disabled"

(* Variant: only the changed expose is rendered.                           *)
CandidateIncremental(r) ==
  [gen |-> r.gen + 1, routes |-> {r.e} \cap Ready(Put(r.e, Goal(r)).ex)]

(* RenderNginxConfig: every published expose of the candidate state.       *)
Candidate(r) == [gen |-> r.gen + 1, routes |-> Ready(Put(r.e, Goal(r)).ex)]

(* ActivateRetained refuses when an inactive generation is on disk, unless *)
(* it is the candidate itself.                                             *)
Activatable(c) ==
  /\ c.gen > nginx.cur.gen
  /\ nginx.old = {} \/ nginx.old = {c}

Current(r) ==
  /\ gw.gen = r.gen
  /\ IF r.act = "publish" THEN gw.ex[r.e] = "pending"
                          ELSE gw.ex[r.e] = r.was /\ r.was # "disabled"

(* Workers are reloaded when the content differs.                          *)
Switched(from, to) ==
  IF from.routes # to.routes THEN to.routes ELSE nginx.run

Requests == late \cup {RequestOf(p) : p \in {q \in Procs : /\ proc[q].pc \in Asking
                                                          /\ StillPlanned(q)}}
CallerOf(r) ==
  IF r \in late THEN None
  ELSE CHOOSE p \in Procs : proc[p].pc \in Asking /\ RequestOf(p) = r

Reply(p, ok, g) ==
  IF p = None THEN UNCHANGED proc ELSE Answered(p, ok, g)

BeginHandler(r) ==
  /\ r \in Requests /\ r.act \in {"publish", "unpublish"} /\ h = NoHandler
  /\ Current(r) /\ Activatable(Candidate(r))
  /\ late' = late \ {r}
  /\ acked' = IF r.act = "unpublish" THEN acked \ {r.e} ELSE acked

Activate(r) ==
  /\ BeginHandler(r)
  /\ LET c == Candidate(r) IN
     /\ nginx' = [cur |-> c, old |-> {nginx.cur}, run |-> Switched(nginx.cur, c)]
     /\ h' = [step |-> "save", r |-> r, p |-> CallerOf(r), prev |-> nginx.cur]
  /\ UNCHANGED <<local, reg, gw, proc, torn, faults>>

(* A failed reload is rolled back; when that fails as well, either         *)
(* generation may be linked, either may be served, and both are kept.      *)
ActivateFails(r) ==
  /\ BeginHandler(r)
  /\ Fails("nginx")
  /\ LET c == Candidate(r) IN
     \/ UNCHANGED <<nginx, torn>>
     \/ /\ \E x \in {c, nginx.cur}, run \in {nginx.run, c.routes} :
             nginx' = [cur |-> x, run |-> run, old |-> {c, nginx.cur} \ {x}]
        /\ torn' = TRUE
  /\ Reply(CallerOf(r), FALSE, 0)
  /\ UNCHANGED <<local, reg, gw, h>>

(* The conditions of the handler and of the nginx manager; an expose that  *)
(* is disabled already is answered without a change.                       *)
Refuse(r) ==
  /\ r \in Requests /\ r.act \in {"publish", "unpublish"} /\ h = NoHandler
  /\ ~(Current(r) /\ Activatable(Candidate(r)))
  /\ late' = late \ {r}
  /\ Reply(CallerOf(r), /\ r.act = "unpublish" /\ gw.gen = r.gen
                        /\ r.was = "disabled" /\ gw.ex[r.e] = "disabled", gw.gen)
  /\ UNCHANGED <<local, reg, gw, nginx, h, acked, torn, faults>>

Ends == h' = NoHandler

HandlerSave ==
  /\ h.step = "save"
  /\ IF gw.gen = h.r.gen
       THEN gw' = Put(h.r.e, Goal(h.r)) /\ h' = [h EXCEPT !.step = "commit"]
       ELSE gw' = gw /\ h' = [h EXCEPT !.step = "rollback"]
  /\ UNCHANGED <<local, reg, nginx, late, proc, acked, torn, faults>>

(* An error after the rename: the new state is in place all the same.      *)
HandlerSaveFails ==
  /\ h.step = "save"
  /\ Fails("save")
  /\ gw' \in {gw} \cup {s \in {Put(h.r.e, Goal(h.r))} : gw.gen = h.r.gen}
  /\ h' = [h EXCEPT !.step = "rollback"]
  /\ torn' = (torn \/ gw' # gw)
  /\ UNCHANGED <<local, reg, nginx, late, proc, acked>>

(* Variant: a save that failed leaves the new generation in place.         *)
HandlerRollbackSkipped ==
  /\ h.step = "rollback"
  /\ Ends /\ Reply(h.p, FALSE, 0)
  /\ UNCHANGED <<local, reg, gw, nginx, late, acked, torn, faults>>

HandlerRollback ==
  /\ h.step = "rollback"
  /\ nginx' = [cur |-> h.prev, old |-> {}, run |-> Switched(nginx.cur, h.prev)]
  /\ Ends /\ Reply(h.p, FALSE, 0)
  /\ UNCHANGED <<local, reg, gw, late, acked, torn, faults>>

HandlerRollbackFails ==
  /\ h.step = "rollback"
  /\ Fails("nginx")
  /\ \E x \in {h.prev, nginx.cur}, run \in {nginx.run, h.prev.routes} :
       nginx' = [cur |-> x, run |-> run, old |-> {h.prev, nginx.cur} \ {x}]
  /\ Ends /\ Reply(h.p, FALSE, 0)
  /\ torn' = TRUE
  /\ UNCHANGED <<local, reg, gw, late, acked>>

HandlerCommit ==
  /\ h.step = "commit"
  /\ nginx' = [nginx EXCEPT !.old = {}]
  /\ Ends /\ Reply(h.p, TRUE, h.r.gen + 1)
  /\ UNCHANGED <<local, reg, gw, late, acked, torn, faults>>

HandlerCommitFails ==
  /\ h.step = "commit"
  /\ Fails("nginx")
  /\ Ends /\ Reply(h.p, FALSE, 0)
  /\ UNCHANGED <<local, reg, gw, nginx, late, acked, torn>>

(* The controller is restarted in the middle of a publication.             *)
ControllerRestarts ==
  /\ h # NoHandler
  /\ Fails("restart")
  /\ Ends /\ Reply(h.p, FALSE, 0)
  /\ torn' = (torn \/ h.step # "commit")
  /\ UNCHANGED <<local, reg, gw, nginx, late, acked>>

-----------------------------------------------------------------------------
(* The node's tunnel: the whole topology of a state, or an error           *)

Topology(ex) == Enabled(ex)
Pending(p) == [proc[p].base.ex EXCEPT ![proc[p].e] = "pending"]

(* A reload ends the mappings that are gone.                               *)
Install(n, ids) ==
  /\ conf' = [conf EXCEPT ![n].map = ids]
  /\ reg' = {x \in reg : Owner[x] = n => x \in ids}

(* The manager restores the old file when the reload fails; when that      *)
(* fails too, or the process dies, its snapshot stays behind.              *)
InstallTorn(n, ids) ==
  \/ UNCHANGED <<conf, reg>>
  \/ \E m \in {conf[n].map, ids} :
       /\ conf' = [conf EXCEPT ![n] = [map |-> m, left |-> TRUE]]
       /\ reg' = {x \in reg : Owner[x] = n => x \in m}

(* frpc keeps trying; frps asks the controller, which knows the expose,    *)
(* and the port must be free.                                              *)
Authorized(e) == gw.ex[e] \in {"pending", "ready"}

Register(e) ==
  /\ e \in conf[Owner[e]].map \ reg
  /\ Authorized(e)
  /\ \A x \in reg : port[x] # port[e]
  /\ reg' = reg \cup {e}
  /\ UNCHANGED <<local, gateway, proc, faults>>

Disconnect(n) ==
  /\ \E x \in reg : Owner[x] = n
  /\ reg' = {x \in reg : Owner[x] # n}
  /\ UNCHANGED <<local, gateway, proc, faults>>

-----------------------------------------------------------------------------
(* Creating an expose: reserve, map, save, observe, publish, save          *)

(* What the tunnel is to become at each step of a command that changes it. *)
Wanted(p) ==
  CASE proc[p].pc = "reserved"  -> Topology(Pending(p))
    [] proc[p].pc = "unmapping" -> Topology(proc[p].base.ex)
    [] proc[p].pc = "draining"  -> Topology(proc[p].base.ex)

Mapping == {"reserved", "unmapping", "draining"}

(* A snapshot left behind refuses every further change.                    *)
Refused(p) ==
  \/ conf[HostOf[p]].left
  \/ proc[p].pc = "reserved" /\ ~Valid(Pending(p))

(* Variant: a tunnel that could not be deactivated is taken for removed.   *)
AfterTunnelIgnored(p, ok) ==
  CASE ok /\ proc[p].pc = "reserved" -> To(p, "mapped")
    [] proc[p].pc = "draining" -> To(p, "finalizing")
    [] OTHER -> To(p, "aborting")

AfterTunnel(p, ok) ==
  CASE ok /\ proc[p].pc = "reserved" -> To(p, "mapped")
    [] ok /\ proc[p].pc = "draining" -> To(p, "finalizing")
    [] ~ok /\ proc[p].pc = "draining" -> End(p)
    [] OTHER -> To(p, "aborting")

ApplyTunnel(p) ==
  /\ proc[p].pc \in Mapping
  /\ IF Refused(p) THEN UNCHANGED <<conf, reg>> ELSE Install(HostOf[p], Wanted(p))
  /\ AfterTunnel(p, ~Refused(p))
  /\ UNCHANGED <<node, port, gateway, faults>>

ApplyTunnelFails(p) ==
  /\ proc[p].pc \in Mapping /\ ~Refused(p)
  /\ Fails("tunnel")
  /\ InstallTorn(HostOf[p], Wanted(p))
  /\ AfterTunnel(p, FALSE)
  /\ UNCHANGED <<node, port, gateway>>

(* The state a step writes: the plan's, one or two saves later, and the    *)
(* gateway's generation as last heard of.                                  *)
AfterSaves(p, saves, s) ==
  [gen |-> proc[p].base.gen + saves, last |-> proc[p].gen,
   ex |-> [proc[p].base.ex EXCEPT ![proc[p].e] = s]]

CreateSaved(p) ==
  CASE proc[p].pc = "mapped"    -> AfterSaves(p, 1, "pending")
    [] proc[p].pc = "published" -> AfterSaves(p, 2, "ready")
    [] proc[p].pc = "unsaving"  -> AfterSaves(p, 2, "absent")

RemoveSaved(p) ==
  CASE proc[p].pc = "unpublished" -> AfterSaves(p, 1, "disabled")
    [] proc[p].pc = "released"    -> AfterSaves(p, 1, "absent")

Saved(p) == IF proc[p].cmd = "remove" THEN RemoveSaved(p) ELSE CreateSaved(p)

Stores == {"mapped", "published", "unsaving", "unpublished", "released"}

(* The expose is disabled on the node already: nothing to save.            *)
Skips(p) ==
  proc[p].pc = "unpublished" /\ proc[p].base.ex[proc[p].e] = "disabled"

SaveNode(p) ==
  /\ proc[p].pc \in Stores
  /\ LET n == HostOf[p]
         ok == Skips(p) \/ node[n].gen + 1 = Saved(p).gen
         new == IF ok /\ ~Skips(p) THEN Saved(p) ELSE node[n]
     IN /\ node' = [node EXCEPT ![n] = new]
        /\ CASE ok /\ proc[p].pc = "mapped" ->
                  proc' = [proc EXCEPT ![p].pc = "saved", ![p].saved = TRUE]
             [] ~ok /\ proc[p].pc = "mapped" -> To(p, "unmapping")
             [] ok /\ proc[p].pc = "unpublished" ->
                  proc' = [proc EXCEPT ![p].pc = "draining", ![p].base = new]
             [] OTHER -> End(p)
        /\ acked' = IF ok /\ proc[p].pc = "published"
                      THEN acked \cup {proc[p].e} ELSE acked
  /\ UNCHANGED <<port, conf, reg, gw, nginx, h, late, torn, faults>>

SaveNodeFails(p) ==
  /\ proc[p].pc \in Stores /\ ~Skips(p)
  /\ Fails("save")
  /\ LET n == HostOf[p] IN
     node' \in {node} \cup {[node EXCEPT ![n] = s] :
                 s \in {x \in {Saved(p)} : node[n].gen + 1 = x.gen}}
  /\ IF proc[p].pc = "mapped" THEN To(p, "unmapping") ELSE End(p)
  /\ UNCHANGED <<port, conf, reg, gateway>>

(* The installed file is exactly the own candidate and the mapping runs.   *)
ReadyToPublish(p) ==
  /\ conf[HostOf[p]].map = Topology(Pending(p))
  /\ proc[p].e \in reg

Observe(p) ==
  /\ At(p, "create", "saved")
  /\ To(p, IF ReadyToPublish(p) THEN "publishing" ELSE "unmapping")
  /\ UNCHANGED <<local, reg, gateway, faults>>

(* A command is killed, perhaps in the middle of changing the tunnel or    *)
(* with a request on its way.                                              *)
Kill(p) ==
  /\ proc[p] # Idle
  /\ Fails("kill")
  /\ IF proc[p].pc \in Mapping /\ ~Refused(p)
       THEN InstallTorn(HostOf[p], Wanted(p))
       ELSE UNCHANGED <<conf, reg>>
  /\ h' = IF h.p = p THEN [h EXCEPT !.p = None] ELSE h
  /\ late' = IF proc[p].pc \in Asking /\ h.p # p
               THEN late \cup {RequestOf(p)} ELSE late
  /\ End(p)
  /\ UNCHANGED <<node, port, gw, nginx, acked, torn>>

-----------------------------------------------------------------------------

(* Joined nodes; what is published already is so in every place.           *)
Init ==
  /\ gw = [gen |-> 1, ex |-> [e \in Ids |-> IF e \in Published THEN "ready" ELSE "absent"]]
  /\ node = [n \in Nodes |->
               [gen |-> 1, last |-> 1,
                ex |-> [e \in Ids |-> IF e \in Published /\ Owner[e] = n
                                        THEN "ready" ELSE "absent"]]]
  /\ port = CHOOSE f \in [Ids -> Ports \cup {0}] :
              /\ \A e \in Ids : f[e] # 0 <=> e \in Published
              /\ \A x, y \in Published : x # y => f[x] # f[y]
  /\ conf = [n \in Nodes |-> [map |-> Topology(node[n].ex), left |-> FALSE]]
  /\ reg = Published
  /\ nginx = [cur |-> [gen |-> 1, routes |-> Published], old |-> {}, run |-> Published]
  /\ h = NoHandler /\ late = {}
  /\ proc = [p \in Procs |-> Idle]
  /\ acked = Published /\ torn = FALSE /\ faults = 0

Plan(p) ==
  \E e \in Ids : PlanRemove(p, e) \/ \E cmd \in {"create", "defer"} : PlanCreate(p, cmd, e)

Step(p) ==
  \/ HandleCall(p) \/ PlanStale(p) \/ ApplyTunnel(p) \/ SaveNode(p) \/ Observe(p)

Fault(p) == CallFails(p) \/ ApplyTunnelFails(p) \/ SaveNodeFails(p) \/ Kill(p)

Controller ==
  \/ \E r \in Requests : Activate(r) \/ Refuse(r)
  \/ HandlerSave \/ HandlerRollback \/ HandlerCommit

ControllerFault ==
  \/ \E r \in Requests : ActivateFails(r)
  \/ HandlerSaveFails \/ HandlerRollbackFails \/ HandlerCommitFails
  \/ ControllerRestarts

Environment ==
  \/ \E r \in late : HandleLate(r) \/ LoseLate(r)
  \/ \E e \in Ids : Register(e)
  \/ \E n \in Nodes : Disconnect(n) \/ NodeWrite(n)
  \/ OtherWrite

Next ==
  \/ Controller \/ ControllerFault \/ Environment
  \/ \E p \in Procs : Plan(p) \/ Step(p) \/ Fault(p)

Spec == Init /\ [][Next]_vars

-----------------------------------------------------------------------------
(* Properties                                                              *)

TypeOK ==
  /\ gw.ex \in [Ids -> {"absent", "pending", "ready", "disabled"}]
  /\ \A n \in Nodes :
       /\ node[n].ex \in [Ids -> {"absent", "pending", "ready", "disabled"}]
       /\ conf[n].map \subseteq Ids /\ conf[n].left \in BOOLEAN
  /\ port \in [Ids -> Ports \cup {0}]
  /\ reg \subseteq Ids /\ nginx.run \subseteq Ids /\ acked \subseteq Ids
  /\ h.step \in {"none", "save", "rollback", "commit"}
  /\ torn \in BOOLEAN /\ faults \in 0..MaxFaults

(* A public route leads to the node it was published for: no other mapping *)
(* listens on its port, whatever stale mappings nodes still try to         *)
(* register, and the namespace of ports and paths has one owner each.      *)
RouteServesOwner ==
  /\ Valid(gw.ex)
  /\ \A e \in nginx.run, x \in reg : port[x] = port[e] => x = e

(* A route is public only while its node maps it: ingress is published     *)
(* after the mapping was seen running and withdrawn before it is taken     *)
(* away, also when answers are lost or commands killed.                    *)
PublishedIsMapped == \A e \in nginx.run : e \in conf[Owner[e]].map

(* Between publications nginx serves what the gateway's state says is      *)
(* published, unless a restart, a late error of a save or a failed         *)
(* rollback has separated them (nothing reconciles them then).             *)
ServedMatchesState ==
  h = NoHandler /\ ~torn => nginx.run = Ready(gw.ex)

(* Routes, records and mappings fit together.                              *)
RoutesSound ==
  TypeOK /\ RouteServesOwner /\ PublishedIsMapped /\ ServedMatchesState

(* An expose that was reported as created stays public, on record and      *)
(* mapped on both sides, whatever happens to the others, until its own     *)
(* removal is begun.                                                       *)
AckedStaysServed ==
  \A e \in acked :
    /\ gw.ex[e] = "ready" /\ node[Owner[e]].ex[e] = "ready"
    /\ e \in nginx.run /\ e \in conf[Owner[e]].map

(* The port of a removed expose is released only when its route is gone    *)
(* and its node maps it no more, whoever repeats or abandons the removal.  *)
ReleasedIsUnused ==
  [][\A e \in Ids : gw.ex[e] = "disabled" /\ gw'.ex[e] = "absent" =>
       e \notin nginx.run /\ e \notin conf[Owner[e]].map]_vars

=============================================================================
