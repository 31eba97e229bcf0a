--------------------------- MODULE TransportSwitch ---------------------------
(***************************************************************************)
(* Selecting the transport of a joined node: the immediate switch, the     *)
(* deferred switch with its two requests to the gateway, `vpnctl apply`    *)
(* and `vpnctl repair` on the node.                                        *)
(*                                                                         *)
(*   internal/transport/switch_workflow.go, deferred_switch_runtime.go,    *)
(*     switch_intent.go                          make-before-break on host *)
(*   internal/enrollment/node_transport_provider.go, node_replacement.go   *)
(*   internal/cli/transport_system.go, node_transport_system.go            *)
(*   internal/operations/transport_switch_rpc.go, transport_switch_apply.go*)
(*   internal/operations/convergence*.go, apply.go, repair*.go             *)
(*   internal/cli/convergence_apply_system.go, convergence_repair_system.go*)
(*     committed_node_repair.go, join.go                                   *)
(*   internal/controller/transport_switch_mutation.go, mutation.go         *)
(*                                                                         *)
(* One node and its gateway.  Commands on the node are processes of their  *)
(* own; no lock orders a switch, an apply and a repair.                    *)
(***************************************************************************)
EXTENDS Naturals, FiniteSets

CONSTANTS
  Procs,        \* command processes on the node
  Commands,     \* subset of {"switch", "defer", "apply", "repair"}
  FaultKinds,   \* the failures a run injects
  MaxNode,      \* bound on the node's state generation
  MaxOther,     \* other gateway changes happen below this generation
  MaxFaults

AllFaults == {"test", "host", "restore", "save", "publish", "call", "crash"}

ASSUME TransportAssumptions ==
  /\ Commands \subseteq {"switch", "defer", "apply", "repair"}
  /\ FaultKinds \subseteq AllFaults
  /\ MaxNode \in Nat \ {0} /\ MaxOther \in Nat /\ MaxFaults \in Nat

Kinds == {"standard", "restricted"}

(* A configuration of the node's services.  The generated files carry the  *)
(* state generation they were compiled from (node_configuration.go:257),   *)
(* so the same transport at two generations is two configurations.         *)
Config(k, g) == [kind |-> k, gen |-> g]

(* An operation ID is a digest of the intent it was registered with: the   *)
(* two transports, the node's generation and the gateway's as the node     *)
(* last knew it.                                                           *)
Operation(cur, tgt, n, g) == [cur |-> cur, tgt |-> tgt, n |-> n, g |-> g]
NoOp == Operation("none", "none", 0, 0)

VARIABLES
  node,    \* the node's state: generation, selection, gateway generation last
           \*   known, the retained operation and the completed ones
  rt,      \* the configuration installed on the node
  conv,    \* convergence.json: applied and desired manifest, pending operation
  gw,      \* the gateway's state: generation, its view of the node's
           \*   selection, the pending and the completed operations
  recs,    \* idempotency records: request and generation of its result
  late,    \* requests whose caller has given up and that may still arrive
  proc,    \* the commands at work
  manual,  \* an immediate switch has been committed
  dirty,   \* a command was killed, has reported an uncertain outcome, a
           \*   failed restoration or an unpublished repair, or ran beside
           \*   another one; and no repair has succeeded since
  faults

gateway == <<gw, recs>>
vars == <<node, rt, conv, gw, recs, late, proc, manual, dirty, faults>>

NoState == [gen |-> 0, active |-> "none", last |-> 0, pend |-> NoOp,
            done |-> {}]
NoSnap  == [appl |-> Config("none", 0), des |-> Config("none", 0),
            pend |-> NoOp]
Idle == [pc |-> "idle", cmd |-> "none", tgt |-> "none", base |-> NoState,
         snap |-> NoSnap, seen |-> Config("none", 0), exp |-> 0, rcpt |-> 0]

At(p, cmd, pc) == proc[p].cmd = cmd /\ proc[p].pc = pc
To(p, pc) == proc' = [proc EXCEPT ![p].pc = pc]
End(p) == proc' = [proc EXCEPT ![p] = Idle]

Beside(p) == \E q \in Procs \ {p} : proc[q] # Idle

Fails(kind) ==
  /\ kind \in FaultKinds /\ faults < MaxFaults
  /\ faults' = faults + 1

Other(k) == CHOOSE x \in Kinds : x # k

-----------------------------------------------------------------------------
(* What the commands look at                                               *)

(* DeferredSwitchDesiredState accepts the retained operation: the node is  *)
(* still at the generation that mirrored it, on the old transport.         *)
Intended(s) ==
  /\ s.pend # NoOp
  /\ s.gen = s.pend.n + 1 /\ s.active # s.pend.tgt

(* nodeTransportCompilationStates: what is restored is the configuration   *)
(* of the state before the operation was mirrored.                         *)
OldConfig(s) ==
  Config(s.active, IF s.pend = NoOp THEN s.gen ELSE s.pend.n)

NewConfig(p) == Config(proc[p].tgt, proc[p].base.gen + 1)

Clean == conv.des = conv.appl /\ conv.pend = NoOp
Drift == rt # conv.appl

(* groupApplyOperations, validateCurrentNodeTransportApplyAuthority and    *)
(* loadOperation: the pending change in the snapshot is the operation the  *)
(* node retains, or has completed.                                         *)
ApplyPending(s, c) ==
  /\ Intended(s) /\ c.pend = s.pend
  /\ c.appl.gen = s.pend.n
ApplyCompleted(s, c) ==
  /\ c.pend \in s.done
  /\ s.gen = c.pend.n + 2 /\ s.pend = NoOp /\ s.active = c.pend.tgt

(* genericRepairBoundaryEligible                                           *)
GenericRepairEligible(s, c) ==
  /\ c.appl.gen <= s.gen /\ c.des.gen <= s.gen
  /\ c.appl.gen = s.gen \/ c.pend # NoOp \/ s.pend # NoOp

-----------------------------------------------------------------------------
(* Starting a command: the plan that the operator then confirms            *)

Start(p, cmd, tgt) ==
  /\ cmd \in Commands /\ proc[p] = Idle
  /\ proc' = [proc EXCEPT ![p] = [Idle EXCEPT !.pc = "planned", !.cmd = cmd,
                                     !.tgt = tgt, !.base = node,
                                     !.snap = conv, !.seen = rt]]
  /\ dirty' = (dirty \/ Beside(p))
  /\ UNCHANGED <<node, rt, conv, gateway, late, manual, faults>>

PlanSwitch(p) ==
  /\ node.gen + 1 <= MaxNode
  /\ Start(p, "switch", Other(node.active))

PlanDefer(p) ==
  /\ node.pend = NoOp => node.gen + 2 <= MaxNode
  /\ Start(p, "defer", Other(node.active))

(* planCurrent: no plan over drift of a resource the operation changes.    *)
PlanApply(p) ==
  /\ ~Drift
  /\ ApplyPending(node, conv) \/ ApplyCompleted(node, conv)
  /\ Start(p, "apply", conv.pend.tgt)

PlanRepair(p) ==
  /\ Drift \/ ~GenericRepairEligible(node, conv)
  /\ Start(p, "repair", "none")

-----------------------------------------------------------------------------
(* Make before break: the provider runtime, shared by switch and apply     *)

(* The switch starts here, the apply once it knows what the gateway has.   *)
Switching(p, pc) ==
  /\ proc[p].cmd \in {"switch", "apply"}
  /\ proc[p].pc = IF pc = "planned" /\ proc[p].cmd = "apply"
                    THEN "ready" ELSE pc

(* The state is reloaded and compared, the target rendered, prepared and   *)
(* tested beside the old transport; the host is only read.                 *)
Prepare(p) ==
  /\ Switching(p, "planned")
  /\ IF /\ node = proc[p].base
        /\ node.pend # NoOp => Intended(node)
       THEN proc' = [proc EXCEPT ![p].pc = "prepared", ![p].seen = rt]
       ELSE End(p)
  /\ UNCHANGED <<node, rt, conv, gateway, late, manual, dirty, faults>>

TestFails(p) ==
  /\ Switching(p, "planned")
  /\ Fails("test")
  /\ End(p)
  /\ UNCHANGED <<node, rt, conv, gateway, late, manual, dirty>>

(* The prepared plan is refused when the host has changed since.           *)
Activate(p) ==
  /\ Switching(p, "prepared")
  /\ IF rt = proc[p].seen
       THEN rt' = NewConfig(p) /\ To(p, "activated")
       ELSE rt' = rt /\ To(p, "undo")
  /\ UNCHANGED <<node, conv, gateway, late, manual, dirty, faults>>

(* A failure of the host is rolled back by the installer; a failed         *)
(* readiness check leaves the new files in place.                          *)
ActivateFails(p) ==
  /\ Switching(p, "prepared")
  /\ Fails("host")
  /\ rt' \in {rt, NewConfig(p)}
  /\ To(p, "undo")
  /\ UNCHANGED <<node, conv, gateway, late, manual, dirty>>

(* Health of the target, drain of the old transport, steady state.         *)
Verify(p) ==
  /\ Switching(p, "activated")
  /\ To(p, "verified")
  /\ UNCHANGED <<node, rt, conv, gateway, late, manual, dirty, faults>>

VerifyFails(p) ==
  /\ Switching(p, "activated")
  /\ Fails("host")
  /\ To(p, "undo")
  /\ UNCHANGED <<node, rt, conv, gateway, late, manual, dirty>>

(* Variant: the staged candidate is removed, the old one not restored.     *)
CompensateKept(p) ==
  /\ Switching(p, "undo")
  /\ End(p)
  /\ UNCHANGED <<node, rt, conv, gateway, late, manual, dirty, faults>>

Compensate(p) ==
  /\ Switching(p, "undo")
  /\ rt' = OldConfig(proc[p].base)
  /\ End(p)
  /\ UNCHANGED <<node, conv, gateway, late, manual, dirty, faults>>

CompensateFails(p) ==
  /\ Switching(p, "undo")
  /\ Fails("restore")
  /\ rt' \in {rt, OldConfig(proc[p].base)}
  /\ End(p)
  /\ dirty' = TRUE
  /\ UNCHANGED <<node, conv, gateway, late, manual>>

-----------------------------------------------------------------------------
(* The immediate switch commits on the node alone                          *)

Switched(s, t) == [s EXCEPT !.gen = s.gen + 1, !.active = t]

SwitchCommit(p) ==
  /\ At(p, "switch", "verified")
  /\ IF node.gen = proc[p].base.gen
       THEN /\ node' = Switched(proc[p].base, proc[p].tgt)
            /\ manual' = TRUE /\ UNCHANGED dirty
       ELSE /\ dirty' = TRUE          \* neither old nor new: uncertain
            /\ UNCHANGED <<node, manual>>
  /\ End(p)
  /\ UNCHANGED <<rt, conv, gateway, late, faults>>

(* reconcileCommitFailure looks at the file: the new state means uncertain *)
(* and is kept, the old one is compensated.                                *)
SwitchCommitFails(p) ==
  /\ At(p, "switch", "verified")
  /\ Fails("save")
  /\ node' \in {node} \cup {s \in {Switched(proc[p].base, proc[p].tgt)} :
                              node.gen = proc[p].base.gen}
  /\ IF node' = proc[p].base
       THEN To(p, "undo") /\ UNCHANGED dirty
       ELSE End(p) /\ dirty' = TRUE
  /\ manual' = (manual \/ node' # node)
  /\ UNCHANGED <<rt, conv, gateway, late>>

-----------------------------------------------------------------------------
(* The gateway                                                             *)

(* What a process is asking for.  ReconcileDeferred is a finalization that *)
(* names the generation before the registration, so that the gateway       *)
(* answers what it has and executes nothing.                               *)
Waiting == {"registering", "asking", "finalizing", "reasking"}
RequestOf(p) ==
  LET b == proc[p].base IN
  IF proc[p].pc = "registering"
    THEN [act |-> "register", exp |-> b.last,
          id |-> Operation(b.active, proc[p].tgt, b.gen, b.last)]
    ELSE [act |-> "finalize", id |-> b.pend,
          exp |-> IF proc[p].pc = "finalizing" THEN proc[p].exp ELSE b.pend.g]

Refused(kind) == [gw |-> gw, recs |-> recs, kind |-> kind, gen |-> 0]
Answered(g)   == [gw |-> gw, recs |-> recs, kind |-> "ok", gen |-> g]
Stored(r, new) ==
  [gw |-> new, recs |-> recs \cup {[req |-> r, gen |-> new.gen]},
   kind |-> "ok", gen |-> new.gen]

(* Variant: the registration selects the target at once.                   *)
DispatchRegistrationSelecting(r) ==
  IF gw.active = r.id.cur /\ gw.pend = {}
    THEN Stored(r, [gw EXCEPT !.gen = @ + 1, !.pend = {r.id},
                              !.active = r.id.tgt])
    ELSE Refused("stale")

(* dispatchRegistration: one operation of a node at a time, from the       *)
(* transport the gateway has on record.                                    *)
DispatchRegistration(r) ==
  IF gw.active = r.id.cur /\ gw.pend = {}
    THEN Stored(r, [gw EXCEPT !.gen = @ + 1, !.pend = {r.id}])
    ELSE Refused("stale")

DispatchFinalization(r) ==
  IF gw.active = r.id.cur /\ r.id \in gw.pend
    THEN Stored(r, [gen |-> gw.gen + 1, active |-> r.id.tgt,
                    pend |-> gw.pend \ {r.id}, comp |-> gw.comp \cup {r.id}])
    ELSE Refused("stale")

ReconcileRegistration(r) ==
  IF r.id \in gw.pend \cup gw.comp THEN Answered(r.id.g + 1)
                                  ELSE Refused("stale")

(* A pending operation is "not proven", a missing one and one whose        *)
(* selection has been undone are errors.                                   *)
ReconcileFinalization(r) ==
  IF r.id \in gw.pend THEN Refused("stale")
  ELSE IF r.id \in gw.comp /\ gw.active = r.id.tgt THEN Answered(gw.gen)
  ELSE Refused("error")

(* NodeMutationHandler.Handle, under the controller's mutation lock.       *)
Outcome(r) ==
  IF \E x \in recs : x.req = r
    THEN Answered((CHOOSE x \in recs : x.req = r).gen)
  ELSE IF r.exp > gw.gen THEN Refused("stale")
  ELSE CASE r.act = "register" /\ r.exp < gw.gen -> ReconcileRegistration(r)
         [] r.act = "finalize" /\ r.exp < gw.gen -> ReconcileFinalization(r)
         [] r.act = "register" /\ r.exp = gw.gen -> DispatchRegistration(r)
         [] r.act = "finalize" /\ r.exp = gw.gen -> DispatchFinalization(r)

(* Variant: an unanswered question about the outcome counts as committed.  *)
ReceiveHopeful(p, kind, g) ==
  LET pc == proc[p].pc IN
  /\ CASE kind = "ok" ->
            proc' = [proc EXCEPT ![p].rcpt = g,
                       ![p].pc = CASE pc = "registering" -> "mirror"
                                   [] pc = "asking"      -> "ready"
                                   [] OTHER              -> "commit"]
       [] kind # "ok" /\ pc = "finalizing" -> To(p, "reasking")
       [] kind = "error" /\ pc = "reasking" -> To(p, "commit")
       [] kind = "stale" /\ pc = "asking" -> To(p, "observe")
       [] kind = "stale" /\ pc = "reasking" -> To(p, "rollback")
       [] OTHER -> End(p)
  /\ dirty' = (dirty \/ (kind = "error" /\ pc = "reasking"))

(* Variant: an operation the gateway has not completed ends the apply.     *)
ReceiveFinal(p, kind, g) ==
  LET pc == proc[p].pc IN
  /\ CASE kind = "ok" ->
            proc' = [proc EXCEPT ![p].rcpt = g,
                       ![p].pc = CASE pc = "registering" -> "mirror"
                                   [] pc = "asking"      -> "ready"
                                   [] OTHER              -> "commit"]
       [] kind # "ok" /\ pc = "finalizing" -> To(p, "reasking")
       [] kind = "stale" /\ pc = "reasking" -> To(p, "rollback")
       [] OTHER -> End(p)
  /\ dirty' = (dirty \/ (kind = "error" /\ pc = "reasking"))

(* What the command does with the answer.  An error of the second question *)
(* leaves the outcome unknown: the target stays active.                    *)
Receive(p, kind, g) ==
  LET pc == proc[p].pc IN
  /\ CASE kind = "ok" ->
            proc' = [proc EXCEPT ![p].rcpt = g,
                       ![p].pc = CASE pc = "registering" -> "mirror"
                                   [] pc = "asking"      -> "ready"
                                   [] OTHER              -> "commit"]
       [] kind # "ok" /\ pc = "finalizing" -> To(p, "reasking")
       [] kind = "stale" /\ pc = "asking" -> To(p, "observe")
       [] kind = "stale" /\ pc = "reasking" -> To(p, "rollback")
       [] OTHER -> End(p)
  /\ dirty' = (dirty \/ (kind = "error" /\ pc = "reasking"))

HandleCall(p) ==
  /\ proc[p].pc \in Waiting
  /\ LET o == Outcome(RequestOf(p)) IN
     /\ gw' = o.gw /\ recs' = o.recs
     /\ Receive(p, o.kind, o.gen)
  /\ UNCHANGED <<node, rt, conv, late, manual, faults>>

(* The outage that took the finalization lasts: no new failure.            *)
Outage(p) ==
  /\ proc[p].pc = "reasking"
  /\ [act |-> "finalize", id |-> proc[p].base.pend, exp |-> proc[p].exp] \in late

(* The call times out, its answer is lost, or the gateway cannot tell      *)
(* whether its save took effect: the request may still be executed.        *)
CallFails(p) ==
  /\ proc[p].pc \in Waiting
  /\ Fails("call") \/ (Outage(p) /\ UNCHANGED faults)
  /\ late' = late \cup {RequestOf(p)}
  /\ Receive(p, "error", 0)
  /\ UNCHANGED <<node, rt, conv, gateway, manual>>

HandleLate(r) ==
  /\ r \in late
  /\ gw' = Outcome(r).gw /\ recs' = Outcome(r).recs
  /\ late' = late \ {r}
  /\ UNCHANGED <<node, rt, conv, proc, manual, dirty, faults>>

LoseLate(r) ==
  /\ r \in late
  /\ late' = late \ {r}
  /\ UNCHANGED <<node, rt, conv, gateway, proc, manual, dirty, faults>>

(* The history is bounded in number and age.                               *)
EvictRecord(x) ==
  /\ x \in recs
  /\ recs' = recs \ {x}
  /\ UNCHANGED <<node, rt, conv, gw, late, proc, manual, dirty, faults>>

(* Clients, exposes, other nodes: the gateway's generation moves on.       *)
OtherMutation ==
  /\ gw.gen < MaxOther
  /\ gw' = [gw EXCEPT !.gen = @ + 1]
  /\ UNCHANGED <<node, rt, conv, recs, late, proc, manual, dirty, faults>>

-----------------------------------------------------------------------------
(* Deferring a switch: register on the gateway, mirror on the node,        *)
(* publish as desired                                                      *)

(* An operation the node already retains is not registered again, only its *)
(* publication is.                                                         *)
DeferBegin(p) ==
  /\ At(p, "defer", "planned")
  /\ LET fresh == node.gen = proc[p].base.gen /\ node.active # proc[p].tgt
         held  == /\ node.pend.tgt = proc[p].tgt
                  /\ node.pend.n + 1 = node.gen /\ node.pend.g + 1 = node.last
     IN IF fresh /\ node.pend = NoOp THEN To(p, "registering")
        ELSE IF fresh /\ held THEN To(p, "publish")
        ELSE End(p)
  /\ UNCHANGED <<node, rt, conv, gateway, late, manual, dirty, faults>>

Mirrored(p) ==
  LET b == proc[p].base IN
  [b EXCEPT !.gen = @ + 1,
            !.pend = Operation(b.active, proc[p].tgt, b.gen, b.last),
            !.last = IF proc[p].rcpt > @ THEN proc[p].rcpt ELSE @]

MirrorIntent(p) ==
  /\ At(p, "defer", "mirror")
  /\ IF node.gen = proc[p].base.gen
       THEN /\ node' = Mirrored(p)
            /\ proc' = [proc EXCEPT ![p].pc = "publish", ![p].base = node']
       ELSE node' = node /\ End(p)
  /\ UNCHANGED <<rt, conv, gateway, late, manual, dirty, faults>>

(* Registered on the gateway, perhaps not on the node: "uncertain".        *)
MirrorFails(p) ==
  /\ At(p, "defer", "mirror")
  /\ Fails("save")
  /\ node' \in {node} \cup {s \in {Mirrored(p)} : node.gen = proc[p].base.gen}
  /\ End(p)
  /\ UNCHANGED <<rt, conv, gateway, late, manual, dirty>>

(* PublishDesired: the applied baseline is the generation the operation    *)
(* starts from, with nothing else pending.                                 *)
PublishDesired(p) ==
  /\ At(p, "defer", "publish")
  /\ LET id == proc[p].base.pend
         new == [appl |-> conv.appl, des |-> Config(id.tgt, id.n + 2),
                 pend |-> id]
     IN conv' = IF /\ node = proc[p].base /\ Intended(node)
                   /\ conv.appl.gen = id.n /\ Clean
                  THEN new ELSE conv
  /\ End(p)
  /\ UNCHANGED <<node, rt, gateway, late, manual, dirty, faults>>

PublishDesiredFails(p) ==
  /\ At(p, "defer", "publish")
  /\ Fails("publish")
  /\ End(p)
  /\ UNCHANGED <<node, rt, conv, gateway, late, manual, dirty>>

-----------------------------------------------------------------------------
(* vpnctl apply                                                            *)

(* The plan is made again before it is executed.                           *)
ApplyBegin(p) ==
  /\ At(p, "apply", "planned")
  /\ IF node = proc[p].base /\ conv = proc[p].snap /\ ~Drift
       THEN To(p, IF ApplyCompleted(node, conv) THEN "promote" ELSE "asking")
       ELSE End(p)
  /\ UNCHANGED <<node, rt, conv, gateway, late, manual, dirty, faults>>

(* The freshness check: the generation the finalization will name.         *)
ObserveGeneration(p) ==
  /\ At(p, "apply", "observe")
  /\ proc' = [proc EXCEPT ![p].exp = gw.gen, ![p].pc = "ready"]
  /\ UNCHANGED <<node, rt, conv, gateway, late, manual, dirty, faults>>

ObserveFails(p) ==
  /\ At(p, "apply", "observe")
  /\ Fails("call")
  /\ End(p)
  /\ UNCHANGED <<node, rt, conv, gateway, late, manual, dirty>>

(* The target runs; nothing is committed on either side unless the gateway *)
(* had been found complete.                                                *)
ApplyActivated(p) ==
  /\ At(p, "apply", "verified")
  /\ To(p, IF node # proc[p].base THEN "rollback"
           ELSE IF proc[p].rcpt # 0 THEN "commit" ELSE "finalizing")
  /\ UNCHANGED <<node, rt, conv, gateway, late, manual, dirty, faults>>

(* The same make-before-break workflow, backwards.                         *)
ApplyRollback(p) ==
  /\ At(p, "apply", "rollback")
  /\ rt' = OldConfig(proc[p].base)
  /\ End(p)
  /\ UNCHANGED <<node, conv, gateway, late, manual, dirty, faults>>

ApplyRollbackFails(p) ==
  /\ At(p, "apply", "rollback")
  /\ Fails("restore")
  /\ rt' \in {rt, OldConfig(proc[p].base)}
  /\ End(p)
  /\ dirty' = TRUE
  /\ UNCHANGED <<node, conv, gateway, late, manual>>

Finalized(p) ==
  LET b == proc[p].base IN
  [gen |-> b.gen + 1, active |-> b.pend.tgt, last |-> proc[p].rcpt,
   pend |-> NoOp, done |-> b.done \cup {b.pend}]

(* commitNodeState: a save that failed is read back and repeated once.     *)
ApplyCommit(p) ==
  /\ At(p, "apply", "commit")
  /\ IF node.gen = proc[p].base.gen
       THEN /\ node' = Finalized(p)
            /\ To(p, "promote") /\ UNCHANGED dirty
       ELSE End(p) /\ dirty' = TRUE /\ UNCHANGED node
  /\ UNCHANGED <<rt, conv, gateway, late, manual, faults>>

ApplyCommitFails(p) ==
  /\ At(p, "apply", "commit")
  /\ Fails("save")
  /\ End(p)
  /\ dirty' = TRUE
  /\ UNCHANGED <<node, rt, conv, gateway, late, manual>>

PromoteConvergence(p) ==
  /\ At(p, "apply", "promote")
  /\ LET id == proc[p].snap.pend IN
     IF conv.pend = id /\ conv.appl.gen = id.n
       THEN /\ conv' = [appl |-> conv.des, des |-> conv.des, pend |-> NoOp]
            /\ UNCHANGED dirty
       ELSE /\ dirty' = (dirty \/ ~(Clean /\ conv.appl.gen = id.n + 2))
            /\ UNCHANGED conv
  /\ End(p)
  /\ UNCHANGED <<node, rt, gateway, late, manual, faults>>

PromoteFails(p) ==
  /\ At(p, "apply", "promote")
  /\ Fails("publish")
  /\ End(p)
  /\ dirty' = TRUE
  /\ UNCHANGED <<node, rt, conv, gateway, late, manual>>

-----------------------------------------------------------------------------
(* vpnctl repair                                                           *)

Unchanged(p) ==
  node = proc[p].base /\ conv = proc[p].snap /\ rt = proc[p].seen

(* Back to the applied baseline, from its archived material.               *)
RepairBaseline(p) ==
  /\ At(p, "repair", "planned")
  /\ GenericRepairEligible(proc[p].base, proc[p].snap)
  /\ IF Unchanged(p)
       THEN /\ rt' = conv.appl
            /\ dirty' = (dirty /\ (conv.appl.gen # node.gen \/ Beside(p)))
       ELSE UNCHANGED <<rt, dirty>>
  /\ End(p)
  /\ UNCHANGED <<node, conv, gateway, late, manual, faults>>

(* Otherwise the committed state is compiled and installed.                *)
RepairCommitted(p) ==
  /\ At(p, "repair", "planned")
  /\ ~GenericRepairEligible(proc[p].base, proc[p].snap)
  /\ IF node.gen = proc[p].base.gen
       THEN rt' = Config(node.active, node.gen) /\ To(p, "publish")
       ELSE rt' = rt /\ End(p)
  /\ UNCHANGED <<node, conv, gateway, late, manual, dirty, faults>>

(* The repair of drift is rolled back by the installer; the committed one  *)
(* leaves its new files.                                                   *)
RepairFails(p) ==
  /\ At(p, "repair", "planned")
  /\ Fails("host")
  /\ rt' \in {rt} \cup {c \in {Config(node.active, node.gen)} :
                           /\ node.gen = proc[p].base.gen
                           /\ ~GenericRepairEligible(proc[p].base, proc[p].snap)}
  /\ End(p)
  /\ dirty' = (dirty \/ rt' # rt)
  /\ UNCHANGED <<node, conv, gateway, late, manual>>

(* PublishActiveNodeGeneration moves a clean baseline one generation.      *)
RepairPublish(p) ==
  /\ At(p, "repair", "publish")
  /\ LET c == Config(proc[p].base.active, proc[p].base.gen)
         new == [appl |-> c, des |-> c, pend |-> NoOp]
     IN IF conv = new \/ (Clean /\ conv.appl.gen + 1 = c.gen)
          THEN conv' = new /\ dirty' = (dirty /\ (rt # c \/ c.gen # node.gen \/ Beside(p)))
          ELSE conv' = conv /\ dirty' = TRUE
  /\ End(p)
  /\ UNCHANGED <<node, rt, gateway, late, manual, faults>>

RepairPublishFails(p) ==
  /\ At(p, "repair", "publish")
  /\ Fails("publish")
  /\ End(p)
  /\ dirty' = TRUE
  /\ UNCHANGED <<node, rt, conv, gateway, late, manual>>

-----------------------------------------------------------------------------

(* A command is killed.                                                    *)
Crash(p) ==
  /\ proc[p] # Idle
  /\ Fails("crash")
  /\ End(p)
  /\ dirty' = TRUE
  /\ UNCHANGED <<node, rt, conv, gateway, late, manual>>

(* A node that has joined and whose convergence baseline is the generation *)
(* of its state.                                                           *)
Init ==
  /\ node = [NoState EXCEPT !.gen = 1, !.active = "standard", !.last = 1]
  /\ rt = Config("standard", 1)
  /\ conv = [appl |-> rt, des |-> rt, pend |-> NoOp]
  /\ gw = [gen |-> 1, active |-> "standard", pend |-> {}, comp |-> {}]
  /\ recs = {} /\ late = {}
  /\ proc = [p \in Procs |-> Idle]
  /\ manual = FALSE /\ dirty = FALSE /\ faults = 0

Plan(p) == PlanSwitch(p) \/ PlanDefer(p) \/ PlanApply(p) \/ PlanRepair(p)

Step(p) ==
  \/ Prepare(p) \/ Activate(p) \/ Verify(p) \/ Compensate(p)
  \/ SwitchCommit(p) \/ HandleCall(p)
  \/ DeferBegin(p) \/ MirrorIntent(p) \/ PublishDesired(p)
  \/ ApplyBegin(p) \/ ObserveGeneration(p) \/ ApplyActivated(p)
  \/ ApplyRollback(p) \/ ApplyCommit(p) \/ PromoteConvergence(p)
  \/ RepairBaseline(p) \/ RepairCommitted(p) \/ RepairPublish(p)

Fault(p) ==
  \/ TestFails(p) \/ ActivateFails(p) \/ VerifyFails(p) \/ CompensateFails(p)
  \/ SwitchCommitFails(p) \/ CallFails(p) \/ MirrorFails(p)
  \/ PublishDesiredFails(p) \/ ObserveFails(p) \/ ApplyRollbackFails(p)
  \/ ApplyCommitFails(p) \/ PromoteFails(p) \/ RepairFails(p)
  \/ RepairPublishFails(p) \/ Crash(p)

Network ==
  \/ \E r \in late : HandleLate(r) \/ LoseLate(r)
  \/ \E x \in recs : EvictRecord(x)
  \/ OtherMutation

Next == Network \/ \E p \in Procs : Plan(p) \/ Step(p) \/ Fault(p)

Spec == Init /\ [][Next]_vars

(* A command that has been started runs on; an operator who sees a pending *)
(* operation repeats the deferral and the apply, and repairs drift.        *)
FairSpec ==
  /\ Spec
  /\ \A p \in Procs : WF_vars(Step(p))
  /\ SF_vars(\E p \in Procs : PlanApply(p))
  /\ SF_vars(node.pend # NoOp /\ \E p \in Procs : PlanDefer(p))
  /\ SF_vars(Drift /\ \E p \in Procs : PlanRepair(p))

-----------------------------------------------------------------------------
(* Properties                                                              *)

Ids == [cur : Kinds, tgt : Kinds, n : 1..MaxNode, g : Nat \ {0}]

TypeOK ==
  /\ node.gen \in 1..MaxNode /\ node.active \in Kinds
  /\ node.pend \in Ids \cup {NoOp} /\ node.done \subseteq Ids
  /\ rt.kind \in Kinds /\ rt.gen \in 1..MaxNode
  /\ conv.appl.kind \in Kinds /\ conv.des.kind \in Kinds
  /\ gw.active \in Kinds /\ gw.pend \cup gw.comp \subseteq Ids
  /\ \A p \in Procs : proc[p] = Idle \/ proc[p].cmd \in Commands
  /\ manual \in BOOLEAN /\ dirty \in BOOLEAN /\ faults \in 0..MaxFaults

(* What the node has completed the gateway has completed, and what the     *)
(* node retains the gateway has registered: whatever calls were lost,      *)
(* repeated or late, the node never runs ahead of the authority.           *)
NodeFollowsGateway ==
  /\ node.done \subseteq gw.comp
  /\ node.pend # NoOp => node.pend \in gw.pend \cup gw.comp

(* Without an immediate switch (which the gateway is not told of) a node   *)
(* with nothing pending agrees with the gateway on the transport.          *)
SettledMeansAgreed ==
  node.pend = NoOp /\ ~manual => node.active = gw.active

(* The two sides of a switch stay in step.                                 *)
NodeAgrees == TypeOK /\ NodeFollowsGateway /\ SettledMeansAgreed

(* When no command is at work and none has been killed, lost its outcome   *)
(* or run beside another, the transport that runs is the one on record.    *)
(* An operation that an immediate switch overtook, or that was registered  *)
(* over an older baseline, can never be published; a repair then restores  *)
(* that older baseline (README, section 4).                                *)
Orphaned ==
  node.pend # NoOp /\ ~(Intended(node) /\ conv.appl.gen = node.pend.n)
Quiet == ~dirty /\ ~Orphaned /\ \A p \in Procs : proc[p] = Idle
RuntimeAsRecorded == Quiet => rt.kind = node.active

(* A convergence baseline at the node's generation is what is installed.   *)
BaselineMeansInstalled ==
  Quiet /\ conv.appl.gen = node.gen => rt = conv.appl

(* What runs, what the node's state says and what the baseline says agree. *)
RunsAsRecorded == RuntimeAsRecorded /\ BaselineMeansInstalled

(* The node never runs ahead of the gateway's selection, and it runs what  *)
(* it has on record.                                                       *)
NodeSound == NodeAgrees /\ RunsAsRecorded

(* The gateway's selection changes only to the target of the operation     *)
(* that the node retains, even by a request nobody waits for any more.     *)
SelectionFollowsIntent ==
  [][gw'.active # gw.active => node.pend # NoOp /\ gw'.active = node.pend.tgt]_vars

(* A registered switch is applied in the end if its outcome was never left *)
(* uncertain and no immediate switch came in between.                      *)
RegisteredIsApplied ==
  node.pend # NoOp ~> node.pend = NoOp \/ dirty \/ manual

(* What the CLI and the specification say of a retained switch: retrying   *)
(* apply, with repair for drift, brings it to its end.  It does not        *)
(* (README, section 4), so no run lists it.                                *)
RetryApplies == node.pend # NoOp ~> node.pend = NoOp

=============================================================================
