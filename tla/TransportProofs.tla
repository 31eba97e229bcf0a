--------------------------- MODULE TransportProofs ---------------------------
(***************************************************************************)
(* Selecting a node's transport, for any number of commands side by side,  *)
(* any failures, kills, late and lost requests: the node never runs ahead  *)
(* of the gateway, the gateway selects only what the node intends, and     *)
(* what runs on the node is what its state and its baseline record.        *)
(***************************************************************************)
EXTENDS TransportSwitch, TLAPS

(* Types.                                                                  *)
Transports == Kinds \cup {"none"}
Ops == [cur : Transports, tgt : Transports, n : Nat, g : Nat]
Configs == [kind : Transports, gen : Nat]
NodeStates == [gen : Nat, active : Transports, last : Nat, pend : Ops,
               done : SUBSET Ops]
Snapshots == [appl : Configs, des : Configs, pend : Ops]
Gateways == [gen : Nat, active : Transports, pend : SUBSET Ops,
             comp : SUBSET Ops]
Requests == [act : {"register", "finalize"}, id : Ops, exp : Nat]
Results == [req : Requests, gen : Nat]

SwitchPCs == {"planned", "prepared", "activated", "verified", "undo"}
DeferPCs == {"planned", "registering", "mirror", "publish"}
ApplyPCs == {"planned", "asking", "observe", "ready", "prepared", "activated",
             "verified", "undo", "rollback", "finalizing", "reasking", "commit",
             "promote"}
RepairPCs == {"planned", "publish"}
PCs == {"idle"} \cup SwitchPCs \cup DeferPCs \cup ApplyPCs \cup RepairPCs
Works == [pc : PCs, cmd : {"none", "switch", "defer", "apply", "repair"},
          tgt : Transports, base : NodeStates, snap : Snapshots,
          seen : Configs, exp : Nat, rcpt : Nat]

Types ==
  /\ node \in NodeStates /\ rt \in Configs /\ conv \in Snapshots
  /\ gw \in Gateways /\ recs \subseteq Results /\ late \subseteq Requests
  /\ proc \in [Procs -> Works]
  /\ manual \in BOOLEAN /\ dirty \in BOOLEAN /\ faults \in 0..MaxFaults

-----------------------------------------------------------------------------
(* An operation that some node state may have been given.                  *)
Real(id) == id \in Ids /\ id.cur # id.tgt /\ id.n + 2 <= MaxNode

(* A state the node may have been in.                                      *)
Proper(s) ==
  /\ s.gen \in 1..MaxNode /\ s.active \in Kinds /\ s.last >= 1
  /\ s.pend # NoOp => Real(s.pend) /\ s.pend.n < s.gen
  /\ \A id \in s.done : Real(id) /\ id.n + 2 <= s.gen

(* Generation g ran transport k, as far as the node's state can tell.      *)
Known(g, k) ==
  /\ g <= node.gen
  /\ g = node.gen => k = node.active
  /\ node.pend # NoOp /\ g = node.pend.n => k = node.pend.cur

(* A state that a command has read, seen from the node's state now.        *)
Mirrors(id) == id = node.pend \/ id \in node.done
Earlier(s) ==
  /\ Proper(s) /\ Known(s.gen, s.active)
  /\ s.gen = node.gen => s = node
  /\ s.done \subseteq node.done
  /\ s.pend # NoOp => Mirrors(s.pend)

NodeInv == Proper(node) /\ \A id \in node.done : Known(id.n + 2, id.tgt)

(* The node and the gateway.                                               *)
Registered == gw.pend \cup gw.comp
GatewayInv ==
  /\ gw.gen >= 1 /\ gw.active \in Kinds
  /\ \A id \in Registered : Real(id) /\ id.g < gw.gen
  /\ gw.pend \cap gw.comp = {}
AgreeInv ==
  /\ NodeFollowsGateway /\ SettledMeansAgreed
  /\ \A id \in gw.comp : Mirrors(id)
  /\ node.pend # NoOp /\ node.pend \in gw.comp => gw.active = node.pend.tgt
Sendable(r) ==
  /\ Real(r.id)
  /\ r.act = "register" => r.exp = r.id.g
  /\ r.act = "finalize" => Mirrors(r.id)
MessageInv ==
  /\ \A r \in late : Sendable(r)
  /\ \A x \in recs :
       /\ x.gen >= 1
       /\ x.req.id \in Registered
       /\ x.req.act = "finalize" => x.req.id \in gw.comp

(* A command at work: where it is, what it has read, what it has been told.*)
Intent(w) == Operation(w.base.active, w.tgt, w.base.gen, w.base.last)
SwitchShape(w) ==
  w.pc \in SwitchPCs /\ w.tgt = Other(w.base.active) /\ w.base.gen < MaxNode
DeferShape(w) ==
  /\ w.pc \in DeferPCs /\ w.tgt = Other(w.base.active)
  /\ w.base.pend = NoOp => w.base.gen + 2 <= MaxNode
  /\ w.pc \in {"registering", "mirror"} => w.base.pend = NoOp
  /\ w.pc = "mirror" => Intent(w) \in Registered
ApplyShape(w) ==
  /\ w.pc \in ApplyPCs /\ w.tgt = w.snap.pend.tgt /\ w.snap.pend # NoOp
  /\ w.pc \notin {"planned", "promote"} => ApplyPending(w.base, w.snap)
  /\ w.pc = "planned" =>
       ApplyPending(w.base, w.snap) \/ ApplyCompleted(w.base, w.snap)
  /\ w.pc = "promote" => w.snap.pend \in node.done
  /\ w.pc # "promote" /\ w.rcpt # 0 => w.base.pend \in gw.comp
  /\ w.pc = "planned" => w.rcpt = 0
  /\ w.pc = "commit" => w.rcpt # 0
Shape(w) ==
  /\ w.cmd \in Commands /\ Earlier(w.base)
  /\ w.cmd = "switch" => SwitchShape(w)
  /\ w.cmd = "defer" => DeferShape(w)
  /\ w.cmd = "apply" => ApplyShape(w)
  /\ w.cmd = "repair" => w.pc \in RepairPCs
ProcInv == \A p \in Procs : proc[p] # Idle => Shape(proc[p])

(* The convergence snapshot and the installed configuration.               *)
ConvInv ==
  /\ conv.appl.kind \in Kinds /\ conv.appl.gen >= 1
  /\ Known(conv.appl.gen, conv.appl.kind)
  /\ IF conv.pend = NoOp THEN conv.des = conv.appl
     ELSE /\ Real(conv.pend) /\ conv.pend.n < node.gen
          /\ conv.appl = Config(conv.pend.cur, conv.pend.n)
          /\ conv.des = Config(conv.pend.tgt, conv.pend.n + 2)
RtInv == rt.kind \in Kinds /\ rt.gen \in 1..MaxNode

StaticInv ==
  /\ Types /\ NodeInv /\ GatewayInv /\ AgreeInv /\ MessageInv /\ ProcInv
  /\ ConvInv /\ RtInv

-----------------------------------------------------------------------------
(* What is known while nobody was told otherwise: commands run one at a    *)
(* time, each on the state it has read, and what it has done to the host   *)
(* follows from where it is.                                               *)
OneCommand ==
  \A p, q \in Procs : proc[p] # Idle /\ proc[q] # Idle => p = q
Promoting(w) == w.cmd = "apply" /\ w.pc = "promote"
OnTarget == {"activated", "verified", "finalizing", "reasking", "commit"}
Moved(w) == w.pc \in OnTarget \cup {"undo", "rollback"}
Recorded ==
  ~Orphaned => /\ rt.kind = node.active
               /\ conv.appl.gen = node.gen => rt = conv.appl
Target(w) == Config(w.tgt, w.base.gen + 1)
Current == Config(node.active, node.gen)
Working(w) ==
  /\ ~Promoting(w) => w.base = node
  /\ w.pc \in OnTarget => rt = Target(w)
  /\ w.cmd = "repair" /\ w.pc = "publish" => rt = Current
  /\ Promoting(w) =>
       /\ node.pend = NoOp /\ Current = Config(w.snap.pend.tgt, w.snap.pend.n + 2)
       /\ conv.pend = w.snap.pend => rt = Current
SettledInv ==
  ~dirty =>
    /\ OneCommand
    /\ \A p \in Procs : proc[p] # Idle => Working(proc[p])
    /\ (\A p \in Procs : ~Moved(proc[p])) => Recorded
    /\ (\A p \in Procs : ~Promoting(proc[p])) => conv.pend \in {NoOp, node.pend}

TransportInv == StaticInv /\ SettledInv

-----------------------------------------------------------------------------
(* Values and moves.                                                       *)

(* Of two transports, the other one.                                       *)
LEMMA OtherFacts ==
  ASSUME NEW k \in Kinds
  PROVE  Other(k) \in Kinds /\ Other(k) # k
<1>1. \E x \in Kinds : x # k
  BY DEF Kinds
<1> QED
  BY <1>1 DEF Other

(* The neutral values are typed, and nothing real is neutral.              *)
LEMMA Neutral ==
  /\ NoOp \in Ops /\ NoState \in NodeStates /\ NoSnap \in Snapshots
  /\ Idle \in Works
  /\ Idle.pc = "idle" /\ Idle.cmd = "none" /\ Idle.rcpt = 0
  /\ \A id : Real(id) => id \in Ops /\ id # NoOp
<1>1. NoOp \in Ops
  BY DEF NoOp, Operation, Ops, Transports
<1>2. NoState \in NodeStates
  BY <1>1 DEF NoState, NodeStates, Transports
<1>3. NoSnap \in Snapshots
  BY <1>1 DEF NoSnap, Snapshots, Config, Configs, Transports
<1>4. Idle \in Works
  BY <1>2, <1>3 DEF Idle, Works, PCs, Config, Configs, Transports
<1>5. Idle.pc = "idle" /\ Idle.cmd = "none" /\ Idle.rcpt = 0
  BY DEF Idle
<1>6. ASSUME NEW id, Real(id)
      PROVE  id \in Ops /\ id # NoOp
  BY <1>6, TransportAssumptions DEF Real, Ids, Ops, NoOp, Operation, Transports, Kinds
<1> QED
  BY <1>1, <1>2, <1>3, <1>4, <1>5, <1>6

(* A command at work has a step, one of its kind's.                        *)
LEMMA AtWork ==
  ASSUME StaticInv, NEW p \in Procs, proc[p] # Idle
  PROVE  Shape(proc[p]) /\ proc[p] \in Works /\ proc[p].pc # "idle"
<1>1. Shape(proc[p]) /\ proc[p] \in Works
  BY DEF StaticInv, ProcInv, Types
<1>2. proc[p].cmd \in {"switch", "defer", "apply", "repair"}
  BY <1>1, TransportAssumptions DEF Shape
<1> QED
  BY <1>1, <1>2 DEF Shape, SwitchShape, DeferShape, ApplyShape, SwitchPCs,
     DeferPCs, ApplyPCs, RepairPCs

(* Going to another step changes the step alone.                           *)
LEMMA GoFacts ==
  ASSUME proc \in [Procs -> Works], NEW p \in Procs, NEW x \in PCs \ {"idle"},
         To(p, x)
  PROVE  /\ proc' \in [Procs -> Works]
         /\ \A q \in Procs \ {p} : proc'[q] = proc[q]
         /\ proc'[p].pc = x /\ proc'[p].cmd = proc[p].cmd
         /\ proc'[p].tgt = proc[p].tgt /\ proc'[p].base = proc[p].base
         /\ proc'[p].snap = proc[p].snap /\ proc'[p].exp = proc[p].exp
         /\ proc'[p].rcpt = proc[p].rcpt /\ proc'[p].seen = proc[p].seen
         /\ proc'[p] # Idle
<1>1. /\ proc' \in [Procs -> Works]
      /\ \A q \in Procs \ {p} : proc'[q] = proc[q]
      /\ proc'[p].pc = x /\ proc'[p].cmd = proc[p].cmd
      /\ proc'[p].tgt = proc[p].tgt /\ proc'[p].base = proc[p].base
      /\ proc'[p].snap = proc[p].snap /\ proc'[p].exp = proc[p].exp
      /\ proc'[p].rcpt = proc[p].rcpt /\ proc'[p].seen = proc[p].seen
  BY DEF To, Works
<1> QED
  BY <1>1, Neutral

(* Ending a command leaves the others alone.                               *)
LEMMA EndFacts ==
  ASSUME proc \in [Procs -> Works], NEW p \in Procs, End(p)
  PROVE  /\ proc' \in [Procs -> Works] /\ proc'[p] = Idle
         /\ \A q \in Procs \ {p} : proc'[q] = proc[q]
BY Neutral DEF End

(* A failure that is injected is counted.                                  *)
LEMMA FailsFacts ==
  ASSUME faults \in 0..MaxFaults, NEW k, Fails(k)
  PROVE  faults' \in 0..MaxFaults
BY TransportAssumptions DEF Fails

(* What a command will install, and what it puts back, are configurations  *)
(* of generations the node may have.                                       *)
LEMMA Restores ==
  ASSUME NEW s \in NodeStates, Proper(s)
  PROVE  /\ OldConfig(s) \in Configs /\ OldConfig(s).kind = s.active
         /\ OldConfig(s).kind \in Kinds /\ OldConfig(s).gen \in 1..MaxNode
         /\ OldConfig(s).gen = IF s.pend = NoOp THEN s.gen ELSE s.pend.n
<1>1. s.pend # NoOp => s.pend.n \in 1..MaxNode
  BY DEF Proper, Real, Ids
<1>2. s.gen \in 1..MaxNode /\ s.active \in Kinds
  BY DEF Proper
<1> QED
  BY <1>1, <1>2, TransportAssumptions DEF OldConfig, Config, Configs, Transports

(* The target that a switch or an apply installs.                          *)
LEMMA Installs ==
  ASSUME StaticInv, NEW p \in Procs, proc[p] # Idle,
         \/ proc[p].cmd = "switch"
         \/ proc[p].cmd = "apply" /\ proc[p].pc \notin {"planned", "promote"}
  PROVE  /\ NewConfig(p) = Target(proc[p]) /\ NewConfig(p) \in Configs
         /\ NewConfig(p).kind \in Kinds /\ NewConfig(p).gen \in 1..MaxNode
<1>1. Shape(proc[p]) /\ proc[p] \in Works
  BY AtWork
<1>2. Proper(proc[p].base) /\ proc[p].base \in NodeStates
  BY <1>1 DEF Shape, Earlier, Works
<1>3. proc[p].base.gen + 1 \in 1..MaxNode
  <2>1. proc[p].base.gen \in 1..MaxNode
    BY <1>2 DEF Proper
  <2>2. CASE proc[p].cmd = "switch"
    BY <1>1, <2>1, <2>2, TransportAssumptions DEF Shape, SwitchShape
  <2>3. CASE proc[p].cmd = "apply"
    <3>1. ApplyPending(proc[p].base, proc[p].snap)
      BY <1>1, <2>3 DEF Shape, ApplyShape
    <3>2. /\ proc[p].base.gen = proc[p].base.pend.n + 1
          /\ proc[p].base.pend.n + 2 <= MaxNode /\ proc[p].base.pend.n \in 1..MaxNode
      BY <1>2, <3>1 DEF ApplyPending, Intended, Proper, Real, Ids
    <3> QED
      BY <2>1, <3>2, TransportAssumptions
  <2> QED
    BY <2>2, <2>3
<1>4. proc[p].tgt \in Kinds
  <2>1. CASE proc[p].cmd = "switch"
    BY <1>1, <1>2, <2>1, OtherFacts DEF Shape, SwitchShape, Proper
  <2>2. CASE proc[p].cmd = "apply"
    BY <1>1, <1>2, <2>2 DEF Shape, ApplyShape, ApplyPending, Intended, Proper, Real, Ids
  <2> QED
    BY <2>1, <2>2
<1> QED
  BY <1>3, <1>4, TransportAssumptions DEF NewConfig, Target, Config, Configs, Transports

-----------------------------------------------------------------------------
(* Writing the node's state.  Every write is made from the state that is   *)
(* there and moves it one generation: what was known of earlier            *)
(* generations stays known.                                                *)

Onward ==
  /\ node' \in NodeStates /\ NodeInv' /\ node'.gen = node.gen + 1
  /\ node.done \subseteq node'.done
  /\ \A g \in Nat, k \in Transports : Known(g, k) => Known(g, k)'
  /\ \A id \in Ops : id # NoOp /\ Mirrors(id) => Mirrors(id)'
  /\ \A s \in NodeStates : Earlier(s) => Earlier(s)'

(* If knowledge and mirrored operations survive, so do read states.        *)
LEMMA OnwardFacts ==
  ASSUME node \in NodeStates, NodeInv,
         node' \in NodeStates, Proper(node)', node'.gen = node.gen + 1,
         node.done \subseteq node'.done,
         \A g \in Nat, k \in Transports : Known(g, k) => Known(g, k)',
         \A id \in Ops : id # NoOp /\ Mirrors(id) => Mirrors(id)',
         \A id \in node'.done : Known(id.n + 2, id.tgt)'
  PROVE  Onward
<1>1. ASSUME NEW s \in NodeStates, Earlier(s)
      PROVE  Earlier(s)'
  <2>1. s.gen \in Nat /\ s.active \in Transports /\ s.pend \in Ops
    BY DEF NodeStates
  <2>2. Known(s.gen, s.active)' /\ (s.pend # NoOp => Mirrors(s.pend)')
    BY <1>1, <2>1 DEF Earlier
  <2>3. s.gen < node'.gen
    BY <1>1, <2>1 DEF Earlier, Known, NodeStates
  <2>4. Proper(s) /\ s.done \subseteq node'.done
    BY <1>1 DEF Earlier
  <2> QED
    BY <2>1, <2>2, <2>3, <2>4 DEF Earlier, Proper, NodeStates
<1> QED
  BY <1>1 DEF Onward, NodeInv

(* The immediate switch.                                                   *)
LEMMA SwitchWrites ==
  ASSUME node \in NodeStates, NodeInv, NEW t \in Kinds, node.gen < MaxNode,
         node' = Switched(node, t)
  PROVE  /\ Onward /\ node'.pend = node.pend /\ node'.done = node.done
         /\ node'.active = t
<1>1. /\ node'.gen = node.gen + 1 /\ node'.active = t
      /\ node'.pend = node.pend /\ node'.done = node.done
      /\ node'.last = node.last /\ node' \in NodeStates
  <2>1. /\ node'.gen = node.gen + 1 /\ node'.active = t
        /\ node'.pend = node.pend /\ node'.done = node.done
        /\ node'.last = node.last
    BY DEF Switched, NodeStates
  <2>2. node.gen + 1 \in Nat /\ t \in Transports
    BY DEF NodeStates, Transports
  <2>3. node' \in NodeStates
    BY <2>2 DEF Switched, NodeStates
  <2> QED
    BY <2>1, <2>3
<1>2. node.gen \in Nat /\ node'.gen \in 1..MaxNode
  BY <1>1, TransportAssumptions DEF NodeInv, Proper, NodeStates
<1>3. Proper(node)'
  <2>1. /\ node.pend # NoOp => Real(node.pend) /\ node.pend.n < node.gen
        /\ \A id \in node.done : Real(id) /\ id.n + 2 <= node.gen
        /\ node.last >= 1
    BY DEF NodeInv, Proper
  <2>2. \A id \in Ops : id.n \in Nat
    BY DEF Ops
  <2>3. node.pend \in Ops /\ \A id \in node.done : id \in Ops
    BY DEF NodeStates
  <2> QED
    BY <1>1, <1>2, <2>1, <2>2, <2>3 DEF Proper, Real
<1>4. ASSUME NEW g \in Nat, NEW k \in Transports, Known(g, k)
      PROVE  Known(g, k)'
  BY <1>1, <1>2, <1>4 DEF Known
<1>5. \A id \in Ops : id # NoOp /\ Mirrors(id) => Mirrors(id)'
  BY <1>1 DEF Mirrors
<1>6. \A id \in node'.done : Known(id.n + 2, id.tgt)'
  <2>1. \A id \in node.done : id.n + 2 \in Nat /\ id.tgt \in Transports
    BY DEF NodeStates, Ops
  <2> QED
    BY <1>1, <1>4, <2>1 DEF NodeInv
<1> QED
  BY <1>1, <1>3, <1>4, <1>5, <1>6, OnwardFacts

(* Mirroring an operation.                                                 *)
LEMMA MirrorWrites ==
  ASSUME node \in NodeStates, NodeInv, node.pend = NoOp,
         node.gen + 2 <= MaxNode, NEW l \in Nat, l >= node.last,
         NEW id \in Ops,
         id = Operation(node.active, Other(node.active), node.gen, node.last),
         node' = [node EXCEPT !.gen = node.gen + 1, !.pend = id, !.last = l]
  PROVE  /\ Onward /\ node'.pend = id /\ node'.done = node.done
         /\ node'.active = node.active /\ Real(id)
<1>1. /\ node'.gen = node.gen + 1 /\ node'.active = node.active
      /\ node'.pend = id /\ node'.done = node.done
      /\ node'.last = l /\ node' \in NodeStates
  <2>1. /\ node'.gen = node.gen + 1 /\ node'.active = node.active
        /\ node'.pend = id /\ node'.done = node.done /\ node'.last = l
    BY DEF NodeStates
  <2>2. node.gen + 1 \in Nat
    BY DEF NodeStates
  <2>3. node' \in NodeStates
    BY <2>2 DEF NodeStates
  <2> QED
    BY <2>1, <2>3
<1>2. node.gen \in 1..MaxNode /\ node'.gen \in 1..MaxNode /\ node.active \in Kinds
      /\ node.last >= 1 /\ node.last \in Nat
  BY <1>1, TransportAssumptions DEF NodeInv, Proper, NodeStates
<1>3. id.cur = node.active /\ id.n = node.gen /\ Real(id)
  <2>1. Other(node.active) \in Kinds /\ Other(node.active) # node.active
    BY <1>2, OtherFacts
  <2> QED
    BY <1>2, <2>1, TransportAssumptions DEF Real, Ids, Operation
<1>4. Proper(node)'
  <2>1. \A d \in node.done : Real(d) /\ d.n + 2 <= node.gen
    BY DEF NodeInv, Proper
  <2>2. \A d \in node.done : d.n \in Nat
    BY DEF NodeStates, Ops
  <2>3. \A d \in node'.done : Real(d) /\ d.n + 2 <= node'.gen
    BY <1>1, <1>2, <2>1, <2>2
  <2> QED
    BY <1>1, <1>2, <1>3, <2>3, TransportAssumptions DEF Proper, Real
<1>5. ASSUME NEW g \in Nat, NEW k \in Transports, Known(g, k)
      PROVE  Known(g, k)'
  BY <1>1, <1>2, <1>3, <1>5 DEF Known
<1>6. \A d \in Ops : d # NoOp /\ Mirrors(d) => Mirrors(d)'
  BY <1>1 DEF Mirrors
<1>7. \A d \in node'.done : Known(d.n + 2, d.tgt)'
  <2>1. \A d \in node.done : d.n + 2 \in Nat /\ d.tgt \in Transports
    BY DEF NodeStates, Ops
  <2> QED
    BY <1>1, <1>5, <2>1 DEF NodeInv
<1> QED
  BY <1>1, <1>3, <1>4, <1>5, <1>6, <1>7, OnwardFacts

(* Completing the operation that the node retains.                         *)
LEMMA FinalWrites ==
  ASSUME node \in NodeStates, NodeInv, Intended(node), NEW l \in Nat \ {0},
         node' = [gen |-> node.gen + 1, active |-> node.pend.tgt, last |-> l,
                  pend |-> NoOp, done |-> node.done \cup {node.pend}]
  PROVE  /\ Onward /\ node'.pend = NoOp
         /\ node'.done = node.done \cup {node.pend}
         /\ node'.active = node.pend.tgt
<1>1. /\ node'.gen = node.gen + 1 /\ node'.active = node.pend.tgt
      /\ node'.pend = NoOp /\ node'.done = node.done \cup {node.pend}
      /\ node'.last = l
  OBVIOUS
<1>2. /\ node.pend # NoOp /\ Real(node.pend) /\ node.gen = node.pend.n + 1
      /\ node.gen \in 1..MaxNode /\ node.pend.n \in Nat
      /\ node.pend.tgt \in Kinds /\ node.pend \in Ops
  BY DEF Intended, NodeInv, Proper, NodeStates, Ops, Real, Ids
<1>3. node' \in NodeStates
  BY <1>2, Neutral DEF NodeStates, Transports
<1>4. Proper(node)'
  <2>1. \A d \in node.done : Real(d) /\ d.n + 2 <= node.gen
    BY DEF NodeInv, Proper
  <2>2. \A d \in node.done : d.n \in Nat
    BY DEF NodeStates, Ops
  <2>3. \A d \in node'.done : Real(d) /\ d.n + 2 <= node'.gen
    BY <1>1, <1>2, <2>1, <2>2
  <2>4. node'.gen \in 1..MaxNode
    BY <1>1, <1>2, TransportAssumptions DEF Real
  <2> QED
    BY <1>1, <1>2, <2>3, <2>4 DEF Proper
<1>5. ASSUME NEW g \in Nat, NEW k \in Transports, Known(g, k)
      PROVE  Known(g, k)'
  BY <1>1, <1>2, <1>5 DEF Known
<1>6. \A d \in Ops : d # NoOp /\ Mirrors(d) => Mirrors(d)'
  BY <1>1 DEF Mirrors
<1>7. \A d \in node'.done : Known(d.n + 2, d.tgt)'
  <2>1. \A d \in node.done : d.n + 2 \in Nat /\ d.tgt \in Transports
    BY DEF NodeStates, Ops
  <2>2. \A d \in node.done : Known(d.n + 2, d.tgt)'
    BY <1>5, <2>1 DEF NodeInv
  <2>3. ASSUME NEW d \in Ops, d = node.pend
        PROVE  Known(d.n + 2, d.tgt)'
    BY <1>1, <1>2, <2>3 DEF Known
  <2> QED
    BY <1>1, <1>2, <2>2, <2>3
<1> QED
  BY <1>1, <1>3, <1>4, <1>5, <1>6, <1>7, OnwardFacts

(* What a write leaves of the rest.                                        *)
LEMMA ConvOnward ==
  ASSUME Types, ConvInv, Onward, conv' = conv
  PROVE  ConvInv'
<1>1. conv.appl.gen \in Nat /\ conv.appl.kind \in Transports
  BY DEF Types, Snapshots, Configs
<1>2. Known(conv.appl.gen, conv.appl.kind)'
  BY <1>1 DEF ConvInv, Onward
<1>3. conv.pend # NoOp => conv.pend.n < node'.gen
  <2>1. conv.pend.n \in Nat /\ node.gen \in Nat
    BY DEF Types, Snapshots, Ops, NodeStates
  <2> QED
    BY <2>1 DEF ConvInv, Onward
<1> QED
  BY <1>2, <1>3 DEF ConvInv, Real

(* Requests on their way stay good when the node moves on.                 *)
LEMMA MessagesOnward ==
  ASSUME Types, MessageInv, Onward, UNCHANGED <<gw, recs, late>>
  PROVE  MessageInv'
<1>1. ASSUME NEW r \in late, r.act = "finalize"
      PROVE  Mirrors(r.id)'
  <2>1. r.id \in Ops /\ r.id # NoOp /\ Mirrors(r.id)
    BY <1>1, Neutral DEF MessageInv, Sendable
  <2> QED
    BY <2>1 DEF Onward
<1> QED
  BY <1>1 DEF MessageInv, Sendable, Registered, Real

-----------------------------------------------------------------------------
(* The gateway.                                                            *)

Granted(r) ==
  r.id \in Registered /\ (r.act = "finalize" => r.id \in gw.comp)
Registering(r) ==
  /\ r.act = "register" /\ r.exp = gw.gen /\ gw.pend = {}
  /\ Outcome(r) = Stored(r, [gw EXCEPT !.gen = @ + 1, !.pend = {r.id}])
Finalizing(r) ==
  /\ r.act = "finalize" /\ r.id \in gw.pend
  /\ Outcome(r) = Stored(r, [gen |-> gw.gen + 1, active |-> r.id.tgt,
                             pend |-> gw.pend \ {r.id},
                             comp |-> gw.comp \cup {r.id}])

(* The gateway refuses, answers what it has, registers or finalizes.       *)
LEMMA OutcomeCases ==
  ASSUME Types, GatewayInv, MessageInv, NEW r \in Requests, Sendable(r)
  PROVE  \/ \E k \in {"stale", "error"} : Outcome(r) = Refused(k)
         \/ Granted(r) /\ \E g \in Nat \ {0} : Outcome(r) = Answered(g)
         \/ Registering(r)
         \/ Finalizing(r)
<1>1. CASE \E x \in recs : x.req = r
  <2> DEFINE x == CHOOSE y \in recs : y.req = r
  <2>1. x \in recs /\ x.req = r
    BY <1>1
  <2>2. x.gen \in Nat \ {0} /\ Granted(r)
    BY <2>1 DEF Types, Results, MessageInv, Granted
  <2>3. Outcome(r) = Answered(x.gen)
    BY <1>1 DEF Outcome
  <2> QED
    BY <2>2, <2>3
<1>2. CASE ~ \E x \in recs : x.req = r
  <2>1. /\ r.exp \in Nat /\ gw.gen \in Nat /\ r.act \in {"register", "finalize"}
        /\ r.id \in Ops /\ r.id.g + 1 \in Nat \ {0} /\ gw.gen # 0
    BY DEF Types, Requests, Gateways, Ops, GatewayInv
  <2>2. CASE r.exp > gw.gen
    BY <1>2, <2>2 DEF Outcome
  <2>3. CASE r.exp < gw.gen /\ r.act = "register"
    <3>1. Outcome(r) = ReconcileRegistration(r)
      BY <1>2, <2>1, <2>3 DEF Outcome
    <3> QED
      BY <2>1, <2>3, <3>1 DEF ReconcileRegistration, Granted, Registered
  <2>4. CASE r.exp < gw.gen /\ r.act = "finalize"
    <3>1. Outcome(r) = ReconcileFinalization(r)
      BY <1>2, <2>1, <2>4 DEF Outcome
    <3> QED
      BY <2>1, <2>4, <3>1 DEF ReconcileFinalization, Granted, Registered
  <2>5. CASE r.exp = gw.gen /\ r.act = "register"
    <3>1. Outcome(r) = DispatchRegistration(r)
      BY <1>2, <2>1, <2>5 DEF Outcome
    <3> QED
      BY <2>5, <3>1 DEF DispatchRegistration, Registering
  <2>6. CASE r.exp = gw.gen /\ r.act = "finalize"
    <3>1. Outcome(r) = DispatchFinalization(r)
      BY <1>2, <2>1, <2>6 DEF Outcome
    <3> QED
      BY <2>6, <3>1 DEF DispatchFinalization, Finalizing
  <2> QED
    BY <2>1, <2>2, <2>3, <2>4, <2>5, <2>6
<1> QED
  BY <1>1, <1>2

(* What the gateway's handler does to the two sides.                       *)
Grows == gw.comp \subseteq gw'.comp /\ Registered \subseteq Registered'
Handled(r) ==
  /\ gw' \in Gateways /\ recs' \subseteq Results
  /\ GatewayInv' /\ AgreeInv' /\ Grows
  /\ \A x \in recs' : /\ x.gen >= 1 /\ x.req.id \in Registered'
                      /\ x.req.act = "finalize" => x.req.id \in gw'.comp
  /\ Outcome(r).kind \in {"ok", "stale", "error"} /\ Outcome(r).gen \in Nat
  /\ Outcome(r).kind = "ok" =>
       /\ Outcome(r).gen # 0 /\ r.id \in Registered'
       /\ r.act = "finalize" => r.id \in gw'.comp
  /\ gw'.active # gw.active => node.pend # NoOp /\ gw'.active = node.pend.tgt

(* A request that may be sent leaves the two sides in step.                *)
LEMMA OutcomeFacts ==
  ASSUME StaticInv, NEW r \in Requests, Sendable(r), UNCHANGED <<node, manual>>,
         gw' = Outcome(r).gw, recs' = Outcome(r).recs
  PROVE  Handled(r)
<1> USE DEF Handled
<1>0. /\ Types /\ NodeInv /\ GatewayInv /\ AgreeInv /\ MessageInv
      /\ gw \in Gateways /\ recs \subseteq Results
  BY DEF StaticInv, Types
<1>1. ASSUME NEW k \in {"stale", "error", "ok"}, NEW g \in Nat,
             Outcome(r) = [gw |-> gw, recs |-> recs, kind |-> k, gen |-> g],
             k = "ok" => g # 0 /\ Granted(r)
      PROVE  Handled(r)
  <2>1. gw' = gw /\ recs' = recs /\ Outcome(r).kind = k /\ Outcome(r).gen = g
    BY <1>1
  <2>2. GatewayInv' /\ AgreeInv' /\ Registered' = Registered
    BY <1>0, <2>1 DEF GatewayInv, AgreeInv, NodeFollowsGateway, SettledMeansAgreed,
       Registered, Real, Mirrors
  <2> QED
    BY <1>0, <1>1, <2>1, <2>2 DEF MessageInv, Granted, Grows
<1>2. CASE \E k \in {"stale", "error"} : Outcome(r) = Refused(k)
  <2>1. PICK k \in {"stale", "error"} :
          Outcome(r) = [gw |-> gw, recs |-> recs, kind |-> k, gen |-> 0]
    BY <1>2 DEF Refused
  <2> QED
    BY <1>1, <2>1
<1>3. CASE Granted(r) /\ \E g \in Nat \ {0} : Outcome(r) = Answered(g)
  <2>1. PICK g \in Nat \ {0} :
          Outcome(r) = [gw |-> gw, recs |-> recs, kind |-> "ok", gen |-> g]
    BY <1>3 DEF Answered
  <2> QED
    BY <1>1, <1>3, <2>1
<1>4. ASSUME NEW new \in Gateways, new.gen = gw.gen + 1, Outcome(r) = Stored(r, new),
             r.id \in new.pend \cup new.comp,
             r.act = "finalize" => r.id \in new.comp,
             gw.comp \subseteq new.comp,
             gw.pend \cup gw.comp \subseteq new.pend \cup new.comp
      PROVE  /\ gw' = new /\ recs' \subseteq Results /\ Grows
             /\ \A x \in recs' : /\ x.gen >= 1 /\ x.req.id \in Registered'
                                 /\ x.req.act = "finalize" => x.req.id \in gw'.comp
             /\ Outcome(r).kind = "ok" /\ Outcome(r).gen \in Nat \ {0}
             /\ r.id \in Registered'
  <2>1. /\ gw' = new /\ recs' = recs \cup {[req |-> r, gen |-> new.gen]}
        /\ Outcome(r).kind = "ok" /\ Outcome(r).gen = new.gen
    BY <1>4 DEF Stored
  <2>2. new.gen \in Nat \ {0}
    BY <1>0, <1>4 DEF Gateways, GatewayInv
  <2>3. Registered' = new.pend \cup new.comp
    BY <2>1 DEF Registered
  <2>4. [req |-> r, gen |-> new.gen] \in Results
    BY <2>2 DEF Results
  <2>5. \A x \in recs : /\ x.gen >= 1 /\ x.req.id \in Registered'
                        /\ x.req.act = "finalize" => x.req.id \in gw'.comp
    BY <1>0, <1>4, <2>1, <2>3 DEF MessageInv, Registered
  <2>6. Grows
    BY <1>4, <2>1, <2>3 DEF Grows, Registered
  <2> QED
    BY <1>0, <1>4, <2>1, <2>2, <2>3, <2>4, <2>5, <2>6
<1>5. CASE Registering(r)
  <2> DEFINE new == [gw EXCEPT !.gen = gw.gen + 1, !.pend = {r.id}]
  <2>1. /\ r.act = "register" /\ r.exp = gw.gen /\ gw.pend = {}
        /\ Outcome(r) = Stored(r, new)
    BY <1>5 DEF Registering
  <2>2. /\ new.gen = gw.gen + 1 /\ new.active = gw.active
        /\ new.pend = {r.id} /\ new.comp = gw.comp
    BY <1>0 DEF Gateways
  <2>3. Real(r.id) /\ r.id \in Ops /\ gw.gen + 1 \in Nat /\ r.id.g = gw.gen
    BY <1>0, <2>1, Neutral DEF Sendable, Gateways
  <2>4. new \in Gateways
    BY <1>0, <2>3 DEF Gateways
  <2>5. /\ gw' = new /\ recs' \subseteq Results /\ Grows
        /\ \A x \in recs' : /\ x.gen >= 1 /\ x.req.id \in Registered'
                            /\ x.req.act = "finalize" => x.req.id \in gw'.comp
        /\ Outcome(r).kind = "ok" /\ Outcome(r).gen \in Nat \ {0}
        /\ r.id \in Registered'
    <3> HIDE DEF new
    <3> QED
      BY <1>4, <2>1, <2>2, <2>4
  <2> HIDE DEF new
  <2>6. Registered' = Registered \cup {r.id}
    BY <2>1, <2>2, <2>5 DEF Registered
  <2>7. \A id \in Registered : Real(id) /\ id.g < gw.gen /\ id.g \in Nat
    BY <1>0, Neutral DEF GatewayInv, Registered, Ops
  <2>8. GatewayInv'
    <3>1. \A id \in Registered' : Real(id) /\ id.g < gw'.gen
      BY <1>0, <2>2, <2>3, <2>5, <2>6, <2>7 DEF Gateways
    <3>2. gw'.pend \cap gw'.comp = {}
      BY <2>2, <2>3, <2>5, <2>7 DEF Registered
    <3> QED
      BY <1>0, <2>2, <2>5, <3>1, <3>2 DEF GatewayInv, Real, Gateways
  <2>9. AgreeInv'
    BY <1>0, <2>1, <2>2, <2>5 DEF AgreeInv, NodeFollowsGateway,
       SettledMeansAgreed, Mirrors
  <2> QED
    BY <2>1, <2>2, <2>4, <2>5, <2>8, <2>9
<1>6. CASE Finalizing(r)
  <2> DEFINE new == [gen |-> gw.gen + 1, active |-> r.id.tgt,
                     pend |-> gw.pend \ {r.id}, comp |-> gw.comp \cup {r.id}]
  <2>1. r.act = "finalize" /\ r.id \in gw.pend /\ Outcome(r) = Stored(r, new)
    BY <1>6 DEF Finalizing
  <2>2. /\ new.gen = gw.gen + 1 /\ new.active = r.id.tgt
        /\ new.pend = gw.pend \ {r.id} /\ new.comp = gw.comp \cup {r.id}
    OBVIOUS
  <2>3. /\ Real(r.id) /\ r.id \in Ops /\ r.id # NoOp /\ gw.gen + 1 \in Nat
        /\ r.id.tgt \in Kinds
    BY <1>0, Neutral DEF Sendable, Gateways, Real, Ids
  <2>4. new \in Gateways
    BY <1>0, <2>3 DEF Gateways, Transports
  <2>5. /\ gw' = new /\ recs' \subseteq Results /\ Grows
        /\ \A x \in recs' : /\ x.gen >= 1 /\ x.req.id \in Registered'
                            /\ x.req.act = "finalize" => x.req.id \in gw'.comp
        /\ Outcome(r).kind = "ok" /\ Outcome(r).gen \in Nat \ {0}
        /\ r.id \in Registered'
    <3>1. /\ r.id \in new.comp /\ gw.comp \subseteq new.comp
          /\ gw.pend \cup gw.comp \subseteq new.pend \cup new.comp
      BY <2>2
    <3> HIDE DEF new
    <3> QED
      BY <1>4, <2>1, <2>2, <2>4, <3>1
  <2> HIDE DEF new
  <2>6. Registered' = Registered
    BY <2>1, <2>2, <2>5 DEF Registered
  <2>7. GatewayInv'
    <3>1. \A id \in Registered : Real(id) /\ id.g < gw.gen /\ id.g \in Nat
      BY <1>0, Neutral DEF GatewayInv, Registered, Ops
    <3>2. gw'.pend \cap gw'.comp = {}
      BY <1>0, <2>2, <2>5 DEF GatewayInv
    <3>3. \A id \in Registered' : Real(id) /\ id.g < gw'.gen
      BY <1>0, <2>2, <2>5, <2>6, <3>1 DEF Gateways
    <3> QED
      BY <1>0, <2>2, <2>3, <2>5, <3>2, <3>3 DEF GatewayInv, Real, Gateways
  <2>8. r.id = node.pend
    BY <1>0, <2>1 DEF Sendable, Mirrors, AgreeInv, NodeFollowsGateway, GatewayInv
  <2>9. AgreeInv'
    BY <1>0, <2>2, <2>3, <2>5, <2>8 DEF AgreeInv, NodeFollowsGateway,
       SettledMeansAgreed, Mirrors
  <2> QED
    BY <2>1, <2>2, <2>3, <2>4, <2>5, <2>7, <2>8, <2>9
<1> QED
  BY <1>0, <1>2, <1>3, <1>5, <1>6, OutcomeCases

-----------------------------------------------------------------------------
(* A step of one command, seen from the others and from the rest.          *)

(* A command that takes no step keeps what it relies on.                   *)
LEMMA ShapeKept ==
  ASSUME StaticInv, NEW q \in Procs, proc[q] # Idle, proc'[q] = proc[q],
         node' = node \/ Onward, Grows
  PROVE  Shape(proc[q])'
<1>1. Shape(proc[q]) /\ proc[q].base \in NodeStates
  BY AtWork DEF Works
<1>2. PICK w \in Works : w = proc[q]
  BY AtWork
<1>3. Earlier(w.base)' /\ node.done \subseteq node'.done
  <2>1. Earlier(w.base)
    BY <1>1, <1>2 DEF Shape
  <2>2. CASE node' = node
    BY <2>1, <2>2 DEF Earlier, Proper, Known, Mirrors, Real
  <2>3. CASE Onward
    BY <1>1, <1>2, <2>1, <2>3 DEF Onward
  <2> QED
    BY <2>2, <2>3
<1>4. Shape(w)'
  <2>1. SwitchShape(w)' = SwitchShape(w)
    BY DEF SwitchShape
  <2>2. DeferShape(w) => DeferShape(w)'
    BY DEF DeferShape, Grows, Intent
  <2>3. ApplyShape(w) => ApplyShape(w)'
    BY <1>3 DEF ApplyShape, Grows, ApplyPending, ApplyCompleted, Intended
  <2> QED
    BY <1>1, <1>2, <1>3, <2>1, <2>2, <2>3 DEF Shape
<1> QED
  BY <1>2, <1>4

(* What a step has to show.                                                *)
LEMMA StaticStep ==
  ASSUME StaticInv, NEW p \in Procs, proc' \in [Procs -> Works],
         \A q \in Procs \ {p} : proc'[q] = proc[q],
         (proc[p] # Idle => Shape(proc[p]))',
         node' = node \/ Onward, Grows, Types',
         GatewayInv', AgreeInv', MessageInv', ConvInv', RtInv'
  PROVE  StaticInv'
<1>1. NodeInv'
  <2>1. CASE node' = node
    BY <2>1 DEF StaticInv, NodeInv, Proper, Known, Real
  <2> QED
    BY <2>1 DEF Onward
<1>2. ASSUME NEW q \in Procs, proc'[q] # Idle
      PROVE  Shape(proc[q])'
  BY <1>2, ShapeKept
<1> QED
  BY <1>1, <1>2 DEF StaticInv, ProcInv

(* Steps that change a command's progress and the host at most.            *)
LEMMA SameNode ==
  ASSUME StaticInv, UNCHANGED <<node, gw, recs, manual>>
  PROVE  /\ Grows /\ NodeInv' /\ GatewayInv' /\ AgreeInv'
         /\ late' \subseteq late => MessageInv'
         /\ conv' = conv => ConvInv'
<1>1. Grows /\ Registered' = Registered
  BY DEF Grows, Registered
<1>2. NodeInv'
  BY DEF StaticInv, NodeInv, Proper, Known, Real
<1>3. GatewayInv' /\ AgreeInv'
  BY <1>1 DEF StaticInv, GatewayInv, AgreeInv, NodeFollowsGateway,
     SettledMeansAgreed, Mirrors, Real
<1>4. late' \subseteq late => MessageInv'
  BY <1>1 DEF StaticInv, MessageInv, Sendable, Mirrors, Real
<1>5. conv' = conv => ConvInv'
  BY DEF StaticInv, ConvInv, Known, Real
<1> QED
  BY <1>1, <1>2, <1>3, <1>4, <1>5

(* A step that changes the host and one command only.                      *)
LEMMA HostStatic ==
  ASSUME StaticInv, NEW p \in Procs, proc' \in [Procs -> Works],
         \A q \in Procs \ {p} : proc'[q] = proc[q],
         (proc[p] # Idle => Shape(proc[p]))',
         UNCHANGED <<node, conv, gw, recs, late, manual>>,
         rt' \in Configs, RtInv', dirty' \in BOOLEAN, faults' \in 0..MaxFaults
  PROVE  StaticInv'
<1>1. Types'
  BY DEF StaticInv, Types
<1> QED
  BY <1>1, SameNode, StaticStep

(* A host that is left alone.                                              *)
LEMMA RtSame ==
  ASSUME StaticInv, rt' = rt
  PROVE  rt' \in Configs /\ RtInv'
BY DEF StaticInv, Types, RtInv

(* The same for a command that ends.                                       *)
LEMMA EndStatic ==
  ASSUME StaticInv, NEW p \in Procs, End(p),
         UNCHANGED <<node, conv, gw, recs, late, manual>>,
         rt' \in Configs, RtInv', dirty' \in BOOLEAN, faults' \in 0..MaxFaults
  PROVE  StaticInv'
<1>1. /\ proc' \in [Procs -> Works] /\ proc'[p] = Idle
      /\ \A q \in Procs \ {p} : proc'[q] = proc[q]
  BY EndFacts DEF StaticInv, Types
<1> QED
  BY <1>1, HostStatic

(* The next step x of a command that has got so far.                       *)
May(w, x) ==
  /\ w.cmd = "switch" => x \in SwitchPCs
  /\ w.cmd = "defer" =>
       /\ x \in DeferPCs
       /\ x \in {"registering", "mirror"} => w.base.pend = NoOp
       /\ x = "mirror" => Intent(w) \in Registered
  /\ w.cmd = "apply" =>
       /\ x \in ApplyPCs \ {"planned"}
       /\ x # "promote" => ApplyPending(w.base, w.snap)
                           /\ (w.rcpt # 0 => w.base.pend \in gw.comp)
       /\ x = "promote" => w.snap.pend \in node.done
       /\ x = "commit" => w.rcpt # 0
  /\ w.cmd = "repair" => x \in RepairPCs

(* A command that may be at its step has the shape of its kind.            *)
LEMMA MayShape ==
  ASSUME NEW v \in Works, NEW w \in Works, Shape(v), May(w, w.pc),
         w.cmd = v.cmd, w.tgt = v.tgt, w.base = v.base, w.snap = v.snap
  PROVE  Shape(w)
<1>1. v.cmd = "switch" => SwitchShape(w)
  BY DEF Shape, SwitchShape, May
<1>2. v.cmd = "defer" => DeferShape(w)
  BY DEF Shape, DeferShape, May
<1>3. v.cmd = "apply" => ApplyShape(w)
  BY DEF Shape, ApplyShape, May
<1>4. v.cmd = "repair" => w.pc \in RepairPCs
  BY DEF Shape, May
<1> QED
  BY <1>1, <1>2, <1>3, <1>4 DEF Shape

(* Neither depends on anything but the node and the gateway.               *)
LEMMA ShapeSame ==
  ASSUME NEW w, UNCHANGED <<node, gw>>
  PROVE  Shape(w)' = Shape(w) /\ \A x : May(w, x)' = May(w, x)
<1>1. Registered' = Registered /\ Earlier(w.base)' = Earlier(w.base)
  BY DEF Registered, Earlier, Proper, Known, Mirrors, Real
<1>2. /\ SwitchShape(w)' = SwitchShape(w) /\ DeferShape(w)' = DeferShape(w)
      /\ ApplyShape(w)' = ApplyShape(w)
  BY <1>1 DEF SwitchShape, DeferShape, ApplyShape, Intent
<1> QED
  BY <1>1, <1>2 DEF Shape, May, Intent

(* A command moves on, with the same plan.                                 *)
LEMMA MoveStatic ==
  ASSUME StaticInv, NEW p \in Procs, proc[p] # Idle,
         proc' \in [Procs -> Works], \A q \in Procs \ {p} : proc'[q] = proc[q],
         proc'[p].cmd = proc[p].cmd, proc'[p].tgt = proc[p].tgt,
         proc'[p].base = proc[p].base, proc'[p].snap = proc[p].snap,
         NEW w \in Works, w = proc'[p], May(w, w.pc),
         UNCHANGED <<node, conv, gw, recs, late, manual>>,
         rt' \in Configs, RtInv', dirty' \in BOOLEAN, faults' \in 0..MaxFaults
  PROVE  StaticInv'
<1>1. Shape(proc[p]) /\ proc[p] \in Works
  BY AtWork
<1>2. Shape(w)
  BY <1>1, MayShape
<1>3. Shape(proc[p])'
  BY <1>2, ShapeSame
<1> QED
  BY <1>3, HostStatic

(* A command goes to its next step and changes nothing else.               *)
LEMMA GoStatic ==
  ASSUME StaticInv, NEW p \in Procs, proc[p] # Idle,
         NEW x \in PCs \ {"idle"}, To(p, x), May(proc[p], x),
         UNCHANGED <<node, conv, gw, recs, late, manual>>,
         rt' \in Configs, RtInv', dirty' \in BOOLEAN, faults' \in 0..MaxFaults
  PROVE  StaticInv'
<1>1. proc \in [Procs -> Works]
  BY DEF StaticInv, Types
<1>2. /\ proc' \in [Procs -> Works]
      /\ \A q \in Procs \ {p} : proc'[q] = proc[q]
      /\ proc'[p].pc = x /\ proc'[p].cmd = proc[p].cmd
      /\ proc'[p].tgt = proc[p].tgt /\ proc'[p].base = proc[p].base
      /\ proc'[p].snap = proc[p].snap /\ proc'[p].rcpt = proc[p].rcpt
  BY <1>1, GoFacts
<1>3. PICK w \in Works : w = proc'[p]
  BY <1>2
<1>4. May(w, w.pc)
  BY <1>2, <1>3 DEF May, Intent
<1> QED
  BY <1>2, <1>3, <1>4, MoveStatic

-----------------------------------------------------------------------------
(* StaticInv: planning, and the steps that touch the host at most.         *)

(* The state that is there now is a state a command may read.              *)
LEMMA NowEarlier ==
  ASSUME StaticInv
  PROVE  Earlier(node)
<1>1. node \in NodeStates /\ Proper(node)
  BY DEF StaticInv, Types, NodeInv
<1>2. node.pend # NoOp => node.pend.n # node.gen
  BY <1>1 DEF Proper, Real, Ids
<1>3. Known(node.gen, node.active)
  BY <1>1, <1>2 DEF Known, NodeStates
<1> QED
  BY <1>1, <1>3 DEF Earlier, Mirrors

(* What a started command has read.                                        *)
LEMMA StartFacts ==
  ASSUME StaticInv, NEW p \in Procs, NEW cmd \in {"switch", "defer", "apply", "repair"},
         NEW tgt \in Transports, Start(p, cmd, tgt)
  PROVE  /\ proc' \in [Procs -> Works]
         /\ \A q \in Procs \ {p} : proc'[q] = proc[q]
         /\ proc'[p].pc = "planned" /\ proc'[p].cmd = cmd /\ proc'[p].tgt = tgt
         /\ proc'[p].base = node /\ proc'[p].snap = conv /\ proc'[p].rcpt = 0
         /\ proc'[p] # Idle /\ proc[p] = Idle /\ dirty' \in BOOLEAN
<1>1. node \in NodeStates /\ conv \in Snapshots /\ rt \in Configs
      /\ proc \in [Procs -> Works] /\ dirty \in BOOLEAN
  BY DEF StaticInv, Types
<1> DEFINE w == [Idle EXCEPT !.pc = "planned", !.cmd = cmd, !.tgt = tgt,
                             !.base = node, !.snap = conv, !.seen = rt]
<1>2. /\ w.pc = "planned" /\ w.cmd = cmd /\ w.tgt = tgt /\ w.base = node
      /\ w.snap = conv /\ w.rcpt = 0 /\ w # Idle
  BY DEF Idle
<1>3. w \in Works
  BY <1>1, Neutral DEF Works, PCs, SwitchPCs
<1>4. proc' = [proc EXCEPT ![p] = w] /\ proc[p] = Idle
      /\ dirty' = (dirty \/ Beside(p))
  BY DEF Start
<1> HIDE DEF w
<1>5. proc' \in [Procs -> Works] /\ proc'[p] = w
      /\ \A q \in Procs \ {p} : proc'[q] = proc[q]
  BY <1>1, <1>3, <1>4
<1>6. dirty' \in BOOLEAN
  BY <1>1, <1>4 DEF Beside
<1> QED
  BY <1>2, <1>4, <1>5, <1>6

(* A start with a target that fits the command.                            *)
LEMMA StartStatic ==
  ASSUME StaticInv, NEW p \in Procs, NEW cmd \in {"switch", "defer", "apply", "repair"},
         NEW tgt \in Transports, Start(p, cmd, tgt),
         cmd \in {"switch", "defer"} => tgt = Other(node.active),
         cmd = "switch" => node.gen < MaxNode,
         cmd = "defer" /\ node.pend = NoOp => node.gen + 2 <= MaxNode,
         cmd = "apply" =>
           /\ tgt = conv.pend.tgt /\ conv.pend # NoOp
           /\ ApplyPending(node, conv) \/ ApplyCompleted(node, conv)
  PROVE  StaticInv'
<1>1. /\ proc' \in [Procs -> Works]
      /\ \A q \in Procs \ {p} : proc'[q] = proc[q]
      /\ proc'[p].pc = "planned" /\ proc'[p].cmd = cmd /\ proc'[p].tgt = tgt
      /\ proc'[p].base = node /\ proc'[p].snap = conv /\ proc'[p].rcpt = 0
      /\ dirty' \in BOOLEAN
  BY StartFacts
<1>2. /\ UNCHANGED <<node, rt, conv, gw, recs, late, manual, faults>>
      /\ cmd \in Commands
  BY DEF Start, gateway
<1>3. PICK w \in Works : w = proc'[p]
  BY <1>1
<1>4. Shape(w)
  <2>1. Earlier(w.base)
    BY <1>1, <1>3, NowEarlier
  <2>2. cmd = "switch" => SwitchShape(w)
    BY <1>1, <1>3 DEF SwitchShape, SwitchPCs
  <2>3. cmd = "defer" => DeferShape(w)
    BY <1>1, <1>3 DEF DeferShape, DeferPCs
  <2>4. cmd = "apply" => ApplyShape(w)
    BY <1>1, <1>3 DEF ApplyShape, ApplyPCs
  <2>5. w.pc \in RepairPCs
    BY <1>1, <1>3 DEF RepairPCs
  <2> QED
    BY <1>1, <1>2, <1>3, <2>1, <2>2, <2>3, <2>4, <2>5 DEF Shape
<1>5. Shape(proc[p])'
  BY <1>2, <1>3, <1>4, ShapeSame
<1>6. faults' \in 0..MaxFaults
  BY <1>2 DEF StaticInv, Types
<1> QED
  BY <1>1, <1>2, <1>5, <1>6, RtSame, HostStatic

(* What the planner of apply has found.                                    *)
LEMMA ApplyFound ==
  ASSUME StaticInv, ApplyPending(node, conv) \/ ApplyCompleted(node, conv)
  PROVE  Real(conv.pend) /\ conv.pend # NoOp /\ conv.pend.tgt \in Transports
<1>1. conv.pend # NoOp
  <2>1. \A id \in node.done : Real(id)
    BY DEF StaticInv, NodeInv, Proper
  <2> QED
    BY <2>1, Neutral DEF ApplyPending, ApplyCompleted, Intended
<1> QED
  BY <1>1, Neutral DEF StaticInv, ConvInv, Ops

(* Every plan is such a start.                                             *)
LEMMA PlanStatic ==
  ASSUME StaticInv, NEW p \in Procs, Plan(p)
  PROVE  StaticInv'
<1>1. Other(node.active) \in Transports /\ node.gen \in Nat
  BY OtherFacts DEF StaticInv, NodeInv, Proper, Transports, Types, NodeStates
<1>2. CASE PlanSwitch(p)
  BY <1>1, <1>2, StartStatic, TransportAssumptions DEF PlanSwitch
<1>3. CASE PlanDefer(p)
  BY <1>1, <1>3, StartStatic DEF PlanDefer
<1>4. CASE PlanApply(p)
  BY <1>4, ApplyFound, StartStatic DEF PlanApply
<1>5. CASE PlanRepair(p)
  BY <1>5, StartStatic DEF PlanRepair, Transports
<1> QED
  BY <1>2, <1>3, <1>4, <1>5 DEF Plan

(* A command in the make-before-break workflow.                            *)
LEMMA SwitchingFacts ==
  ASSUME StaticInv, NEW p \in Procs, NEW x, Switching(p, x),
         x \notin {"idle", "promote"}
  PROVE  /\ proc[p] # Idle /\ proc[p] \in Works /\ Shape(proc[p])
         /\ proc[p].base \in NodeStates /\ Proper(proc[p].base)
         /\ NewConfig(p) = Target(proc[p]) /\ NewConfig(p) \in Configs
         /\ NewConfig(p).kind \in Kinds /\ NewConfig(p).gen \in 1..MaxNode
         /\ May(proc[p], "undo") /\ May(proc[p], "prepared")
         /\ May(proc[p], "activated") /\ May(proc[p], "verified")
<1>1. proc[p] # Idle
  BY Neutral DEF Switching
<1>2. proc[p] \in Works /\ Shape(proc[p])
  BY <1>1, AtWork
<1>3. proc[p].cmd = "apply" => proc[p].pc \notin {"planned", "promote"}
  BY DEF Switching
<1>4. /\ May(proc[p], "undo") /\ May(proc[p], "prepared")
      /\ May(proc[p], "activated") /\ May(proc[p], "verified")
  BY <1>2, <1>3 DEF Switching, May, Shape, ApplyShape, SwitchPCs, ApplyPCs
<1>5. /\ NewConfig(p) = Target(proc[p]) /\ NewConfig(p) \in Configs
      /\ NewConfig(p).kind \in Kinds /\ NewConfig(p).gen \in 1..MaxNode
  BY <1>1, <1>3, Installs DEF Switching
<1> QED
  BY <1>1, <1>2, <1>4, <1>5 DEF Shape, Earlier, Works

(* Make before break.                                                      *)
LEMMA SwitchingStatic ==
  ASSUME StaticInv, NEW p \in Procs,
         \/ Prepare(p) \/ TestFails(p) \/ Activate(p) \/ ActivateFails(p)
         \/ Verify(p) \/ VerifyFails(p) \/ Compensate(p) \/ CompensateFails(p)
  PROVE  StaticInv'
<1> USE DEF gateway
<1>0. /\ proc \in [Procs -> Works] /\ rt \in Configs /\ dirty \in BOOLEAN
      /\ faults \in 0..MaxFaults
  BY DEF StaticInv, Types
<1>1. {"undo", "prepared", "activated", "verified"} \subseteq PCs \ {"idle"}
  BY DEF PCs, SwitchPCs
<1>2. CASE Prepare(p)
  <2>1. /\ Switching(p, "planned")
        /\ UNCHANGED <<node, rt, conv, gw, recs, late, manual, dirty, faults>>
    BY <1>2 DEF Prepare
  <2>2. proc[p] # Idle /\ proc[p] \in Works /\ May(proc[p], "prepared")
    BY <2>1, SwitchingFacts
  <2>3. CASE End(p)
    BY <1>0, <2>1, <2>3, RtSame, EndStatic
  <2>4. CASE proc' = [proc EXCEPT ![p].pc = "prepared", ![p].seen = rt]
    <3>1. /\ proc' \in [Procs -> Works]
          /\ \A q \in Procs \ {p} : proc'[q] = proc[q]
          /\ proc'[p].pc = "prepared" /\ proc'[p].cmd = proc[p].cmd
          /\ proc'[p].tgt = proc[p].tgt /\ proc'[p].base = proc[p].base
          /\ proc'[p].snap = proc[p].snap /\ proc'[p].rcpt = proc[p].rcpt
      BY <1>0, <1>1, <2>4 DEF Works
    <3>2. PICK w \in Works : w = proc'[p]
      BY <3>1
    <3>3. May(w, w.pc)
      BY <2>2, <3>1, <3>2 DEF May, Intent
    <3> QED
      BY <1>0, <2>1, <2>2, <3>1, <3>2, <3>3, RtSame, MoveStatic
  <2> QED
    BY <1>2, <2>3, <2>4 DEF Prepare
<1>3. CASE TestFails(p)
  BY <1>0, <1>3, FailsFacts, RtSame, EndStatic DEF TestFails
<1>4. CASE Activate(p)
  <2>1. /\ Switching(p, "prepared")
        /\ UNCHANGED <<node, conv, gw, recs, late, manual, dirty, faults>>
        /\ \/ rt' = NewConfig(p) /\ To(p, "activated")
           \/ rt' = rt /\ To(p, "undo")
    BY <1>4 DEF Activate
  <2>2. /\ proc[p] # Idle /\ May(proc[p], "undo") /\ May(proc[p], "activated")
        /\ NewConfig(p) \in Configs
        /\ NewConfig(p).kind \in Kinds /\ NewConfig(p).gen \in 1..MaxNode
    BY <2>1, SwitchingFacts
  <2>3. rt' \in Configs /\ RtInv'
    BY <2>1, <2>2, RtSame DEF RtInv
  <2> QED
    BY <1>0, <1>1, <2>1, <2>2, <2>3, GoStatic
<1>5. CASE ActivateFails(p)
  <2>1. /\ Switching(p, "prepared") /\ Fails("host") /\ To(p, "undo")
        /\ UNCHANGED <<node, conv, gw, recs, late, manual, dirty>>
        /\ rt' = NewConfig(p) \/ rt' = rt
    BY <1>5 DEF ActivateFails
  <2>2. /\ proc[p] # Idle /\ May(proc[p], "undo")
        /\ NewConfig(p) \in Configs
        /\ NewConfig(p).kind \in Kinds /\ NewConfig(p).gen \in 1..MaxNode
    BY <2>1, SwitchingFacts
  <2>3. rt' \in Configs /\ RtInv' /\ faults' \in 0..MaxFaults
    BY <1>0, <2>1, <2>2, RtSame, FailsFacts DEF RtInv
  <2> QED
    BY <1>0, <1>1, <2>1, <2>2, <2>3, GoStatic
<1>6. CASE Verify(p)
  BY <1>0, <1>1, <1>6, SwitchingFacts, RtSame, GoStatic DEF Verify
<1>7. CASE VerifyFails(p)
  BY <1>0, <1>1, <1>7, SwitchingFacts, FailsFacts, RtSame, GoStatic DEF VerifyFails
<1>8. CASE Compensate(p)
  <2>1. /\ Switching(p, "undo") /\ End(p) /\ rt' = OldConfig(proc[p].base)
        /\ UNCHANGED <<node, conv, gw, recs, late, manual, dirty, faults>>
    BY <1>8 DEF Compensate
  <2>2. rt' \in Configs /\ RtInv'
    BY <2>1, SwitchingFacts, Restores DEF RtInv
  <2> QED
    BY <1>0, <2>1, <2>2, EndStatic
<1>9. CASE CompensateFails(p)
  <2>1. /\ Switching(p, "undo") /\ End(p) /\ Fails("restore") /\ dirty' = TRUE
        /\ rt' = OldConfig(proc[p].base) \/ rt' = rt
        /\ UNCHANGED <<node, conv, gw, recs, late, manual>>
    BY <1>9 DEF CompensateFails
  <2>2. rt' \in Configs /\ RtInv' /\ faults' \in 0..MaxFaults
    BY <1>0, <2>1, SwitchingFacts, Restores, RtSame, FailsFacts DEF RtInv
  <2> QED
    BY <2>1, <2>2, EndStatic
<1> QED
  BY <1>2, <1>3, <1>4, <1>5, <1>6, <1>7, <1>8, <1>9

(* A command at a step of its own.                                         *)
LEMMA AtFacts ==
  ASSUME StaticInv, NEW p \in Procs, NEW c, NEW x, At(p, c, x), x # "idle"
  PROVE  /\ proc[p] # Idle /\ proc[p] \in Works /\ Shape(proc[p])
         /\ proc[p].cmd = c /\ proc[p].pc = x
         /\ proc[p].base \in NodeStates /\ Earlier(proc[p].base)
         /\ proc[p].snap \in Snapshots
<1>1. proc[p] # Idle /\ proc[p].cmd = c /\ proc[p].pc = x
  BY Neutral DEF At
<1>2. proc[p] \in Works /\ Shape(proc[p])
  BY <1>1, AtWork
<1> QED
  BY <1>1, <1>2 DEF Shape, Works

(* The steps of apply that write neither the node's state nor the          *)
(* convergence snapshot.                                                   *)
LEMMA ApplyStatic ==
  ASSUME StaticInv, NEW p \in Procs,
         \/ ApplyBegin(p) \/ ObserveGeneration(p) \/ ObserveFails(p)
         \/ ApplyActivated(p) \/ ApplyRollback(p) \/ ApplyRollbackFails(p)
         \/ ApplyCommitFails(p) \/ PromoteFails(p)
  PROVE  StaticInv'
<1> USE DEF gateway
<1>0. /\ proc \in [Procs -> Works] /\ rt \in Configs /\ dirty \in BOOLEAN
      /\ faults \in 0..MaxFaults /\ gw.gen \in Nat
  BY DEF StaticInv, Types, Gateways
<1>1. {"promote", "asking", "ready", "rollback", "commit", "finalizing"}
         \subseteq PCs \ {"idle"}
  BY DEF PCs, ApplyPCs
<1>2. CASE ApplyBegin(p)
  <2>1. /\ At(p, "apply", "planned")
        /\ UNCHANGED <<node, rt, conv, gw, recs, late, manual, dirty, faults>>
    BY <1>2 DEF ApplyBegin
  <2>2. proc[p] # Idle /\ Shape(proc[p]) /\ proc[p].cmd = "apply"
        /\ proc[p].pc = "planned"
    BY <2>1, AtFacts
  <2>3. CASE End(p)
    BY <1>0, <2>1, <2>3, RtSame, EndStatic
  <2>4. CASE /\ node = proc[p].base /\ conv = proc[p].snap
             /\ To(p, IF ApplyCompleted(node, conv) THEN "promote" ELSE "asking")
    <3>1. May(proc[p], IF ApplyCompleted(node, conv) THEN "promote" ELSE "asking")
      <4>1. CASE ApplyCompleted(node, conv)
        BY <2>2, <2>4, <4>1 DEF May, ApplyPCs, ApplyCompleted
      <4>2. CASE ~ApplyCompleted(node, conv)
        BY <2>2, <2>4, <4>2 DEF May, ApplyPCs, Shape, ApplyShape
      <4> QED
        BY <4>1, <4>2
    <3> QED
      BY <1>0, <1>1, <2>1, <2>2, <2>4, <3>1, RtSame, GoStatic
  <2> QED
    BY <1>2, <2>3, <2>4 DEF ApplyBegin
<1>3. CASE ObserveGeneration(p)
  <2>1. /\ At(p, "apply", "observe")
        /\ proc' = [proc EXCEPT ![p].exp = gw.gen, ![p].pc = "ready"]
        /\ UNCHANGED <<node, rt, conv, gw, recs, late, manual, dirty, faults>>
    BY <1>3 DEF ObserveGeneration
  <2>2. proc[p] # Idle /\ Shape(proc[p]) /\ proc[p].cmd = "apply"
        /\ proc[p].pc = "observe"
    BY <2>1, AtFacts
  <2>3. /\ proc' \in [Procs -> Works]
        /\ \A q \in Procs \ {p} : proc'[q] = proc[q]
        /\ proc'[p].pc = "ready" /\ proc'[p].cmd = proc[p].cmd
        /\ proc'[p].tgt = proc[p].tgt /\ proc'[p].base = proc[p].base
        /\ proc'[p].snap = proc[p].snap /\ proc'[p].rcpt = proc[p].rcpt
    BY <1>0, <1>1, <2>1 DEF Works
  <2>4. PICK w \in Works : w = proc'[p]
    BY <2>3
  <2>5. May(w, w.pc)
    BY <2>2, <2>3, <2>4 DEF May, ApplyPCs, Shape, ApplyShape
  <2> QED
    BY <1>0, <2>1, <2>2, <2>3, <2>4, <2>5, RtSame, MoveStatic
<1>4. CASE ObserveFails(p)
  BY <1>0, <1>4, FailsFacts, RtSame, EndStatic DEF ObserveFails
<1>5. CASE ApplyActivated(p)
  <2> DEFINE x == IF node # proc[p].base THEN "rollback"
                  ELSE IF proc[p].rcpt # 0 THEN "commit" ELSE "finalizing"
  <2>1. /\ At(p, "apply", "verified") /\ To(p, x)
        /\ UNCHANGED <<node, rt, conv, gw, recs, late, manual, dirty, faults>>
    BY <1>5 DEF ApplyActivated
  <2>2. proc[p] # Idle /\ Shape(proc[p]) /\ proc[p].cmd = "apply"
        /\ proc[p].pc = "verified"
    BY <2>1, AtFacts
  <2>3. May(proc[p], x) /\ x \in PCs \ {"idle"}
    BY <1>1, <2>2 DEF May, ApplyPCs, Shape, ApplyShape
  <2> HIDE DEF x
  <2> QED
    BY <1>0, <2>1, <2>2, <2>3, RtSame, GoStatic
<1>6. CASE ApplyRollback(p) \/ ApplyRollbackFails(p)
  <2>1. /\ At(p, "apply", "rollback") /\ End(p)
        /\ rt' = OldConfig(proc[p].base) \/ rt' = rt
        /\ UNCHANGED <<node, conv, gw, recs, late, manual>>
        /\ dirty' \in BOOLEAN /\ faults' \in 0..MaxFaults
    BY <1>0, <1>6, FailsFacts DEF ApplyRollback, ApplyRollbackFails
  <2>2. rt' \in Configs /\ RtInv'
    BY <2>1, AtFacts, Restores, RtSame DEF RtInv, Earlier
  <2> QED
    BY <2>1, <2>2, EndStatic
<1>7. CASE ApplyCommitFails(p)
  BY <1>0, <1>7, FailsFacts, RtSame, EndStatic DEF ApplyCommitFails
<1>8. CASE PromoteFails(p)
  BY <1>0, <1>8, FailsFacts, RtSame, EndStatic DEF PromoteFails
<1> QED
  BY <1>2, <1>3, <1>4, <1>5, <1>6, <1>7, <1>8

(* The same of a deferral and of a repair, and the kill of a command.      *)
LEMMA OtherStatic ==
  ASSUME StaticInv, NEW p \in Procs,
         \/ DeferBegin(p) \/ PublishDesiredFails(p) \/ RepairBaseline(p)
         \/ RepairCommitted(p) \/ RepairFails(p) \/ RepairPublishFails(p)
         \/ Crash(p)
  PROVE  StaticInv'
<1> USE DEF gateway
<1>0. /\ proc \in [Procs -> Works] /\ rt \in Configs /\ dirty \in BOOLEAN
      /\ faults \in 0..MaxFaults /\ conv.appl \in Configs
  BY DEF StaticInv, Types, Snapshots
<1>1. {"registering", "publish"} \subseteq PCs \ {"idle"}
  BY DEF PCs, DeferPCs
<1>2. CASE DeferBegin(p)
  <2>1. /\ At(p, "defer", "planned")
        /\ UNCHANGED <<node, rt, conv, gw, recs, late, manual, dirty, faults>>
    BY <1>2 DEF DeferBegin
  <2>2. proc[p] # Idle /\ Shape(proc[p]) /\ proc[p].cmd = "defer"
        /\ proc[p].pc = "planned" /\ Earlier(proc[p].base)
    BY <2>1, AtFacts
  <2>3. CASE End(p)
    BY <1>0, <2>1, <2>3, RtSame, EndStatic
  <2>4. CASE node.gen = proc[p].base.gen /\ node.pend = NoOp /\ To(p, "registering")
    <3>1. May(proc[p], "registering")
      BY <2>2, <2>4 DEF May, DeferPCs, Earlier
    <3> QED
      BY <1>0, <1>1, <2>1, <2>2, <2>4, <3>1, RtSame, GoStatic
  <2>5. CASE To(p, "publish")
    <3>1. May(proc[p], "publish")
      BY <2>2 DEF May, DeferPCs
    <3> QED
      BY <1>0, <1>1, <2>1, <2>2, <2>5, <3>1, RtSame, GoStatic
  <2> QED
    BY <1>2, <2>3, <2>4, <2>5 DEF DeferBegin
<1>3. CASE PublishDesiredFails(p)
  BY <1>0, <1>3, FailsFacts, RtSame, EndStatic DEF PublishDesiredFails
<1>4. CASE RepairBaseline(p)
  <2>1. /\ End(p)
        /\ rt' = conv.appl \/ rt' = rt
        /\ UNCHANGED <<node, conv, gw, recs, late, manual, faults>>
        /\ dirty' \in BOOLEAN
    BY <1>0, <1>4 DEF RepairBaseline
  <2>2. rt' \in Configs /\ RtInv'
    <3>1. conv.appl.kind \in Kinds /\ conv.appl.gen \in 1..MaxNode
      BY TransportAssumptions DEF StaticInv, ConvInv, Known, NodeInv, Proper,
         Types, Snapshots, Configs, NodeStates
    <3> QED
      BY <1>0, <2>1, <3>1, RtSame DEF RtInv
  <2> QED
    BY <1>0, <2>1, <2>2, EndStatic
<1>5. /\ Config(node.active, node.gen) \in Configs
      /\ Config(node.active, node.gen).kind \in Kinds
      /\ Config(node.active, node.gen).gen \in 1..MaxNode
  BY DEF StaticInv, NodeInv, Proper, Config, Configs, Transports
<1>6. CASE RepairCommitted(p)
  <2>1. /\ At(p, "repair", "planned")
        /\ \/ rt' = Config(node.active, node.gen) /\ To(p, "publish")
           \/ rt' = rt /\ End(p)
        /\ UNCHANGED <<node, conv, gw, recs, late, manual, dirty, faults>>
    BY <1>6 DEF RepairCommitted
  <2>2. proc[p] # Idle /\ proc[p].cmd = "repair"
    BY <2>1, AtFacts
  <2>3. May(proc[p], "publish")
    BY <2>2 DEF May, RepairPCs
  <2>4. rt' \in Configs /\ RtInv'
    BY <1>5, <2>1, RtSame DEF RtInv
  <2> QED
    BY <1>0, <1>1, <2>1, <2>2, <2>3, <2>4, EndStatic, GoStatic
<1>7. CASE RepairFails(p)
  <2>1. /\ End(p) /\ Fails("host")
        /\ rt' = Config(node.active, node.gen) \/ rt' = rt
        /\ UNCHANGED <<node, conv, gw, recs, late, manual>>
        /\ dirty' = (dirty \/ rt' # rt)
    BY <1>7 DEF RepairFails
  <2>2. rt' \in Configs /\ RtInv' /\ dirty' \in BOOLEAN
    BY <1>0, <1>5, <2>1, RtSame DEF RtInv
  <2> QED
    BY <1>0, <2>1, <2>2, FailsFacts, EndStatic
<1>8. CASE RepairPublishFails(p)
  BY <1>0, <1>8, FailsFacts, RtSame, EndStatic DEF RepairPublishFails
<1>9. CASE Crash(p)
  BY <1>0, <1>9, FailsFacts, RtSame, EndStatic DEF Crash
<1> QED
  BY <1>2, <1>3, <1>4, <1>6, <1>7, <1>8, <1>9

-----------------------------------------------------------------------------
(* StaticInv: the steps that write the node's state.                       *)

(* A step that moves the node one generation.                              *)
LEMMA WriteStatic ==
  ASSUME StaticInv, NEW p \in Procs, proc' \in [Procs -> Works],
         \A q \in Procs \ {p} : proc'[q] = proc[q],
         (proc[p] # Idle => Shape(proc[p]))', Onward, AgreeInv',
         UNCHANGED <<rt, conv, gw, recs, late>>,
         manual' \in BOOLEAN, dirty' \in BOOLEAN, faults' \in 0..MaxFaults
  PROVE  StaticInv'
<1>1. Types'
  BY DEF StaticInv, Types, Onward
<1>2. Grows /\ GatewayInv'
  BY DEF StaticInv, Grows, Registered, GatewayInv, Real
<1>3. MessageInv' /\ ConvInv' /\ RtInv'
  BY MessagesOnward, ConvOnward, RtSame DEF StaticInv
<1> QED
  BY <1>1, <1>2, <1>3, StaticStep

(* The state that a command has read is still there.                       *)
LEMMA StillThere ==
  ASSUME StaticInv, NEW p \in Procs, proc[p] # Idle, node.gen = proc[p].base.gen
  PROVE  node = proc[p].base
BY AtWork DEF Shape, Earlier

(* An immediate switch is written.                                         *)
LEMMA SwitchedStatic ==
  ASSUME StaticInv, NEW p \in Procs, At(p, "switch", "verified"),
         node.gen = proc[p].base.gen, node' = Switched(proc[p].base, proc[p].tgt),
         manual' = TRUE, End(p), UNCHANGED <<rt, conv, gw, recs, late>>,
         dirty' \in BOOLEAN, faults' \in 0..MaxFaults
  PROVE  StaticInv'
<1>1. proc[p] # Idle /\ proc[p].cmd = "switch" /\ Shape(proc[p])
  BY AtFacts
<1>2. node = proc[p].base
  BY <1>1, StillThere
<1>3. node \in NodeStates /\ NodeInv /\ node.active \in Kinds
  BY DEF StaticInv, Types, NodeInv, Proper
<1>4. proc[p].tgt \in Kinds /\ node.gen < MaxNode
  BY <1>1, <1>2, <1>3, OtherFacts DEF Shape, SwitchShape
<1>5. Onward /\ node'.pend = node.pend /\ node'.done = node.done
  BY <1>2, <1>3, <1>4, SwitchWrites
<1>6. AgreeInv'
  BY <1>5 DEF StaticInv, AgreeInv, NodeFollowsGateway, SettledMeansAgreed, Mirrors
<1>7. /\ proc' \in [Procs -> Works] /\ proc'[p] = Idle
      /\ \A q \in Procs \ {p} : proc'[q] = proc[q]
  BY EndFacts DEF StaticInv, Types
<1> QED
  BY <1>5, <1>6, <1>7, WriteStatic

(* The commit of an immediate switch, and its failure.                     *)
LEMMA SwitchCommitStatic ==
  ASSUME StaticInv, NEW p \in Procs, SwitchCommit(p) \/ SwitchCommitFails(p)
  PROVE  StaticInv'
<1> USE DEF gateway
<1>0. dirty \in BOOLEAN /\ manual \in BOOLEAN /\ faults \in 0..MaxFaults
  BY DEF StaticInv, Types
<1>1. proc[p] # Idle /\ proc[p].cmd = "switch" /\ At(p, "switch", "verified")
  BY AtFacts DEF SwitchCommit, SwitchCommitFails
<1>2. CASE SwitchCommit(p)
  <2>1. CASE node.gen = proc[p].base.gen
    BY <1>0, <1>1, <1>2, <2>1, SwitchedStatic DEF SwitchCommit
  <2>2. CASE node.gen # proc[p].base.gen
    BY <1>0, <1>2, <2>2, RtSame, EndStatic DEF SwitchCommit
  <2> QED
    BY <2>1, <2>2
<1>3. CASE SwitchCommitFails(p)
  <2>1. /\ UNCHANGED <<rt, conv, gw, recs, late>> /\ faults' \in 0..MaxFaults
        /\ manual' = (manual \/ node' # node)
        /\ IF node' = proc[p].base THEN To(p, "undo") /\ dirty' = dirty
                                   ELSE End(p) /\ dirty' = TRUE
    BY <1>0, <1>3, FailsFacts DEF SwitchCommitFails
  <2>2. CASE node' = node
    <3>1. manual' = manual /\ dirty' \in BOOLEAN
      BY <1>0, <2>1, <2>2
    <3>2. May(proc[p], "undo") /\ "undo" \in PCs \ {"idle"}
      BY <1>1 DEF May, SwitchPCs, PCs
    <3> QED
      BY <1>1, <2>1, <2>2, <3>1, <3>2, RtSame, EndStatic, GoStatic
  <2>3. CASE /\ node.gen = proc[p].base.gen
             /\ node' = Switched(proc[p].base, proc[p].tgt)
    <3>1. node = proc[p].base /\ node \in NodeStates
      BY <1>1, <2>3, StillThere DEF StaticInv, Types
    <3>2. node' # node
      <4>1. node'.gen = node.gen + 1 /\ node.gen \in Nat
        BY <2>3, <3>1 DEF Switched, NodeStates
      <4> QED
        BY <4>1
    <3> QED
      BY <1>1, <2>1, <2>3, <3>1, <3>2, SwitchedStatic
  <2> QED
    BY <1>3, <2>2, <2>3 DEF SwitchCommitFails
<1> QED
  BY <1>2, <1>3

(* Mirroring what the gateway has registered.                              *)
LEMMA MirroredFacts ==
  ASSUME StaticInv, NEW p \in Procs, At(p, "defer", "mirror"),
         node.gen = proc[p].base.gen, node' = Mirrored(p),
         UNCHANGED <<gw, manual>>
  PROVE  /\ Onward /\ AgreeInv' /\ Earlier(node)' /\ node = proc[p].base
         /\ node'.active = node.active /\ node'.pend # NoOp /\ node.pend = NoOp
         /\ node'.pend = Intent(proc[p])
<1>1. /\ proc[p] # Idle /\ proc[p].cmd = "defer" /\ Shape(proc[p])
      /\ proc[p].pc = "mirror" /\ proc[p] \in Works
  BY AtFacts
<1>2. node = proc[p].base
  BY <1>1, StillThere
<1>3. node \in NodeStates /\ NodeInv /\ node.active \in Kinds /\ Proper(node)
  BY DEF StaticInv, Types, NodeInv, Proper
<1>4. /\ node.pend = NoOp /\ node.gen + 2 <= MaxNode
      /\ proc[p].tgt = Other(node.active) /\ Intent(proc[p]) \in Registered
  BY <1>1, <1>2 DEF Shape, DeferShape
<1>5. PICK id \in Ops : id = Intent(proc[p])
  BY <1>4, Neutral DEF StaticInv, GatewayInv
<1>6. id = Operation(node.active, Other(node.active), node.gen, node.last)
  BY <1>2, <1>4, <1>5 DEF Intent
<1>7. PICK l \in Nat : l = IF proc[p].rcpt > node.last THEN proc[p].rcpt ELSE node.last
  BY <1>1, <1>3 DEF Works, NodeStates
<1>8. l >= node.last
  BY <1>1, <1>3, <1>7 DEF Works, NodeStates
<1>9. node' = [node EXCEPT !.gen = node.gen + 1, !.pend = id, !.last = l]
  BY <1>2, <1>3, <1>4, <1>6, <1>7 DEF Mirrored, NodeStates
<1>10. /\ Onward /\ node'.pend = id /\ node'.done = node.done
       /\ node'.active = node.active /\ Real(id)
  BY <1>3, <1>4, <1>6, <1>8, <1>9, MirrorWrites
<1>11. id \notin gw.comp
  <2>1. id.n = node.gen /\ node.gen \in Nat
    BY <1>3, <1>6 DEF Operation, NodeStates
  <2>2. \A d \in node.done : d.n \in Nat /\ d.n + 2 <= node.gen
    BY <1>3 DEF Proper, NodeStates, Ops
  <2>3. id \notin node.done
    BY <2>1, <2>2
  <2>4. id # NoOp
    BY <1>10, Neutral
  <2> QED
    BY <1>4, <2>3, <2>4 DEF StaticInv, AgreeInv, Mirrors
<1>12. AgreeInv'
  <2>1. \A d \in gw.comp : Mirrors(d)'
    BY <1>10, Neutral DEF StaticInv, AgreeInv, GatewayInv, Registered, Onward
  <2>2. id # NoOp /\ id \in gw.pend \cup gw.comp
    BY <1>4, <1>5, <1>10, Neutral DEF Registered
  <2> QED
    BY <1>10, <1>11, <2>1, <2>2 DEF StaticInv, AgreeInv, NodeFollowsGateway,
       SettledMeansAgreed
<1>13. Earlier(node)'
  <2>1. node' \in NodeStates /\ Proper(node)'
    BY <1>10 DEF Onward, NodeInv
  <2>2. node'.pend # NoOp => node'.pend.n # node'.gen
    BY <2>1 DEF Proper, Real, Ids
  <2>3. Known(node.gen, node.active)'
    BY <2>1, <2>2 DEF Known, NodeStates
  <2> QED
    BY <2>1, <2>3 DEF Earlier, Mirrors
<1> QED
  BY <1>2, <1>4, <1>5, <1>10, <1>12, <1>13, Neutral

(* The mirror of a registered operation, and its failure.                  *)
LEMMA MirrorStatic ==
  ASSUME StaticInv, NEW p \in Procs, MirrorIntent(p) \/ MirrorFails(p)
  PROVE  StaticInv'
<1> USE DEF gateway
<1>0. /\ dirty \in BOOLEAN /\ manual \in BOOLEAN /\ faults \in 0..MaxFaults
      /\ proc \in [Procs -> Works]
  BY DEF StaticInv, Types
<1>1. /\ At(p, "defer", "mirror")
      /\ UNCHANGED <<rt, conv, gw, recs, late, manual, dirty>>
      /\ faults' \in 0..MaxFaults
  BY <1>0, FailsFacts DEF MirrorIntent, MirrorFails
<1>2. CASE node' = node /\ End(p)
  BY <1>0, <1>1, <1>2, RtSame, EndStatic
<1>3. CASE /\ node.gen = proc[p].base.gen /\ node' = Mirrored(p) /\ End(p)
  <2>1. Onward /\ AgreeInv'
    BY <1>1, <1>3, MirroredFacts
  <2>2. /\ proc' \in [Procs -> Works] /\ proc'[p] = Idle
        /\ \A q \in Procs \ {p} : proc'[q] = proc[q]
    BY <1>0, <1>3, EndFacts
  <2> QED
    BY <1>0, <1>1, <2>1, <2>2, WriteStatic
<1>4. CASE /\ node.gen = proc[p].base.gen /\ node' = Mirrored(p)
           /\ proc' = [proc EXCEPT ![p].pc = "publish", ![p].base = node']
  <2>1. /\ Onward /\ AgreeInv' /\ Earlier(node)' /\ node = proc[p].base
        /\ node'.active = node.active /\ node'.pend # NoOp
    BY <1>1, <1>4, MirroredFacts
  <2>2. node' \in NodeStates /\ "publish" \in PCs
    BY <2>1 DEF Onward, PCs, DeferPCs
  <2>3. /\ proc' \in [Procs -> Works]
        /\ \A q \in Procs \ {p} : proc'[q] = proc[q]
        /\ proc'[p].pc = "publish" /\ proc'[p].cmd = proc[p].cmd
        /\ proc'[p].tgt = proc[p].tgt /\ proc'[p].base = node'
    BY <1>0, <1>4, <2>2 DEF Works
  <2>4. proc[p].cmd = "defer" /\ Shape(proc[p])
    BY <1>1, AtFacts
  <2>5. Shape(proc[p])'
    <3>1. DeferShape(proc[p])'
      BY <2>1, <2>3, <2>4 DEF Shape, DeferShape, DeferPCs
    <3> QED
      BY <2>1, <2>3, <2>4, <3>1 DEF Shape
  <2> QED
    BY <1>0, <1>1, <2>1, <2>3, <2>5, WriteStatic
<1> QED
  BY <1>2, <1>3, <1>4 DEF MirrorIntent, MirrorFails

(* Completing an operation.                                                *)
LEMMA FinalizedFacts ==
  ASSUME StaticInv, NEW p \in Procs, At(p, "apply", "commit"),
         node.gen = proc[p].base.gen, node' = Finalized(p),
         UNCHANGED <<gw, manual>>
  PROVE  /\ Onward /\ AgreeInv' /\ node = proc[p].base /\ Intended(node)
         /\ node'.pend = NoOp /\ node'.active = node.pend.tgt
         /\ node.pend = proc[p].snap.pend /\ node.pend \in node'.done
         /\ node'.gen = node.pend.n + 2
<1>1. /\ proc[p] # Idle /\ proc[p].cmd = "apply" /\ Shape(proc[p])
      /\ proc[p].pc = "commit" /\ proc[p] \in Works
  BY AtFacts
<1>2. node = proc[p].base
  BY <1>1, StillThere
<1>3. node \in NodeStates /\ NodeInv
  BY DEF StaticInv, Types
<1>4. /\ ApplyPending(node, proc[p].snap) /\ node.pend \in gw.comp
      /\ proc[p].rcpt \in Nat \ {0}
  BY <1>1, <1>2 DEF Shape, ApplyShape, Works
<1>5. Intended(node) /\ node.pend = proc[p].snap.pend
  BY <1>4 DEF ApplyPending
<1>6. node' = [gen |-> node.gen + 1, active |-> node.pend.tgt,
               last |-> proc[p].rcpt, pend |-> NoOp,
               done |-> node.done \cup {node.pend}]
  BY <1>2 DEF Finalized
<1>7. /\ Onward /\ node'.pend = NoOp
      /\ node'.done = node.done \cup {node.pend}
      /\ node'.active = node.pend.tgt
  BY <1>3, <1>4, <1>5, <1>6, FinalWrites
<1>8. AgreeInv'
  BY <1>4, <1>5, <1>7 DEF StaticInv, AgreeInv, NodeFollowsGateway,
     SettledMeansAgreed, Mirrors, Intended
<1>9. node'.gen = node.pend.n + 2
  BY <1>3, <1>5, <1>7 DEF Onward, Intended, NodeStates, Ops
<1> QED
  BY <1>2, <1>5, <1>7, <1>8, <1>9

(* The commit of an applied operation.                                     *)
LEMMA ApplyCommitStatic ==
  ASSUME StaticInv, NEW p \in Procs, ApplyCommit(p)
  PROVE  StaticInv'
<1> USE DEF gateway
<1>0. /\ dirty \in BOOLEAN /\ manual \in BOOLEAN /\ faults \in 0..MaxFaults
      /\ proc \in [Procs -> Works]
  BY DEF StaticInv, Types
<1>1. At(p, "apply", "commit") /\ UNCHANGED <<rt, conv, gw, recs, late, manual, faults>>
  BY DEF ApplyCommit
<1>2. CASE node.gen # proc[p].base.gen
  BY <1>0, <1>1, <1>2, RtSame, EndStatic DEF ApplyCommit
<1>3. CASE node.gen = proc[p].base.gen
  <2>1. node' = Finalized(p) /\ To(p, "promote") /\ dirty' = dirty
    BY <1>3 DEF ApplyCommit
  <2>2. /\ Onward /\ AgreeInv' /\ node.pend = proc[p].snap.pend
        /\ node.pend \in node'.done
    BY <1>1, <1>3, <2>1, FinalizedFacts
  <2>3. /\ proc' \in [Procs -> Works]
        /\ \A q \in Procs \ {p} : proc'[q] = proc[q]
        /\ proc'[p].pc = "promote" /\ proc'[p].cmd = proc[p].cmd
        /\ proc'[p].tgt = proc[p].tgt /\ proc'[p].base = proc[p].base
        /\ proc'[p].snap = proc[p].snap /\ proc'[p].rcpt = proc[p].rcpt
    BY <1>0, <2>1, GoFacts DEF PCs, ApplyPCs
  <2>4. /\ proc[p].cmd = "apply" /\ Shape(proc[p]) /\ proc[p] \in Works
        /\ proc[p].base \in NodeStates
    BY <1>1, AtFacts
  <2>5. Shape(proc[p])'
    <3>1. PICK s \in NodeStates : s = proc[p].base
      BY <2>4
    <3>2. Earlier(s)'
      BY <2>2, <2>4, <3>1 DEF Onward, Shape
    <3>3. Earlier(proc[p].base)'
      BY <2>3, <3>1, <3>2
    <3>4. ApplyShape(proc[p])'
      BY <2>2, <2>3, <2>4 DEF Shape, ApplyShape, ApplyPCs
    <3> QED
      BY <2>3, <2>4, <3>3, <3>4 DEF Shape
  <2> QED
    BY <1>0, <1>1, <2>1, <2>2, <2>3, <2>5, WriteStatic
<1> QED
  BY <1>2, <1>3

-----------------------------------------------------------------------------
(* StaticInv: calls, the gateway and the network.                          *)

(* What a waiting command has asked for may be sent, now or late.          *)
LEMMA RequestFacts ==
  ASSUME StaticInv, NEW p \in Procs, proc[p].pc \in Waiting
  PROVE  /\ proc[p] # Idle /\ Shape(proc[p]) /\ proc[p] \in Works
         /\ RequestOf(p) \in Requests /\ Sendable(RequestOf(p))
         /\ IF proc[p].pc = "registering"
              THEN /\ proc[p].cmd = "defer" /\ proc[p].base.pend = NoOp
                   /\ RequestOf(p).act = "register"
                   /\ RequestOf(p).id = Intent(proc[p])
              ELSE /\ proc[p].cmd = "apply"
                   /\ ApplyPending(proc[p].base, proc[p].snap)
                   /\ RequestOf(p).act = "finalize"
                   /\ RequestOf(p).id = proc[p].base.pend
<1>1. proc[p] # Idle
  BY Neutral DEF Waiting
<1>2. Shape(proc[p]) /\ proc[p] \in Works
  BY <1>1, AtWork
<1>3. /\ proc[p].base \in NodeStates /\ Earlier(proc[p].base)
      /\ Proper(proc[p].base) /\ proc[p].exp \in Nat
      /\ proc[p].base.pend \in Ops /\ proc[p].base.gen \in Nat
      /\ proc[p].base.last \in Nat
  BY <1>2 DEF Shape, Earlier, Works, NodeStates
<1>4. proc[p].cmd \in {"switch", "defer", "apply", "repair"}
  BY <1>2, TransportAssumptions DEF Shape
<1>5. CASE proc[p].pc = "registering"
  <2>1. proc[p].cmd = "defer"
    BY <1>2, <1>4, <1>5 DEF Shape, SwitchShape, ApplyShape, SwitchPCs, ApplyPCs, RepairPCs
  <2>2. /\ proc[p].base.pend = NoOp /\ proc[p].base.gen + 2 <= MaxNode
        /\ proc[p].tgt = Other(proc[p].base.active)
    BY <1>2, <1>5, <2>1 DEF Shape, DeferShape
  <2>3. /\ proc[p].tgt \in Kinds /\ proc[p].tgt # proc[p].base.active
        /\ proc[p].base.active \in Kinds /\ proc[p].base.last >= 1
        /\ proc[p].base.gen \in 1..MaxNode
    BY <1>3, <2>2, OtherFacts DEF Proper
  <2>4. /\ RequestOf(p) = [act |-> "register", exp |-> proc[p].base.last,
                           id |-> Intent(proc[p])]
        /\ Intent(proc[p]).g = proc[p].base.last
    BY <1>5 DEF RequestOf, Intent, Operation
  <2>5. Real(Intent(proc[p]))
    BY <1>3, <2>2, <2>3, TransportAssumptions DEF Real, Intent, Operation, Ids
  <2>6. Intent(proc[p]) \in Ops
    BY <2>5, Neutral
  <2>7. RequestOf(p) \in Requests
    BY <1>3, <2>4, <2>6 DEF Requests
  <2>8. Sendable(RequestOf(p))
    BY <2>4, <2>5 DEF Sendable
  <2> QED
    BY <1>1, <1>2, <1>5, <2>1, <2>2, <2>4, <2>7, <2>8
<1>6. CASE proc[p].pc # "registering"
  <2>1. proc[p].cmd = "apply" /\ proc[p].pc \in {"asking", "finalizing", "reasking"}
    BY <1>2, <1>4, <1>6 DEF Waiting, Shape, SwitchShape, DeferShape, SwitchPCs,
       DeferPCs, RepairPCs
  <2>2. ApplyPending(proc[p].base, proc[p].snap)
    BY <1>2, <2>1 DEF Shape, ApplyShape
  <2>3. /\ proc[p].base.pend # NoOp /\ Real(proc[p].base.pend)
        /\ Mirrors(proc[p].base.pend) /\ proc[p].base.pend.g \in Nat
    BY <1>3, <2>2 DEF ApplyPending, Intended, Proper, Earlier, Ops
  <2>4. PICK e \in Nat : RequestOf(p) = [act |-> "finalize", id |-> proc[p].base.pend,
                                         exp |-> e]
    BY <1>3, <1>6, <2>3 DEF RequestOf
  <2>5. RequestOf(p) \in Requests
    BY <1>3, <2>4 DEF Requests
  <2>6. Sendable(RequestOf(p))
    BY <2>3, <2>4 DEF Sendable
  <2> QED
    BY <1>1, <1>2, <1>6, <2>1, <2>2, <2>4, <2>5, <2>6
<1> QED
  BY <1>5, <1>6

OkPC(pc) == CASE pc = "registering" -> "mirror"
              [] pc = "asking"      -> "ready"
              [] OTHER              -> "commit"

(* Where the answer takes the command.                                     *)
LEMMA ReceiveCases ==
  ASSUME NEW p \in Procs, proc[p].pc \in Waiting,
         NEW kind \in {"ok", "stale", "error"}, NEW g \in Nat, Receive(p, kind, g)
  PROVE  /\ \/ /\ kind = "ok"
               /\ proc' = [proc EXCEPT ![p].rcpt = g, ![p].pc = OkPC(proc[p].pc)]
            \/ kind # "ok" /\ proc[p].pc = "finalizing" /\ To(p, "reasking")
            \/ kind = "stale" /\ proc[p].pc = "asking" /\ To(p, "observe")
            \/ kind = "stale" /\ proc[p].pc = "reasking" /\ To(p, "rollback")
            \/ /\ kind # "ok" /\ proc[p].pc # "finalizing" /\ End(p)
               /\ proc[p].pc = "reasking" => kind = "error"
         /\ dirty' = (dirty \/ (kind = "error" /\ proc[p].pc = "reasking"))
<1>1. CASE kind = "ok"
  BY <1>1 DEF Receive, OkPC
<1>2. CASE kind # "ok" /\ proc[p].pc = "finalizing"
  BY <1>2 DEF Receive
<1>3. CASE kind = "stale" /\ proc[p].pc = "asking"
  BY <1>3 DEF Receive
<1>4. CASE kind = "stale" /\ proc[p].pc = "reasking"
  BY <1>4 DEF Receive
<1>5. CASE /\ kind # "ok" /\ proc[p].pc # "finalizing"
           /\ kind = "stale" => proc[p].pc \notin {"asking", "reasking"}
  BY <1>5 DEF Receive, Waiting
<1> QED
  BY <1>1, <1>2, <1>3, <1>4, <1>5

(* A command that has been answered: its place and what it now knows.      *)
LEMMA ReceiveShape ==
  ASSUME StaticInv, NEW p \in Procs, proc[p].pc \in Waiting,
         NEW kind \in {"ok", "stale", "error"}, NEW g \in Nat, Receive(p, kind, g),
         node' = node, Grows,
         kind = "ok" =>
           /\ g # 0 /\ RequestOf(p).id \in Registered'
           /\ RequestOf(p).act = "finalize" => RequestOf(p).id \in gw'.comp
  PROVE  /\ proc' \in [Procs -> Works] /\ dirty' \in BOOLEAN
         /\ \A q \in Procs \ {p} : proc'[q] = proc[q]
         /\ (proc[p] # Idle => Shape(proc[p]))'
<1>0. /\ proc[p] # Idle /\ Shape(proc[p]) /\ proc[p] \in Works
      /\ proc \in [Procs -> Works] /\ dirty \in BOOLEAN
  BY RequestFacts DEF StaticInv, Types
<1>1. dirty' \in BOOLEAN
  BY <1>0, ReceiveCases
<1>2. ASSUME proc' \in [Procs -> Works], \A q \in Procs \ {p} : proc'[q] = proc[q],
             proc'[p].cmd = proc[p].cmd, proc'[p].tgt = proc[p].tgt,
             proc'[p].base = proc[p].base, proc'[p].snap = proc[p].snap,
             May(proc[p], proc[p].pc)'
      PROVE  Shape(proc[p])'
  <2>1. PICK v \in Works : v = proc[p]
    BY <1>0
  <2>2. Shape(v)'
    <3>1. Shape(v)
      BY <1>0, <2>1
    <3>2. Earlier(v.base)'
      BY <3>1 DEF Shape, Earlier, Proper, Known, Mirrors, Real
    <3>3. DeferShape(v) => DeferShape(v)'
      BY DEF DeferShape, Grows, Intent
    <3>4. ApplyShape(v) => ApplyShape(v)'
      BY DEF ApplyShape, Grows
    <3> QED
      BY <3>1, <3>2, <3>3, <3>4 DEF Shape, SwitchShape
  <2>3. Earlier(proc[p].base)' /\ proc[p].cmd \in Commands
    BY <1>2, <2>1, <2>2 DEF Shape
  <2>4. v.cmd = "switch" => SwitchShape(proc[p])'
    BY <1>2, <2>1, <2>2 DEF Shape, SwitchShape, May
  <2>5. v.cmd = "defer" => DeferShape(proc[p])'
    BY <1>2, <2>1, <2>2 DEF Shape, DeferShape, May
  <2>6. v.cmd = "apply" => ApplyShape(proc[p])'
    BY <1>2, <2>1, <2>2 DEF Shape, ApplyShape, May
  <2>7. v.cmd = "repair" => (proc[p].pc \in RepairPCs)'
    BY <1>2, <2>1 DEF May
  <2> QED
    BY <1>2, <2>1, <2>3, <2>4, <2>5, <2>6, <2>7 DEF Shape
<1>3. CASE /\ kind = "ok"
           /\ proc' = [proc EXCEPT ![p].rcpt = g, ![p].pc = OkPC(proc[p].pc)]
  <2>1. OkPC(proc[p].pc) \in PCs
    BY DEF OkPC, PCs, DeferPCs, ApplyPCs
  <2>2. /\ proc' \in [Procs -> Works]
        /\ \A q \in Procs \ {p} : proc'[q] = proc[q]
        /\ proc'[p].pc = OkPC(proc[p].pc) /\ proc'[p].cmd = proc[p].cmd
        /\ proc'[p].tgt = proc[p].tgt /\ proc'[p].base = proc[p].base
        /\ proc'[p].snap = proc[p].snap /\ proc'[p].rcpt = g
    BY <1>0, <1>3, <2>1 DEF Works
  <2>3. May(proc[p], proc[p].pc)'
    <3>1. CASE proc[p].pc = "registering"
      <4>1. /\ proc[p].cmd = "defer" /\ proc[p].base.pend = NoOp
            /\ Intent(proc[p]) \in Registered'
        BY <1>3, <3>1, RequestFacts
      <4>2. proc'[p].pc = "mirror" /\ Intent(proc'[p]) = Intent(proc[p])
        BY <2>2, <3>1 DEF OkPC, Intent
      <4> QED
        BY <2>2, <4>1, <4>2 DEF May, DeferPCs
    <3>2. CASE proc[p].pc # "registering"
      <4>1. /\ proc[p].cmd = "apply" /\ ApplyPending(proc[p].base, proc[p].snap)
            /\ proc[p].base.pend \in gw'.comp
        BY <1>3, <3>2, RequestFacts
      <4>2. proc'[p].pc \in {"ready", "commit"} /\ g # 0
        BY <1>3, <2>2, <3>2 DEF OkPC
      <4> QED
        BY <2>2, <4>1, <4>2 DEF May, ApplyPCs, ApplyPending, Intended
    <3> QED
      BY <3>1, <3>2
  <2> QED
    BY <1>1, <1>2, <2>2, <2>3
<1>4. ASSUME NEW x \in {"reasking", "observe", "rollback"}, To(p, x),
             proc[p].pc # "registering"
      PROVE  /\ proc' \in [Procs -> Works]
             /\ \A q \in Procs \ {p} : proc'[q] = proc[q]
             /\ Shape(proc[p])'
  <2>1. x \in PCs \ {"idle"}
    BY DEF PCs, ApplyPCs
  <2>2. /\ proc' \in [Procs -> Works]
        /\ \A q \in Procs \ {p} : proc'[q] = proc[q]
        /\ proc'[p].pc = x /\ proc'[p].cmd = proc[p].cmd
        /\ proc'[p].tgt = proc[p].tgt /\ proc'[p].base = proc[p].base
        /\ proc'[p].snap = proc[p].snap /\ proc'[p].rcpt = proc[p].rcpt
    BY <1>0, <1>4, <2>1, GoFacts
  <2>3. proc[p].cmd = "apply" /\ ApplyPending(proc[p].base, proc[p].snap)
    BY <1>4, RequestFacts
  <2>4. proc[p].rcpt # 0 => proc[p].base.pend \in gw'.comp
    BY <1>0, <2>3 DEF Shape, ApplyShape, Waiting, Grows
  <2>5. May(proc[p], proc[p].pc)'
    BY <2>2, <2>3, <2>4 DEF May, ApplyPCs, ApplyPending, Intended
  <2> QED
    BY <1>2, <2>2, <2>5
<1>5. CASE End(p)
  BY <1>0, <1>1, <1>5, EndFacts
<1> QED
  BY <1>1, <1>3, <1>4, <1>5, ReceiveCases

(* A call and the answer to it, or the lack of one.                        *)
LEMMA CallStatic ==
  ASSUME StaticInv, NEW p \in Procs, HandleCall(p) \/ CallFails(p)
  PROVE  StaticInv'
<1> USE DEF gateway
<1>0. /\ proc[p].pc \in Waiting /\ UNCHANGED <<node, rt, conv, manual>>
      /\ faults \in 0..MaxFaults
  BY DEF HandleCall, CallFails, StaticInv, Types
<1>1. RequestOf(p) \in Requests /\ Sendable(RequestOf(p))
  BY <1>0, RequestFacts
<1>2. CASE HandleCall(p)
  <2>1. PICK r \in Requests : r = RequestOf(p)
    BY <1>1
  <2>2. /\ gw' = Outcome(r).gw /\ recs' = Outcome(r).recs
        /\ Receive(p, Outcome(r).kind, Outcome(r).gen)
        /\ UNCHANGED <<late, faults>>
    BY <1>2, <2>1 DEF HandleCall
  <2>3. Handled(r)
    BY <1>0, <1>1, <2>1, <2>2, OutcomeFacts
  <2>4. /\ proc' \in [Procs -> Works] /\ dirty' \in BOOLEAN
        /\ \A q \in Procs \ {p} : proc'[q] = proc[q]
        /\ (proc[p] # Idle => Shape(proc[p]))'
    BY <1>0, <2>1, <2>2, <2>3, ReceiveShape DEF Handled
  <2>5. Types'
    BY <1>0, <2>2, <2>3, <2>4 DEF Handled, StaticInv, Types
  <2>6. MessageInv'
    <3>1. \A x \in late : Sendable(x)'
      BY <1>0 DEF StaticInv, MessageInv, Sendable, Mirrors, Real
    <3> QED
      BY <2>2, <2>3, <3>1 DEF Handled, MessageInv
  <2>7. ConvInv' /\ RtInv'
    BY <1>0, RtSame DEF StaticInv, ConvInv, Known, Real
  <2> QED
    BY <1>0, <2>3, <2>4, <2>5, <2>6, <2>7, StaticStep DEF Handled
<1>3. CASE CallFails(p)
  <2>1. /\ late' = late \cup {RequestOf(p)} /\ Receive(p, "error", 0)
        /\ UNCHANGED <<gw, recs>> /\ faults' \in 0..MaxFaults
    BY <1>0, <1>3, FailsFacts DEF CallFails
  <2>2. Grows /\ GatewayInv' /\ AgreeInv' /\ ConvInv' /\ RtInv'
    BY <1>0, <2>1, SameNode, RtSame
  <2>3. /\ proc' \in [Procs -> Works] /\ dirty' \in BOOLEAN
        /\ \A q \in Procs \ {p} : proc'[q] = proc[q]
        /\ (proc[p] # Idle => Shape(proc[p]))'
    BY <1>0, <2>1, <2>2, ReceiveShape
  <2>4. Types'
    BY <1>0, <1>1, <2>1, <2>3 DEF StaticInv, Types
  <2>5. MessageInv'
    <3>1. PICK r \in Requests : r = RequestOf(p)
      BY <1>1
    <3>2. \A x \in late \cup {r} : Sendable(x)'
      BY <1>0, <1>1, <3>1 DEF StaticInv, MessageInv, Sendable, Mirrors, Real
    <3>3. Registered' = Registered
      BY <2>1 DEF Registered
    <3>4. \A x \in late' : Sendable(x)'
      BY <2>1, <3>1, <3>2
    <3> QED
      BY <2>1, <3>3, <3>4 DEF StaticInv, MessageInv
  <2> QED
    BY <1>0, <2>2, <2>3, <2>4, <2>5, StaticStep
<1> QED
  BY <1>2, <1>3

(* What happens without a command.                                         *)
LEMMA NetworkStatic ==
  ASSUME StaticInv, Network
  PROVE  StaticInv'
<1> USE DEF gateway
<1>1. UNCHANGED <<node, rt, conv, proc, manual, dirty, faults>>
  BY DEF Network, HandleLate, LoseLate, EvictRecord, OtherMutation
<1>2. ASSUME Grows, GatewayInv', AgreeInv', MessageInv', gw' \in Gateways,
             recs' \subseteq Results, late' \subseteq Requests
      PROVE  StaticInv'
  <2>1. ASSUME NEW q \in Procs, proc'[q] # Idle
        PROVE  Shape(proc[q])'
    BY <1>1, <1>2, <2>1, ShapeKept
  <2>2. Types' /\ RtInv'
    BY <1>1, <1>2, RtSame DEF StaticInv, Types
  <2>3. NodeInv' /\ ConvInv'
    BY <1>1 DEF StaticInv, NodeInv, Proper, ConvInv, Known, Real
  <2> QED
    BY <1>2, <2>1, <2>2, <2>3 DEF StaticInv, ProcInv
<1>3. ASSUME NEW r \in late, HandleLate(r)
      PROVE  StaticInv'
  <2>1. r \in Requests /\ Sendable(r)
    BY DEF StaticInv, Types, MessageInv
  <2>2. gw' = Outcome(r).gw /\ recs' = Outcome(r).recs /\ late' = late \ {r}
    BY <1>3 DEF HandleLate
  <2>3. Handled(r)
    BY <1>1, <2>1, <2>2, OutcomeFacts
  <2>4. MessageInv' /\ late' \subseteq Requests
    <3>1. \A x \in late : Sendable(x)' /\ x \in Requests
      BY <1>1 DEF StaticInv, MessageInv, Sendable, Mirrors, Real, Types
    <3> QED
      BY <2>2, <2>3, <3>1 DEF Handled, MessageInv
  <2> QED
    BY <1>2, <2>3, <2>4 DEF Handled
<1>4. ASSUME NEW r \in late, LoseLate(r)
      PROVE  StaticInv'
  <2>1. UNCHANGED <<gw, recs>> /\ late' \subseteq late
    BY <1>4 DEF LoseLate
  <2> QED
    BY <1>1, <1>2, <2>1, SameNode DEF StaticInv, Types
<1>5. ASSUME NEW x \in recs, EvictRecord(x)
      PROVE  StaticInv'
  <2>1. UNCHANGED <<gw, late>> /\ recs' \subseteq recs
    BY <1>5 DEF EvictRecord
  <2>2. Registered' = Registered /\ Grows
    BY <2>1 DEF Registered, Grows
  <2>3. GatewayInv' /\ AgreeInv' /\ MessageInv'
    BY <1>1, <2>1, <2>2 DEF StaticInv, GatewayInv, AgreeInv, NodeFollowsGateway,
       SettledMeansAgreed, Mirrors, Real, MessageInv, Sendable
  <2> QED
    BY <1>2, <2>1, <2>2, <2>3 DEF StaticInv, Types
<1>6. CASE OtherMutation
  <2>1. gw' = [gw EXCEPT !.gen = gw.gen + 1] /\ UNCHANGED <<recs, late>>
    BY <1>6 DEF OtherMutation
  <2>2. gw \in Gateways /\ gw.gen \in Nat
    BY DEF StaticInv, Types, Gateways
  <2>3. /\ gw'.gen = gw.gen + 1 /\ gw'.active = gw.active
        /\ gw'.pend = gw.pend /\ gw'.comp = gw.comp
    BY <2>1, <2>2 DEF Gateways
  <2>4. gw' \in Gateways
    BY <2>1, <2>2 DEF Gateways
  <2>5. Registered' = Registered /\ Grows
    BY <2>3 DEF Registered, Grows
  <2>6. GatewayInv'
    <3>1. \A id \in Registered : Real(id) /\ id.g < gw.gen /\ id.g \in Nat
      BY Neutral DEF StaticInv, GatewayInv, Ops
    <3> QED
      BY <2>2, <2>3, <2>5, <3>1 DEF StaticInv, GatewayInv, Real
  <2>7. AgreeInv' /\ MessageInv'
    BY <1>1, <2>1, <2>3, <2>5 DEF StaticInv, AgreeInv, NodeFollowsGateway,
       SettledMeansAgreed, Mirrors, Real, MessageInv, Sendable
  <2> QED
    BY <1>2, <2>1, <2>4, <2>5, <2>6, <2>7 DEF StaticInv, Types
<1> QED
  BY <1>3, <1>4, <1>5, <1>6 DEF Network

-----------------------------------------------------------------------------
(* StaticInv: the steps that write the convergence snapshot.               *)

(* A step that ends a command and writes the snapshot.                     *)
LEMMA ConvStatic ==
  ASSUME StaticInv, NEW p \in Procs, End(p), conv' \in Snapshots, ConvInv',
         UNCHANGED <<node, rt, gw, recs, late, manual, faults>>,
         dirty' \in BOOLEAN
  PROVE  StaticInv'
<1>1. /\ proc' \in [Procs -> Works] /\ proc'[p] = Idle
      /\ \A q \in Procs \ {p} : proc'[q] = proc[q]
  BY EndFacts DEF StaticInv, Types
<1>2. Types'
  BY <1>1 DEF StaticInv, Types
<1> QED
  BY <1>1, <1>2, SameNode, RtSame, StaticStep

(* The pending operation becomes the desired configuration of the snapshot.*)
LEMMA PublishedFacts ==
  ASSUME StaticInv, NEW p \in Procs, At(p, "defer", "publish"),
         node = proc[p].base, Intended(node), conv.appl.gen = node.pend.n, Clean,
         conv' = [appl |-> conv.appl,
                  des |-> Config(node.pend.tgt, node.pend.n + 2),
                  pend |-> node.pend],
         node' = node
  PROVE  conv' \in Snapshots /\ ConvInv'
<1>1. /\ Real(node.pend) /\ node.pend.n < node.gen /\ node.pend # NoOp
      /\ node.pend \in Ops /\ node.pend.n \in Nat /\ node.pend.tgt \in Kinds
      /\ conv.appl \in Configs
  BY DEF StaticInv, NodeInv, Proper, Intended, Types, NodeStates, Ops, Real, Ids,
     Snapshots
<1>2. Config(node.pend.tgt, node.pend.n + 2) \in Configs
  BY <1>1 DEF Config, Configs, Transports
<1>3. conv' \in Snapshots
  BY <1>1, <1>2 DEF Snapshots
<1>4. conv.appl = Config(node.pend.cur, node.pend.n)
  <2>1. conv.appl.kind = node.pend.cur
    BY <1>1 DEF StaticInv, ConvInv, Known
  <2> QED
    BY <1>1, <2>1 DEF Config, Configs
<1>5. /\ conv'.appl = conv.appl /\ conv'.pend = node.pend
      /\ conv'.des = Config(node.pend.tgt, node.pend.n + 2)
  OBVIOUS
<1>6. /\ conv.appl.kind \in Kinds /\ conv.appl.gen >= 1
      /\ Known(conv.appl.gen, conv.appl.kind)
  BY DEF StaticInv, ConvInv
<1> QED
  BY <1>1, <1>3, <1>4, <1>5, <1>6 DEF ConvInv, Known, Real

(* A configuration of a known generation becomes the baseline.             *)
LEMMA BaselineFacts ==
  ASSUME StaticInv, NEW c \in Configs, c.kind \in Kinds, c.gen >= 1,
         Known(c.gen, c.kind), node' = node,
         conv' = [appl |-> c, des |-> c, pend |-> NoOp]
  PROVE  conv' \in Snapshots /\ ConvInv'
<1>1. conv' \in Snapshots
  BY Neutral DEF Snapshots
<1>2. conv'.appl = c /\ conv'.des = c /\ conv'.pend = NoOp
  OBVIOUS
<1> QED
  BY <1>1, <1>2 DEF ConvInv, Known

(* What an operation that the node has completed had made desired.         *)
LEMMA PromotedFacts ==
  ASSUME StaticInv, NEW p \in Procs, At(p, "apply", "promote"),
         conv.pend = proc[p].snap.pend
  PROVE  /\ conv.des \in Configs /\ conv.des.kind \in Kinds /\ conv.des.gen >= 1
         /\ Known(conv.des.gen, conv.des.kind)
         /\ conv.des = Config(proc[p].snap.pend.tgt, proc[p].snap.pend.n + 2)
<1>1. conv.pend \in node.done
  BY AtFacts DEF Shape, ApplyShape
<1>2. Real(conv.pend) /\ conv.pend # NoOp
  BY <1>1, Neutral DEF StaticInv, NodeInv, Proper
<1>3. conv.des = Config(conv.pend.tgt, conv.pend.n + 2)
  BY <1>2 DEF StaticInv, ConvInv
<1>4. conv.des.kind = conv.pend.tgt /\ conv.des.gen = conv.pend.n + 2
  BY <1>3 DEF Config
<1>5. Known(conv.pend.n + 2, conv.pend.tgt)
  BY <1>1 DEF StaticInv, NodeInv
<1>6. conv.des \in Configs
  BY DEF StaticInv, Types, Snapshots
<1>7. conv.pend.n \in Nat /\ conv.pend.tgt \in Kinds
  BY <1>2 DEF Real, Ids
<1> QED
  BY <1>3, <1>4, <1>5, <1>6, <1>7

(* Publication, promotion and the publication of a repair.                 *)
LEMMA ConvWritesStatic ==
  ASSUME StaticInv, NEW p \in Procs,
         PublishDesired(p) \/ PromoteConvergence(p) \/ RepairPublish(p)
  PROVE  StaticInv'
<1> USE DEF gateway
<1>0. conv \in Snapshots /\ ConvInv /\ dirty \in BOOLEAN
  BY DEF StaticInv, Types
<1>1. ASSUME UNCHANGED <<node, conv>>
      PROVE  conv' \in Snapshots /\ ConvInv'
  BY <1>0, <1>1 DEF ConvInv, Known, Real
<1>2. CASE PublishDesired(p)
  <2>1. /\ At(p, "defer", "publish") /\ End(p)
        /\ UNCHANGED <<node, rt, gw, recs, late, manual, dirty, faults>>
    BY <1>2 DEF PublishDesired
  <2>2. conv' \in Snapshots /\ ConvInv'
    <3>1. CASE conv' = conv
      BY <1>1, <2>1, <3>1
    <3>2. CASE /\ node = proc[p].base /\ Intended(node)
               /\ conv.appl.gen = proc[p].base.pend.n /\ Clean
      <4>1. conv' = [appl |-> conv.appl,
                     des |-> Config(node.pend.tgt, node.pend.n + 2),
                     pend |-> node.pend]
        BY <1>2, <3>2 DEF PublishDesired
      <4> QED
        BY <2>1, <3>2, <4>1, PublishedFacts
    <3> QED
      BY <1>2, <3>1, <3>2 DEF PublishDesired
  <2> QED
    BY <1>0, <2>1, <2>2, ConvStatic
<1>3. CASE PromoteConvergence(p)
  <2>1. /\ At(p, "apply", "promote") /\ End(p)
        /\ UNCHANGED <<node, rt, gw, recs, late, manual, faults>>
        /\ dirty' \in BOOLEAN
    BY <1>0, <1>3 DEF PromoteConvergence
  <2>2. conv' \in Snapshots /\ ConvInv'
    <3>1. CASE conv' = conv
      BY <1>1, <2>1, <3>1
    <3>2. CASE /\ conv.pend = proc[p].snap.pend
               /\ conv' = [appl |-> conv.des, des |-> conv.des, pend |-> NoOp]
      <4>1. PICK c \in Configs : c = conv.des
        BY <2>1, <3>2, PromotedFacts
      <4> QED
        BY <2>1, <3>2, <4>1, PromotedFacts, BaselineFacts
    <3> QED
      BY <1>3, <3>1, <3>2 DEF PromoteConvergence
  <2> QED
    BY <2>1, <2>2, ConvStatic
<1>4. CASE RepairPublish(p)
  <2>1. /\ At(p, "repair", "publish") /\ End(p)
        /\ UNCHANGED <<node, rt, gw, recs, late, manual, faults>>
    BY <1>4 DEF RepairPublish
  <2>2. dirty' \in BOOLEAN
    BY <1>0, <1>4 DEF RepairPublish
  <2>3. conv' \in Snapshots /\ ConvInv'
    <3>1. CASE conv' = conv
      BY <1>1, <2>1, <3>1
    <3>2. ASSUME NEW c, c = Config(proc[p].base.active, proc[p].base.gen),
                 conv' = [appl |-> c, des |-> c, pend |-> NoOp]
          PROVE  conv' \in Snapshots /\ ConvInv'
      <4>1. Proper(proc[p].base) /\ Known(proc[p].base.gen, proc[p].base.active)
            /\ proc[p].base \in NodeStates
        BY <2>1, AtFacts DEF Earlier
      <4>2. /\ c \in Configs /\ c.kind = proc[p].base.active
            /\ c.gen = proc[p].base.gen /\ c.kind \in Kinds /\ c.gen >= 1
        BY <3>2, <4>1, TransportAssumptions DEF Config, Configs, Proper, Transports
      <4> QED
        BY <2>1, <3>2, <4>1, <4>2, BaselineFacts
    <3> QED
      BY <1>4, <3>1, <3>2 DEF RepairPublish
  <2> QED
    BY <2>1, <2>2, <2>3, ConvStatic
<1> QED
  BY <1>2, <1>3, <1>4

(* Every step keeps StaticInv.                                             *)
LEMMA StaticNext ==
  ASSUME StaticInv, [Next]_vars
  PROVE  StaticInv'
<1>1. CASE UNCHANGED vars
  <2>1. UNCHANGED <<node, rt, conv, gw, recs, late, proc, manual, dirty, faults>>
    BY <1>1 DEF vars
  <2>2. Grows /\ NodeInv' /\ GatewayInv' /\ AgreeInv' /\ MessageInv' /\ ConvInv'
    BY <2>1, SameNode
  <2>3. Types' /\ RtInv'
    BY <2>1 DEF StaticInv, Types, RtInv
  <2>4. ASSUME NEW q \in Procs, proc'[q] # Idle
        PROVE  Shape(proc[q])'
    BY <2>1, <2>2, <2>4, ShapeKept
  <2> QED
    BY <2>2, <2>3, <2>4 DEF StaticInv, ProcInv
<1>2. CASE Network
  BY <1>2, NetworkStatic
<1>3. ASSUME NEW p \in Procs, Plan(p) \/ Step(p) \/ Fault(p)
      PROVE  StaticInv'
  BY <1>3, PlanStatic, SwitchingStatic, ApplyStatic, OtherStatic,
     SwitchCommitStatic, MirrorStatic, ApplyCommitStatic, CallStatic,
     ConvWritesStatic
     DEF Step, Fault
<1> QED
  BY <1>1, <1>2, <1>3 DEF Next

-----------------------------------------------------------------------------
(* SettledInv.                                                             *)

(* A command that nobody has run beside.                                   *)
LEMMA Alone ==
  ASSUME SettledInv, ~dirty, NEW p \in Procs, proc[p] # Idle
  PROVE  /\ \A q \in Procs \ {p} : proc[q] = Idle
         /\ Working(proc[p])
         /\ ~Moved(proc[p]) => Recorded
         /\ ~Promoting(proc[p]) => conv.pend \in {NoOp, node.pend}
<1>1. \A q \in Procs \ {p} : proc[q] = Idle
  BY DEF SettledInv, OneCommand
<1>2. ~Moved(Idle) /\ ~Promoting(Idle)
  BY Neutral DEF Moved, OnTarget, Promoting
<1>3. /\ ~Moved(proc[p]) => \A q \in Procs : ~Moved(proc[q])
      /\ ~Promoting(proc[p]) => \A q \in Procs : ~Promoting(proc[q])
  BY <1>1, <1>2
<1> QED
  BY <1>1, <1>3 DEF SettledInv

(* What is left to show when the others are idle.                          *)
LEMMA SettledStep ==
  ASSUME NEW p \in Procs, \A q \in Procs \ {p} : proc'[q] = Idle,
         (proc[p] # Idle => Working(proc[p]))',
         (~Moved(proc[p]) => Recorded)',
         (~Promoting(proc[p]) => conv.pend \in {NoOp, node.pend})'
  PROVE  SettledInv'
<1>1. OneCommand'
  BY DEF OneCommand
<1>2. \A q \in Procs : proc'[q] # Idle => Working(proc[q])'
  OBVIOUS
<1> QED
  BY <1>1, <1>2 DEF SettledInv

(* The same when the command ends.                                         *)
LEMMA SettledEnd ==
  ASSUME StaticInv, NEW p \in Procs, End(p), \A q \in Procs \ {p} : proc[q] = Idle,
         Recorded', conv'.pend \in {NoOp, node'.pend}
  PROVE  SettledInv'
<1>1. proc'[p] = Idle /\ \A q \in Procs \ {p} : proc'[q] = proc[q]
  BY EndFacts DEF StaticInv, Types
<1> QED
  BY <1>1, SettledStep

(* What is on record depends on node, host and baseline alone.             *)
LEMMA RecordedSame ==
  ASSUME Recorded, UNCHANGED <<node, rt>>, conv'.appl = conv.appl
  PROVE  Recorded'
BY DEF Recorded, Orphaned, Intended

(* Putting the old configuration back restores what is on record.          *)
LEMMA OldRecorded ==
  ASSUME StaticInv, rt' = OldConfig(node), UNCHANGED <<node, conv>>
  PROVE  Recorded'
<1>1. node \in NodeStates /\ Proper(node) /\ conv.appl \in Configs
  BY DEF StaticInv, Types, NodeInv, Snapshots
<1>2. /\ rt' \in Configs /\ rt'.kind = node.active
      /\ rt'.gen = IF node.pend = NoOp THEN node.gen ELSE node.pend.n
  BY <1>1, Restores
<1>3. ASSUME ~Orphaned, conv.appl.gen = node.gen
      PROVE  rt' = conv.appl
  <2>1. node.pend = NoOp
    BY <1>1, <1>3 DEF Orphaned, Proper, Real, Ids
  <2>2. conv.appl.kind = node.active
    BY <1>3 DEF StaticInv, ConvInv, Known
  <2> QED
    BY <1>1, <1>2, <1>3, <2>1, <2>2 DEF Configs
<1> QED
  BY <1>2, <1>3 DEF Recorded, Orphaned, Intended

(* Installing the current generation does, too.                            *)
LEMMA CurrentRecorded ==
  ASSUME StaticInv, rt' = Current, UNCHANGED <<node, conv>>
  PROVE  Recorded'
<1>1. conv.appl \in Configs /\ rt'.kind = node.active
  BY DEF StaticInv, Types, Snapshots, Current, Config
<1>2. conv.appl.gen = node.gen => conv.appl = Current
  BY <1>1 DEF StaticInv, ConvInv, Known, Current, Config, Configs
<1> QED
  BY <1>1, <1>2 DEF Recorded

(* The installed configuration is that of the generation just written.     *)
LEMMA WrittenRecorded ==
  ASSUME StaticInv, Onward, rt'.kind = node'.active, conv' = conv
  PROVE  Recorded'
<1>1. conv.appl.gen \in Nat /\ node.gen \in Nat /\ conv.appl.gen <= node.gen
  BY DEF StaticInv, ConvInv, Known, Types, Snapshots, Configs, NodeStates
<1>2. conv'.appl.gen # node'.gen
  BY <1>1 DEF Onward
<1> QED
  BY <1>2 DEF Recorded

(* A command that is planned alone starts from what is on record.          *)
LEMMA PlanSettled ==
  ASSUME StaticInv, SettledInv, NEW p \in Procs, Plan(p)
  PROVE  SettledInv'
<1>1. PICK cmd \in {"switch", "defer", "apply", "repair"}, tgt \in Transports :
         Start(p, cmd, tgt)
  <2>1. Other(node.active) \in Transports
    BY OtherFacts DEF StaticInv, NodeInv, Proper, Transports
  <2>2. PlanApply(p) => conv.pend.tgt \in Transports
    BY ApplyFound DEF PlanApply
  <2> QED
    BY <2>1, <2>2 DEF Plan, PlanSwitch, PlanDefer, PlanApply, PlanRepair, Transports
<1>2. /\ \A q \in Procs \ {p} : proc'[q] = proc[q]
      /\ proc'[p].pc = "planned" /\ proc'[p].base = node /\ proc[p] = Idle
  BY <1>1, StartFacts
<1>3. UNCHANGED <<node, rt, conv>> /\ dirty' = (dirty \/ Beside(p))
  BY <1>1 DEF Start
<1>4. CASE dirty'
  BY <1>4 DEF SettledInv
<1>5. CASE ~dirty'
  <2>1. ~dirty /\ \A q \in Procs : proc[q] = Idle
    BY <1>2, <1>3, <1>5 DEF Beside
  <2>2. ~Moved(Idle) /\ ~Promoting(Idle)
    BY Neutral DEF Moved, OnTarget, Promoting
  <2>3. Recorded /\ conv.pend \in {NoOp, node.pend}
    BY <2>1, <2>2 DEF SettledInv
  <2>4. Recorded'
    BY <1>3, <2>3, RecordedSame
  <2>5. Working(proc[p])'
    BY <1>2, <1>3 DEF Working, OnTarget, Promoting
  <2> QED
    BY <1>2, <1>3, <2>1, <2>3, <2>4, <2>5, SettledStep
<1> QED
  BY <1>4, <1>5

(* A move of a lone command that leaves node, host and snapshot alone, or  *)
(* changes the host and says so by its place.                              *)
LEMMA GoSettled ==
  ASSUME StaticInv, SettledInv, ~dirty, NEW p \in Procs, proc[p] # Idle,
         proc' \in [Procs -> Works], \A q \in Procs \ {p} : proc'[q] = proc[q],
         proc'[p].base = proc[p].base, proc'[p].tgt = proc[p].tgt,
         proc'[p].cmd = proc[p].cmd, UNCHANGED <<node, conv>>,
         ~Promoting(proc[p]), ~Promoting(proc'[p]),
         proc'[p].cmd = "repair" => proc'[p].pc # "publish",
         proc'[p].pc \in OnTarget => rt' = Target(proc[p]),
         Moved(proc'[p]) \/ (~Moved(proc[p]) /\ rt' = rt)
  PROVE  SettledInv'
<1>1. /\ \A q \in Procs \ {p} : proc[q] = Idle
      /\ Working(proc[p]) /\ (~Moved(proc[p]) => Recorded)
      /\ conv.pend \in {NoOp, node.pend}
  BY Alone
<1>2. Working(proc[p])'
  BY <1>1 DEF Working, Target, Promoting
<1>3. ~Moved(proc'[p]) => Recorded'
  BY <1>1, RecordedSame
<1>4. (~Moved(proc[p]) => Recorded)'
  BY <1>3 DEF Moved
<1> QED
  BY <1>1, <1>2, <1>4, SettledStep

(* A lone command ends without having touched the host.                    *)
LEMMA EndSettled ==
  ASSUME StaticInv, SettledInv, ~dirty, NEW p \in Procs, proc[p] # Idle, End(p),
         UNCHANGED <<node, conv, rt>>, ~Moved(proc[p]), ~Promoting(proc[p])
  PROVE  SettledInv'
<1>1. /\ \A q \in Procs \ {p} : proc[q] = Idle
      /\ Recorded /\ conv.pend \in {NoOp, node.pend}
  BY Alone
<1> QED
  BY <1>1, RecordedSame, SettledEnd

(* Make before break, forward and backward.                                *)
LEMMA SwitchingSettled ==
  ASSUME StaticInv, SettledInv, NEW p \in Procs,
         \/ Prepare(p) \/ TestFails(p) \/ Activate(p) \/ ActivateFails(p)
         \/ Verify(p) \/ VerifyFails(p) \/ Compensate(p) \/ CompensateFails(p)
  PROVE  SettledInv'
<1>0. proc \in [Procs -> Works] /\ rt \in Configs
  BY DEF StaticInv, Types
<1>1. CASE dirty'
  BY <1>1 DEF SettledInv
<1>2. CASE ~dirty'
  <2>1. ~dirty /\ UNCHANGED <<node, conv>> /\ ~CompensateFails(p)
    BY <1>2 DEF Prepare, TestFails, Activate, ActivateFails, Verify, VerifyFails,
       Compensate, CompensateFails
  <2>2. PICK x \in {"planned", "prepared", "activated", "undo"} : Switching(p, x)
    BY DEF Prepare, TestFails, Activate, ActivateFails, Verify, VerifyFails,
       Compensate, CompensateFails
  <2>3. /\ proc[p] # Idle /\ proc[p] \in Works /\ NewConfig(p) = Target(proc[p])
        /\ proc[p].cmd \in {"switch", "apply"} /\ ~Promoting(proc[p])
    BY <2>2, SwitchingFacts DEF Switching, Promoting
  <2>4. /\ \A q \in Procs \ {p} : proc[q] = Idle
        /\ Working(proc[p]) /\ proc[p].base = node
        /\ conv.pend \in {NoOp, node.pend}
    BY <2>1, <2>3, Alone DEF Working
  <2>5. {"undo", "activated", "verified"} \subseteq PCs \ {"idle"}
    BY DEF PCs, SwitchPCs
  <2>6. ASSUME NEW y \in {"undo", "activated", "verified"}, To(p, y),
               y # "undo" => rt' = Target(proc[p])
        PROVE  SettledInv'
    <3>1. /\ proc' \in [Procs -> Works] /\ \A q \in Procs \ {p} : proc'[q] = proc[q]
          /\ proc'[p].pc = y /\ proc'[p].cmd = proc[p].cmd
          /\ proc'[p].tgt = proc[p].tgt /\ proc'[p].base = proc[p].base
      BY <1>0, <2>5, <2>6, GoFacts
    <3>2. /\ ~Promoting(proc'[p]) /\ Moved(proc'[p]) /\ proc'[p].cmd # "repair"
          /\ proc'[p].pc \in OnTarget => rt' = Target(proc[p])
      BY <2>3, <2>6, <3>1 DEF Promoting, Moved, OnTarget
    <3> QED
      BY <2>1, <2>3, <3>1, <3>2, GoSettled
  <2>7. CASE Prepare(p) \/ TestFails(p)
    <3>1. ~Moved(proc[p]) /\ rt' = rt
      BY <2>7 DEF Prepare, TestFails, Switching, Moved, OnTarget
    <3>2. CASE End(p)
      BY <2>1, <2>3, <3>1, <3>2, EndSettled
    <3>3. CASE proc' = [proc EXCEPT ![p].pc = "prepared", ![p].seen = rt]
      <4>1. "prepared" \in PCs
        BY DEF PCs, SwitchPCs
      <4>2. /\ proc' \in [Procs -> Works] /\ \A q \in Procs \ {p} : proc'[q] = proc[q]
            /\ proc'[p].pc = "prepared" /\ proc'[p].cmd = proc[p].cmd
            /\ proc'[p].tgt = proc[p].tgt /\ proc'[p].base = proc[p].base
        BY <1>0, <3>3, <4>1 DEF Works
      <4>3. ~Promoting(proc'[p]) /\ proc'[p].pc \notin OnTarget
        BY <4>2 DEF Promoting, OnTarget
      <4> QED
        BY <2>1, <2>3, <3>1, <4>2, <4>3, GoSettled
    <3> QED
      BY <2>7, <3>2, <3>3 DEF Prepare, TestFails
  <2>8. CASE Activate(p)
    BY <2>3, <2>6, <2>8 DEF Activate
  <2>9. CASE ActivateFails(p) \/ VerifyFails(p)
    BY <2>6, <2>9 DEF ActivateFails, VerifyFails
  <2>10. CASE Verify(p)
    <3>1. To(p, "verified") /\ rt' = rt /\ proc[p].pc \in OnTarget
      BY <2>10 DEF Verify, Switching, OnTarget
    <3> QED
      BY <2>4, <2>6, <3>1 DEF Working
  <2>11. CASE Compensate(p)
    <3>1. End(p) /\ rt' = OldConfig(node)
      BY <2>4, <2>11 DEF Compensate
    <3> QED
      BY <2>1, <2>4, <3>1, OldRecorded, SettledEnd
  <2> QED
    BY <2>1, <2>7, <2>8, <2>9, <2>10, <2>11
<1> QED
  BY <1>1, <1>2

(* The immediate switch runs its target when it commits.                   *)
LEMMA SwitchCommitSettled ==
  ASSUME StaticInv, SettledInv, NEW p \in Procs, SwitchCommit(p) \/ SwitchCommitFails(p)
  PROVE  SettledInv'
<1>0. proc \in [Procs -> Works] /\ node \in NodeStates
  BY DEF StaticInv, Types
<1>1. CASE dirty'
  BY <1>1 DEF SettledInv
<1>2. CASE ~dirty'
  <2>1. At(p, "switch", "verified") /\ UNCHANGED <<rt, conv>>
    BY DEF SwitchCommit, SwitchCommitFails
  <2>2. ~dirty /\ proc[p] # Idle /\ proc[p].cmd = "switch" /\ proc[p].pc = "verified"
        /\ Shape(proc[p])
    BY <1>2, <2>1, AtFacts DEF SwitchCommit, SwitchCommitFails
  <2>3. ~Promoting(proc[p])
    BY <2>2 DEF Promoting
  <2>4. /\ \A q \in Procs \ {p} : proc[q] = Idle
        /\ proc[p].base = node /\ rt = Target(proc[p])
        /\ conv.pend \in {NoOp, node.pend}
    BY <2>2, <2>3, Alone DEF Working, OnTarget
  <2>5. CASE SwitchCommit(p)
    <3>1. node' = Switched(node, proc[p].tgt) /\ End(p)
      BY <1>2, <2>4, <2>5 DEF SwitchCommit
    <3>2. NodeInv /\ node.active \in Kinds
      BY DEF StaticInv, NodeInv, Proper
    <3>3. proc[p].tgt \in Kinds /\ node.gen < MaxNode
      BY <2>2, <2>4, <3>2, OtherFacts DEF Shape, SwitchShape
    <3>4. Onward /\ node'.pend = node.pend /\ node'.active = proc[p].tgt
      BY <1>0, <3>1, <3>2, <3>3, SwitchWrites
    <3>5. Recorded'
      BY <2>1, <2>4, <3>4, WrittenRecorded DEF Target, Config
    <3> QED
      BY <2>1, <2>4, <3>1, <3>4, <3>5, SettledEnd
  <2>6. CASE SwitchCommitFails(p)
    <3>1. node' = proc[p].base /\ To(p, "undo")
      BY <1>2, <2>6 DEF SwitchCommitFails
    <3>2. "undo" \in PCs \ {"idle"}
      BY DEF PCs, SwitchPCs
    <3>3. /\ proc' \in [Procs -> Works] /\ \A q \in Procs \ {p} : proc'[q] = proc[q]
          /\ proc'[p].pc = "undo" /\ proc'[p].cmd = proc[p].cmd
          /\ proc'[p].tgt = proc[p].tgt /\ proc'[p].base = proc[p].base
      BY <1>0, <3>1, <3>2, GoFacts
    <3>4. /\ ~Promoting(proc'[p]) /\ Moved(proc'[p]) /\ proc'[p].pc \notin OnTarget
      BY <3>3 DEF Promoting, Moved, OnTarget
    <3> QED
      BY <2>1, <2>2, <2>3, <2>4, <3>1, <3>3, <3>4, GoSettled
  <2> QED
    BY <2>5, <2>6
<1> QED
  BY <1>1, <1>2

(* An answer moves the command on, or back.                                *)
LEMMA CallSettled ==
  ASSUME StaticInv, SettledInv, NEW p \in Procs, HandleCall(p) \/ CallFails(p)
  PROVE  SettledInv'
<1>0. proc \in [Procs -> Works] /\ proc[p].pc \in Waiting
  BY DEF StaticInv, Types, HandleCall, CallFails
<1>1. UNCHANGED <<node, rt, conv>>
  BY DEF HandleCall, CallFails
<1>2. PICK kind \in {"ok", "stale", "error"}, g \in Nat : Receive(p, kind, g)
  <2>1. CASE CallFails(p)
    BY <2>1 DEF CallFails
  <2>2. CASE HandleCall(p)
    <3>1. PICK r \in Requests : r = RequestOf(p) /\ Sendable(r)
      BY <1>0, RequestFacts
    <3>2. /\ gw' = Outcome(r).gw /\ recs' = Outcome(r).recs
          /\ Receive(p, Outcome(r).kind, Outcome(r).gen)
          /\ UNCHANGED <<node, manual>>
      BY <2>2, <3>1 DEF HandleCall
    <3>3. Outcome(r).kind \in {"ok", "stale", "error"} /\ Outcome(r).gen \in Nat
      BY <3>1, <3>2, OutcomeFacts DEF Handled
    <3> QED
      BY <3>2, <3>3
  <2> QED
    BY <2>1, <2>2
<1>3. /\ proc[p] # Idle /\ proc[p].cmd \in {"defer", "apply"}
      /\ proc[p].pc # "registering" => proc[p].cmd = "apply"
      /\ ~Promoting(proc[p])
  BY <1>0, RequestFacts DEF Promoting, Waiting
<1>4. CASE dirty'
  BY <1>4 DEF SettledInv
<1>5. CASE ~dirty'
  <2>1. /\ ~dirty /\ ~(kind = "error" /\ proc[p].pc = "reasking")
    BY <1>0, <1>2, <1>5, ReceiveCases
  <2>2. Working(proc[p])
    BY <1>3, <2>1, Alone
  <2>3. ASSUME NEW y \in {"mirror", "ready", "commit", "reasking", "observe", "rollback"},
               proc' \in [Procs -> Works],
               \A q \in Procs \ {p} : proc'[q] = proc[q], proc'[p].pc = y,
               proc'[p].cmd = proc[p].cmd, proc'[p].tgt = proc[p].tgt,
               proc'[p].base = proc[p].base,
               y \in {"commit", "reasking"} => proc[p].pc \in {"finalizing", "reasking"},
               y \in {"mirror", "ready", "observe"} =>
                 proc[p].pc \in {"registering", "asking"}
        PROVE  SettledInv'
    <3>1. /\ ~Promoting(proc'[p]) /\ proc'[p].cmd # "repair"
          /\ proc'[p].pc \in OnTarget => rt' = Target(proc[p])
      BY <1>1, <1>3, <2>2, <2>3 DEF Promoting, OnTarget, Working
    <3>2. Moved(proc'[p]) \/ (~Moved(proc[p]) /\ rt' = rt)
      BY <1>1, <2>3 DEF Moved, OnTarget
    <3> QED
      BY <1>1, <1>3, <2>1, <2>3, <3>1, <3>2, GoSettled
  <2>4. CASE proc' = [proc EXCEPT ![p].rcpt = g, ![p].pc = OkPC(proc[p].pc)]
    <3>1. /\ OkPC(proc[p].pc) \in PCs /\ OkPC(proc[p].pc) \in {"mirror", "ready", "commit"}
          /\ OkPC(proc[p].pc) = "commit" => proc[p].pc \in {"finalizing", "reasking"}
          /\ OkPC(proc[p].pc) # "commit" => proc[p].pc \in {"registering", "asking"}
      BY <1>0 DEF OkPC, PCs, DeferPCs, ApplyPCs, Waiting
    <3>2. /\ proc' \in [Procs -> Works] /\ \A q \in Procs \ {p} : proc'[q] = proc[q]
          /\ proc'[p].pc = OkPC(proc[p].pc) /\ proc'[p].cmd = proc[p].cmd
          /\ proc'[p].tgt = proc[p].tgt /\ proc'[p].base = proc[p].base
      BY <1>0, <2>4, <3>1 DEF Works
    <3> QED
      BY <2>3, <3>1, <3>2
  <2>5. ASSUME NEW y \in {"reasking", "observe", "rollback"}, To(p, y),
               y = "reasking" => proc[p].pc = "finalizing",
               y = "observe" => proc[p].pc = "asking"
        PROVE  SettledInv'
    <3>1. y \in PCs \ {"idle"}
      BY DEF PCs, ApplyPCs
    <3>2. /\ proc' \in [Procs -> Works] /\ \A q \in Procs \ {p} : proc'[q] = proc[q]
          /\ proc'[p].pc = y /\ proc'[p].cmd = proc[p].cmd
          /\ proc'[p].tgt = proc[p].tgt /\ proc'[p].base = proc[p].base
      BY <1>0, <2>5, <3>1, GoFacts
    <3> QED
      BY <2>3, <2>5, <3>2
  <2>6. CASE End(p) /\ proc[p].pc \notin {"finalizing", "reasking"}
    <3>1. ~Moved(proc[p])
      BY <1>0, <2>6 DEF Moved, OnTarget, Waiting
    <3> QED
      BY <1>1, <1>3, <2>1, <2>6, <3>1, EndSettled
  <2> QED
    BY <1>0, <1>2, <2>1, <2>4, <2>5, <2>6, ReceiveCases
<1> QED
  BY <1>4, <1>5

(* A deferral does not touch the host.                                     *)
LEMMA DeferSettled ==
  ASSUME StaticInv, SettledInv, NEW p \in Procs,
         \/ DeferBegin(p) \/ PublishDesiredFails(p) \/ PublishDesired(p)
         \/ MirrorIntent(p) \/ MirrorFails(p)
  PROVE  SettledInv'
<1>0. proc \in [Procs -> Works] /\ node \in NodeStates
  BY DEF StaticInv, Types
<1>1. CASE dirty'
  BY <1>1 DEF SettledInv
<1>2. CASE ~dirty'
  <2>1. PICK x \in {"planned", "publish", "mirror"} : At(p, "defer", x)
    BY DEF DeferBegin, PublishDesiredFails, PublishDesired, MirrorIntent, MirrorFails
  <2>2. proc[p] # Idle /\ proc[p].cmd = "defer" /\ proc[p].pc = x
    BY <2>1, AtFacts
  <2>3. ~dirty /\ rt' = rt /\ ~Promoting(proc[p]) /\ ~Moved(proc[p])
    BY <1>2, <2>2 DEF DeferBegin, PublishDesiredFails, PublishDesired, MirrorIntent,
       MirrorFails, Promoting, Moved, OnTarget
  <2>4. /\ \A q \in Procs \ {p} : proc[q] = Idle
        /\ Recorded /\ conv.pend \in {NoOp, node.pend}
    BY <2>2, <2>3, Alone
  <2>5. CASE DeferBegin(p) \/ PublishDesiredFails(p)
    <3>1. UNCHANGED <<node, conv>>
      BY <2>5 DEF DeferBegin, PublishDesiredFails
    <3>2. CASE End(p)
      BY <2>2, <2>3, <3>1, <3>2, EndSettled
    <3>3. ASSUME NEW y \in {"registering", "publish"}, To(p, y)
          PROVE  SettledInv'
      <4>1. y \in PCs \ {"idle"}
        BY DEF PCs, DeferPCs
      <4>2. /\ proc' \in [Procs -> Works] /\ \A q \in Procs \ {p} : proc'[q] = proc[q]
            /\ proc'[p].pc = y /\ proc'[p].cmd = proc[p].cmd
            /\ proc'[p].tgt = proc[p].tgt /\ proc'[p].base = proc[p].base
        BY <1>0, <3>3, <4>1, GoFacts
      <4>3. ~Promoting(proc'[p]) /\ proc'[p].pc \notin OnTarget /\ proc'[p].cmd # "repair"
        BY <2>2, <4>2 DEF Promoting, OnTarget
      <4> QED
        BY <2>2, <2>3, <3>1, <4>2, <4>3, GoSettled
    <3> QED
      BY <2>5, <3>2, <3>3 DEF DeferBegin, PublishDesiredFails
  <2>6. CASE PublishDesired(p)
    <3>1. End(p) /\ node' = node
      BY <2>6 DEF PublishDesired
    <3>2. conv'.appl = conv.appl /\ conv'.pend \in {conv.pend, node.pend}
      BY <2>6 DEF PublishDesired
    <3> QED
      BY <2>3, <2>4, <3>1, <3>2, RecordedSame, SettledEnd
  <2>7. CASE MirrorIntent(p) \/ MirrorFails(p)
    <3>1. At(p, "defer", "mirror") /\ UNCHANGED <<conv, gw, manual>>
      BY <2>7 DEF MirrorIntent, MirrorFails, gateway
    <3>2. CASE node' = node /\ End(p)
      BY <2>2, <2>3, <3>1, <3>2, EndSettled
    <3>3. CASE node.gen = proc[p].base.gen /\ node' = Mirrored(p)
      <4>1. Onward /\ node.pend = NoOp /\ node'.active = node.active
        BY <3>1, <3>3, MirroredFacts
      <4>2. rt.kind = node.active
        BY <2>4, <4>1 DEF Recorded, Orphaned
      <4>3. Recorded'
        BY <2>3, <3>1, <4>1, <4>2, WrittenRecorded
      <4>4. conv'.pend = NoOp
        BY <2>4, <3>1, <4>1
      <4>5. CASE End(p)
        BY <2>4, <4>3, <4>4, <4>5, SettledEnd
      <4>6. CASE proc' = [proc EXCEPT ![p].pc = "publish", ![p].base = node']
        <5>1. /\ \A q \in Procs \ {p} : proc'[q] = proc[q]
              /\ proc'[p].pc = "publish" /\ proc'[p].cmd = "defer"
              /\ proc'[p].base = node'
          BY <1>0, <2>2, <4>6 DEF Works
        <5>2. Working(proc[p])'
          BY <5>1 DEF Working, OnTarget, Promoting
        <5> QED
          BY <2>4, <4>3, <4>4, <5>1, <5>2, SettledStep
      <4> QED
        BY <2>7, <3>3, <4>5, <4>6 DEF MirrorIntent, MirrorFails
    <3> QED
      BY <2>7, <3>2, <3>3 DEF MirrorIntent, MirrorFails
  <2> QED
    BY <2>5, <2>6, <2>7
<1> QED
  BY <1>1, <1>2

(* The host runs what is on record, so a finished operation is not behind. *)
LEMMA CompletedElsewhere ==
  ASSUME StaticInv, Recorded, ~Drift, ApplyCompleted(node, conv)
  PROVE  FALSE
<1>1. /\ conv.pend \in node.done /\ node.pend = NoOp /\ node.active = conv.pend.tgt
  BY DEF ApplyCompleted
<1>2. Real(conv.pend) /\ conv.pend # NoOp
  BY <1>1, Neutral DEF StaticInv, NodeInv, Proper
<1>3. conv.appl = Config(conv.pend.cur, conv.pend.n)
  BY <1>2 DEF StaticInv, ConvInv
<1>4. rt.kind = conv.pend.cur
  BY <1>3 DEF Drift, Config
<1>5. rt.kind = node.active
  BY <1>1 DEF Recorded, Orphaned
<1> QED
  BY <1>1, <1>2, <1>4, <1>5 DEF Real

(* The steps of apply up to the commit.                                    *)
LEMMA ApplySettled ==
  ASSUME StaticInv, SettledInv, NEW p \in Procs,
         \/ ApplyBegin(p) \/ ObserveGeneration(p) \/ ObserveFails(p)
         \/ ApplyActivated(p) \/ ApplyRollback(p) \/ ApplyRollbackFails(p)
         \/ ApplyCommitFails(p) \/ PromoteFails(p)
  PROVE  SettledInv'
<1>0. proc \in [Procs -> Works] /\ gw.gen \in Nat
  BY DEF StaticInv, Types, Gateways
<1>1. CASE dirty'
  BY <1>1 DEF SettledInv
<1>2. CASE ~dirty'
  <2>1. /\ ~dirty /\ UNCHANGED <<node, conv>>
        /\ ~ApplyRollbackFails(p) /\ ~ApplyCommitFails(p) /\ ~PromoteFails(p)
    BY <1>2 DEF ApplyBegin, ObserveGeneration, ObserveFails, ApplyActivated,
       ApplyRollback, ApplyRollbackFails, ApplyCommitFails, PromoteFails
  <2>2. PICK x \in {"planned", "observe", "verified", "rollback"} : At(p, "apply", x)
    BY <2>1 DEF ApplyBegin, ObserveGeneration, ObserveFails, ApplyActivated, ApplyRollback
  <2>3. /\ proc[p] # Idle /\ proc[p].cmd = "apply" /\ proc[p].pc = x
        /\ ~Promoting(proc[p])
    BY <2>2, AtFacts DEF Promoting
  <2>4. /\ \A q \in Procs \ {p} : proc[q] = Idle
        /\ Working(proc[p]) /\ proc[p].base = node
        /\ conv.pend \in {NoOp, node.pend} /\ (~Moved(proc[p]) => Recorded)
    BY <2>1, <2>3, Alone DEF Working
  <2>5. ASSUME NEW y \in {"asking", "rollback", "commit", "finalizing"}, To(p, y),
               rt' = rt, y \in {"commit", "finalizing"} => rt = Target(proc[p]),
               y = "asking" => ~Moved(proc[p])
        PROVE  SettledInv'
    <3>1. y \in PCs \ {"idle"}
      BY DEF PCs, ApplyPCs
    <3>2. /\ proc' \in [Procs -> Works] /\ \A q \in Procs \ {p} : proc'[q] = proc[q]
          /\ proc'[p].pc = y /\ proc'[p].cmd = proc[p].cmd
          /\ proc'[p].tgt = proc[p].tgt /\ proc'[p].base = proc[p].base
      BY <1>0, <2>5, <3>1, GoFacts
    <3>3. /\ ~Promoting(proc'[p]) /\ proc'[p].cmd # "repair"
          /\ proc'[p].pc \in OnTarget => rt' = Target(proc[p])
          /\ Moved(proc'[p]) \/ (~Moved(proc[p]) /\ rt' = rt)
      BY <2>3, <2>5, <3>2 DEF Promoting, OnTarget, Moved
    <3> QED
      BY <2>1, <2>3, <3>2, <3>3, GoSettled
  <2>6. CASE ApplyBegin(p)
    <3>1. rt' = rt /\ ~Moved(proc[p])
      BY <2>6 DEF ApplyBegin, At, Moved, OnTarget
    <3>2. CASE End(p)
      BY <2>1, <2>3, <3>1, <3>2, EndSettled
    <3>3. ~(~Drift /\ ApplyCompleted(node, conv))
      BY <2>4, <3>1, CompletedElsewhere
    <3>4. CASE To(p, "asking")
      BY <2>5, <3>1, <3>4
    <3> QED
      BY <2>6, <3>2, <3>3, <3>4 DEF ApplyBegin
  <2>7. CASE ObserveGeneration(p)
    <3>1. rt' = rt /\ ~Moved(proc[p])
      BY <2>7 DEF ObserveGeneration, At, Moved, OnTarget
    <3>2. "ready" \in PCs
      BY DEF PCs, ApplyPCs
    <3>3. /\ proc' \in [Procs -> Works] /\ \A q \in Procs \ {p} : proc'[q] = proc[q]
          /\ proc'[p].pc = "ready" /\ proc'[p].cmd = proc[p].cmd
          /\ proc'[p].tgt = proc[p].tgt /\ proc'[p].base = proc[p].base
      BY <1>0, <2>7, <3>2 DEF ObserveGeneration, Works
    <3>4. ~Promoting(proc'[p]) /\ proc'[p].pc \notin OnTarget /\ proc'[p].cmd # "repair"
      BY <2>3, <3>3 DEF Promoting, OnTarget
    <3> QED
      BY <2>1, <2>3, <3>1, <3>3, <3>4, GoSettled
  <2>8. CASE ObserveFails(p)
    <3>1. rt' = rt /\ ~Moved(proc[p]) /\ End(p)
      BY <2>8 DEF ObserveFails, At, Moved, OnTarget
    <3> QED
      BY <2>1, <2>3, <3>1, EndSettled
  <2>9. CASE ApplyActivated(p)
    <3>1. rt' = rt /\ rt = Target(proc[p])
      BY <2>4, <2>9 DEF ApplyActivated, At, Working, OnTarget
    <3> QED
      BY <2>5, <2>9, <3>1 DEF ApplyActivated
  <2>10. CASE ApplyRollback(p)
    <3>1. End(p) /\ rt' = OldConfig(node)
      BY <2>4, <2>10 DEF ApplyRollback
    <3> QED
      BY <2>1, <2>4, <3>1, OldRecorded, SettledEnd
  <2> QED
    BY <2>1, <2>6, <2>7, <2>8, <2>9, <2>10
<1> QED
  BY <1>1, <1>2

(* Apply commits what it has activated.                                    *)
LEMMA ApplyCommitSettled ==
  ASSUME StaticInv, SettledInv, NEW p \in Procs, ApplyCommit(p)
  PROVE  SettledInv'
<1>0. proc \in [Procs -> Works]
  BY DEF StaticInv, Types
<1>1. CASE dirty'
  BY <1>1 DEF SettledInv
<1>2. CASE ~dirty'
  <2>1. /\ At(p, "apply", "commit") /\ ~dirty /\ node.gen = proc[p].base.gen
        /\ node' = Finalized(p) /\ To(p, "promote")
        /\ UNCHANGED <<rt, conv, gw, manual>>
    BY <1>2 DEF ApplyCommit, gateway
  <2>2. /\ proc[p] # Idle /\ proc[p].cmd = "apply" /\ proc[p].pc = "commit"
        /\ Shape(proc[p]) /\ ~Promoting(proc[p])
    BY <2>1, AtFacts DEF Promoting
  <2>3. /\ \A q \in Procs \ {p} : proc[q] = Idle
        /\ rt = Target(proc[p])
    BY <2>1, <2>2, Alone DEF Working, OnTarget
  <2>4. /\ Onward /\ node = proc[p].base /\ Intended(node)
        /\ node'.pend = NoOp /\ node'.active = node.pend.tgt
        /\ node.pend = proc[p].snap.pend /\ node'.gen = node.pend.n + 2
    BY <2>1, FinalizedFacts
  <2>5. proc[p].tgt = node.pend.tgt
    BY <2>2, <2>4 DEF Shape, ApplyShape
  <2>6. rt = Current'
    BY <2>3, <2>4, <2>5 DEF Target, Current, Config, Onward
  <2>7. Recorded'
    BY <2>1, <2>4, <2>6, WrittenRecorded DEF Current, Config
  <2>8. "promote" \in PCs \ {"idle"}
    BY DEF PCs, ApplyPCs
  <2>9. /\ \A q \in Procs \ {p} : proc'[q] = proc[q]
        /\ proc'[p].pc = "promote" /\ proc'[p].cmd = "apply"
        /\ proc'[p].snap = proc[p].snap
    BY <1>0, <2>1, <2>2, <2>8, GoFacts
  <2>10. Promoting(proc[p])'
    BY <2>9 DEF Promoting
  <2>11. Current' = Config(proc'[p].snap.pend.tgt, proc'[p].snap.pend.n + 2)
    BY <2>4, <2>9 DEF Current
  <2>12. Working(proc[p])'
    BY <2>1, <2>4, <2>6, <2>9, <2>10, <2>11 DEF Working, OnTarget
  <2> QED
    BY <2>3, <2>7, <2>9, <2>10, <2>12, SettledStep
<1> QED
  BY <1>1, <1>2

(* The baseline that is promoted is the one installed.                     *)
LEMMA PromoteSettled ==
  ASSUME StaticInv, SettledInv, NEW p \in Procs, PromoteConvergence(p)
  PROVE  SettledInv'
<1>1. CASE dirty'
  BY <1>1 DEF SettledInv
<1>2. CASE ~dirty'
  <2>1. /\ At(p, "apply", "promote") /\ ~dirty /\ End(p) /\ UNCHANGED <<node, rt>>
    BY <1>2 DEF PromoteConvergence
  <2>2. proc[p] # Idle /\ Promoting(proc[p]) /\ ~Moved(proc[p])
    BY <2>1, AtFacts DEF Promoting, Moved, OnTarget
  <2>3. /\ \A q \in Procs \ {p} : proc[q] = Idle
        /\ Working(proc[p]) /\ Recorded
    BY <2>1, <2>2, Alone
  <2>4. CASE conv.pend = proc[p].snap.pend
             /\ conv' = [appl |-> conv.des, des |-> conv.des, pend |-> NoOp]
    <3>1. rt = Current /\ conv.des = Current
      BY <2>1, <2>2, <2>3, <2>4, PromotedFacts DEF Working
    <3>2. conv'.appl = rt /\ conv'.pend = NoOp /\ rt.kind = node.active
      BY <2>4, <3>1 DEF Current, Config
    <3>3. Recorded'
      BY <2>1, <3>2 DEF Recorded
    <3> QED
      BY <2>1, <2>3, <3>2, <3>3, SettledEnd
  <2>5. CASE conv' = conv /\ conv.pend = NoOp
    BY <2>1, <2>3, <2>5, RecordedSame, SettledEnd
  <2> QED
    BY <1>2, <2>4, <2>5 DEF PromoteConvergence, Clean
<1> QED
  BY <1>1, <1>2

(* The applied baseline of a node that intends an operation, or that has   *)
(* nothing pending, has the transport on record.                           *)
LEMMA BaselineRecorded ==
  ASSUME StaticInv, GenericRepairEligible(node, conv), UNCHANGED <<node, conv>>,
         conv.appl.gen = node.gen \/ conv.pend \in {NoOp, node.pend},
         rt' = conv.appl
  PROVE  Recorded'
<1>1. ASSUME ~Orphaned
      PROVE  conv.appl.kind = node.active
  <2>1. Known(conv.appl.gen, conv.appl.kind)
    BY DEF StaticInv, ConvInv
  <2>2. CASE conv.appl.gen = node.gen
    BY <2>1, <2>2 DEF Known
  <2>3. CASE node.pend # NoOp
    <3>1. conv.appl.gen = node.pend.n /\ node.active # node.pend.tgt
      BY <1>1, <2>3 DEF Orphaned, Intended
    <3>2. conv.appl.kind = node.pend.cur
      BY <2>1, <2>3, <3>1 DEF Known
    <3>3. /\ node.pend.cur \in Kinds /\ node.pend.tgt \in Kinds /\ node.active \in Kinds
          /\ node.pend.cur # node.pend.tgt
      BY <2>3 DEF StaticInv, NodeInv, Proper, Real, Ids
    <3> QED
      BY <3>1, <3>2, <3>3 DEF Kinds
  <2> QED
    BY <2>2, <2>3 DEF GenericRepairEligible
<1> QED
  BY <1>1 DEF Recorded, Orphaned, Intended

(* A baseline at the current generation waits for nothing.                 *)
LEMMA BaselineNotPending ==
  ASSUME StaticInv, conv.appl.gen = node.gen
  PROVE  conv.pend = NoOp
<1>1. ASSUME conv.pend # NoOp
      PROVE  FALSE
  <2>1. conv.pend.n < node.gen /\ conv.appl = Config(conv.pend.cur, conv.pend.n)
    BY <1>1 DEF StaticInv, ConvInv
  <2>2. conv.appl.gen = conv.pend.n /\ node.gen \in Nat
    BY <2>1 DEF Config, StaticInv, Types, NodeStates
  <2> QED
    BY <2>1, <2>2
<1> QED
  BY <1>1

(* A repair installs what is on record.                                    *)
LEMMA RepairSettled ==
  ASSUME StaticInv, SettledInv, NEW p \in Procs,
         RepairBaseline(p) \/ RepairCommitted(p) \/ RepairFails(p)
  PROVE  SettledInv'
<1>0. proc \in [Procs -> Works] /\ dirty \in BOOLEAN
  BY DEF StaticInv, Types
<1>1. CASE dirty'
  BY <1>1 DEF SettledInv
<1>2. CASE ~dirty'
  <2>1. At(p, "repair", "planned") /\ UNCHANGED <<node, conv>>
    BY DEF RepairBaseline, RepairCommitted, RepairFails
  <2>2. /\ proc[p] # Idle /\ proc[p].cmd = "repair" /\ proc[p].pc = "planned"
        /\ ~Promoting(proc[p]) /\ ~Moved(proc[p])
    BY <2>1, AtFacts DEF Promoting, Moved, OnTarget
  <2>3. ASSUME ~dirty
        PROVE  /\ \A q \in Procs \ {p} : proc[q] = Idle
               /\ proc[p].base = node /\ Recorded
               /\ conv.pend \in {NoOp, node.pend}
    BY <2>2, <2>3, Alone DEF Working
  <2>4. CASE End(p) /\ rt' = rt /\ ~dirty
    BY <2>1, <2>2, <2>4, EndSettled
  <2>5. CASE RepairBaseline(p)
    <3>1. CASE ~Unchanged(p)
      BY <1>2, <2>4, <2>5, <3>1 DEF RepairBaseline
    <3>2. CASE Unchanged(p)
      <4>1. /\ End(p) /\ rt' = conv.appl /\ GenericRepairEligible(node, conv)
            /\ dirty' = (dirty /\ (conv.appl.gen # node.gen \/ Beside(p)))
        BY <2>5, <3>2 DEF RepairBaseline, Unchanged
      <4>2. CASE ~dirty
        BY <2>1, <2>3, <4>1, <4>2, BaselineRecorded, SettledEnd
      <4>3. CASE dirty
        <5>1. conv.appl.gen = node.gen /\ \A q \in Procs \ {p} : proc[q] = Idle
          BY <1>2, <4>1, <4>3 DEF Beside
        <5> QED
          BY <2>1, <4>1, <5>1, BaselineNotPending, BaselineRecorded, SettledEnd
      <4> QED
        BY <4>2, <4>3
    <3> QED
      BY <3>1, <3>2
  <2>6. CASE RepairCommitted(p)
    <3>1. ~dirty
      BY <1>2, <2>6 DEF RepairCommitted
    <3>2. CASE rt' = rt /\ End(p)
      BY <2>4, <3>1, <3>2
    <3>3. CASE rt' = Current /\ To(p, "publish")
      <4>1. "publish" \in PCs \ {"idle"}
        BY DEF PCs, RepairPCs
      <4>2. /\ \A q \in Procs \ {p} : proc'[q] = proc[q]
            /\ proc'[p].pc = "publish" /\ proc'[p].cmd = "repair"
            /\ proc'[p].base = node
        BY <1>0, <2>2, <2>3, <3>1, <3>3, <4>1, GoFacts
      <4>3. Recorded'
        BY <2>1, <3>3, CurrentRecorded
      <4>4. rt' = Current'
        BY <2>1, <3>3 DEF Current
      <4>5. Working(proc[p])'
        BY <2>1, <4>2, <4>4 DEF Working, OnTarget, Promoting
      <4> QED
        BY <2>1, <2>3, <3>1, <4>2, <4>3, <4>5, SettledStep
    <3> QED
      BY <2>6, <3>2, <3>3 DEF RepairCommitted, Current
  <2>7. CASE RepairFails(p)
    BY <1>0, <1>2, <2>4, <2>7 DEF RepairFails
  <2> QED
    BY <2>5, <2>6, <2>7
<1> QED
  BY <1>1, <1>2

(* A repair publishes the configuration it has installed.                  *)
LEMMA RepairPublishSettled ==
  ASSUME StaticInv, SettledInv, NEW p \in Procs, RepairPublish(p)
  PROVE  SettledInv'
<1>0. dirty \in BOOLEAN
  BY DEF StaticInv, Types
<1>1. CASE dirty'
  BY <1>1 DEF SettledInv
<1>2. CASE ~dirty'
  <2>1. /\ At(p, "repair", "publish") /\ End(p) /\ UNCHANGED <<node, rt>>
    BY DEF RepairPublish
  <2>2. /\ proc[p] # Idle /\ proc[p].cmd = "repair" /\ proc[p].pc = "publish"
        /\ ~Promoting(proc[p])
    BY <2>1, AtFacts DEF Promoting
  <2>3. PICK c : c = Config(proc[p].base.active, proc[p].base.gen)
    OBVIOUS
  <2>4. /\ conv' = [appl |-> c, des |-> c, pend |-> NoOp]
        /\ dirty' = (dirty /\ (rt # c \/ c.gen # node.gen \/ Beside(p)))
    BY <1>2, <2>3 DEF RepairPublish
  <2>5. /\ rt = c /\ proc[p].base = node
        /\ \A q \in Procs \ {p} : proc[q] = Idle
    <3>1. CASE ~dirty
      <4>1. /\ \A q \in Procs \ {p} : proc[q] = Idle
            /\ Working(proc[p])
        BY <2>2, <3>1, Alone
      <4>2. proc[p].base = node /\ rt = Current
        BY <2>2, <4>1 DEF Working
      <4> QED
        BY <2>3, <4>1, <4>2 DEF Current
    <3>2. CASE dirty
      <4>1. /\ rt = c /\ c.gen = node.gen
            /\ \A q \in Procs \ {p} : proc[q] = Idle
        BY <1>2, <2>4, <3>2 DEF Beside
      <4>2. proc[p].base = node
        BY <2>2, <2>3, <4>1, StillThere DEF Config
      <4> QED
        BY <4>1, <4>2
    <3> QED
      BY <3>1, <3>2
  <2>6. conv'.appl = rt /\ conv'.pend = NoOp /\ rt.kind = node.active
    BY <2>3, <2>4, <2>5 DEF Config
  <2>7. Recorded'
    BY <2>1, <2>6 DEF Recorded
  <2> QED
    BY <2>1, <2>5, <2>6, <2>7, SettledEnd
<1> QED
  BY <1>1, <1>2

(* Every step keeps SettledInv.                                            *)
LEMMA SettledNext ==
  ASSUME StaticInv, SettledInv, [Next]_vars
  PROVE  SettledInv'
<1>1. CASE UNCHANGED vars \/ Network
  <2>1. UNCHANGED <<node, rt, conv, proc, dirty>>
    BY <1>1 DEF vars, Network, HandleLate, LoseLate, EvictRecord, OtherMutation
  <2> QED
    BY <2>1 DEF SettledInv, OneCommand, Working, Recorded, Orphaned, Intended,
       Current, Target, Moved, Promoting
<1>2. ASSUME NEW p \in Procs, Plan(p) \/ Step(p) \/ Fault(p)
      PROVE  SettledInv'
  <2>1. CASE RepairPublishFails(p) \/ Crash(p)
    BY <2>1 DEF RepairPublishFails, Crash, SettledInv
  <2> QED
    BY <1>2, <2>1, PlanSettled, SwitchingSettled, SwitchCommitSettled, CallSettled,
       DeferSettled, ApplySettled, ApplyCommitSettled, PromoteSettled,
       RepairSettled, RepairPublishSettled
       DEF Step, Fault
<1> QED
  BY <1>1, <1>2 DEF Next

-----------------------------------------------------------------------------
(* The theorems.                                                           *)

(* The invariant holds when the node has joined.                           *)
LEMMA TransportInit ==
  ASSUME Init
  PROVE  TransportInv
<1>1. /\ node.gen = 1 /\ node.active = "standard" /\ node.last = 1
      /\ node.pend = NoOp /\ node.done = {} /\ node \in NodeStates
  BY Neutral DEF Init, NoState, NodeStates, Transports, Kinds
<1>2. /\ rt \in Configs /\ rt.kind = "standard" /\ rt.gen = 1
  BY DEF Init, Config, Configs, Transports, Kinds
<1>3. /\ conv \in Snapshots /\ conv.appl = rt /\ conv.des = rt /\ conv.pend = NoOp
  BY <1>2, Neutral DEF Init, Snapshots
<1>4. /\ gw \in Gateways /\ gw.gen = 1 /\ gw.active = "standard"
      /\ gw.pend = {} /\ gw.comp = {}
  BY DEF Init, Gateways, Transports, Kinds
<1>5. /\ proc \in [Procs -> Works] /\ \A p \in Procs : proc[p] = Idle
  BY Neutral DEF Init
<1>6. Types
  <2>1. recs \subseteq Results /\ late \subseteq Requests
    BY DEF Init
  <2>2. manual \in BOOLEAN /\ dirty \in BOOLEAN
    BY DEF Init
  <2>3. faults \in 0..MaxFaults
    BY TransportAssumptions DEF Init
  <2> QED
    BY <1>1, <1>2, <1>3, <1>4, <1>5, <2>1, <2>2, <2>3 DEF Types
<1>7. NodeInv /\ RtInv
  BY <1>1, <1>2, TransportAssumptions DEF NodeInv, Proper, RtInv, Kinds
<1>8. GatewayInv /\ AgreeInv
  BY <1>1, <1>4 DEF GatewayInv, AgreeInv, NodeFollowsGateway, SettledMeansAgreed,
     Registered, Kinds
<1>9. MessageInv /\ ProcInv
  BY <1>5 DEF Init, MessageInv, ProcInv
<1>10. ConvInv
  BY <1>1, <1>2, <1>3 DEF ConvInv, Known, Kinds
<1>11. SettledInv
  <2>1. Recorded
    BY <1>1, <1>2, <1>3 DEF Recorded
  <2> QED
    BY <1>3, <1>5, <2>1 DEF SettledInv, OneCommand
<1> QED
  BY <1>6, <1>7, <1>8, <1>9, <1>10, <1>11 DEF TransportInv, StaticInv

(* The invariant implies the property.                                     *)
LEMMA InvNodeSound ==
  ASSUME TransportInv
  PROVE  NodeSound
<1>0. StaticInv /\ SettledInv
  BY DEF TransportInv
<1>1. /\ node.gen \in 1..MaxNode /\ node.active \in Kinds
      /\ node.pend \in Ids \cup {NoOp} /\ node.done \subseteq Ids
  BY <1>0 DEF StaticInv, NodeInv, Proper, Real
<1>2. conv.appl.kind \in Kinds /\ conv.des.kind \in Kinds
  <2>1. conv.appl.kind \in Kinds
    BY <1>0 DEF StaticInv, ConvInv
  <2>2. CASE conv.pend = NoOp
    BY <1>0, <2>1, <2>2 DEF StaticInv, ConvInv
  <2>3. CASE conv.pend # NoOp
    BY <1>0, <2>3 DEF StaticInv, ConvInv, Real, Ids, Config
  <2> QED
    BY <2>1, <2>2, <2>3
<1>3. gw.active \in Kinds /\ gw.pend \cup gw.comp \subseteq Ids
  BY <1>0 DEF StaticInv, GatewayInv, Registered, Real
<1>4. \A p \in Procs : proc[p] = Idle \/ proc[p].cmd \in Commands
  BY <1>0 DEF StaticInv, ProcInv, Shape
<1>5. NodeAgrees
  BY <1>0, <1>1, <1>2, <1>3, <1>4
     DEF NodeAgrees, TypeOK, StaticInv, Types, RtInv, AgreeInv
<1>6. ASSUME Quiet
      PROVE  rt.kind = node.active /\ (conv.appl.gen = node.gen => rt = conv.appl)
  <2>1. ~dirty /\ ~Orphaned /\ \A p \in Procs : proc[p] = Idle
    BY <1>6 DEF Quiet
  <2>2. ~Moved(Idle)
    BY Neutral DEF Moved, OnTarget
  <2>3. Recorded
    BY <1>0, <2>1, <2>2 DEF SettledInv
  <2> QED
    BY <2>1, <2>3 DEF Recorded
<1> QED
  BY <1>5, <1>6 DEF NodeSound, RunsAsRecorded, RuntimeAsRecorded,
     BaselineMeansInstalled

(* The inductive invariant.                                                *)
LEMMA TransportAlways == Spec => []TransportInv
<1>1. Init => TransportInv
  BY TransportInit
<1>2. TransportInv /\ [Next]_vars => TransportInv'
  BY StaticNext, SettledNext DEF TransportInv
<1> QED
  BY <1>1, <1>2, PTL DEF Spec

(* Whatever commands run beside each other, fail, are killed or lose their *)
(* calls: what the node has completed or retains the gateway has on        *)
(* record, a node with nothing pending agrees with the gateway unless it   *)
(* was switched by hand, and after commands that ended with a certain      *)
(* outcome the node runs the transport and the baseline that are recorded  *)
(* (switch_workflow.go, transport_switch_apply.go, repair.go).             *)
THEOREM NodeAlwaysSound == Spec => []NodeSound
<1>1. TransportInv => NodeSound
  BY InvNodeSound
<1> QED
  BY <1>1, TransportAlways, PTL

(* No step of the gateway, a request that arrives late or twice included,  *)
(* selects a transport other than the target of the operation the node     *)
(* retains (transport_switch_mutation.go, mutation.go).                    *)
THEOREM SelectionIsIntended == Spec => SelectionFollowsIntent
<1>1. ASSUME TransportInv, [Next]_vars
      PROVE  [gw'.active # gw.active =>
                node.pend # NoOp /\ gw'.active = node.pend.tgt]_vars
  <2>0. StaticInv
    BY <1>1 DEF TransportInv
  <2>1. CASE gw'.active = gw.active
    BY <2>1
  <2>2. ASSUME NEW r \in late, HandleLate(r)
        PROVE  gw'.active # gw.active => node.pend # NoOp /\ gw'.active = node.pend.tgt
    <3>1. r \in Requests /\ Sendable(r)
      BY <2>0, <2>2 DEF StaticInv, Types, MessageInv
    <3>2. /\ UNCHANGED <<node, manual>> /\ gw' = Outcome(r).gw
          /\ recs' = Outcome(r).recs
      BY <2>2 DEF HandleLate
    <3> QED
      BY <2>0, <3>1, <3>2, OutcomeFacts DEF Handled
  <2>3. ASSUME NEW p \in Procs, HandleCall(p)
        PROVE  gw'.active # gw.active => node.pend # NoOp /\ gw'.active = node.pend.tgt
    <3>1. PICK r \in Requests : r = RequestOf(p) /\ Sendable(r)
      BY <2>0, <2>3, RequestFacts DEF HandleCall
    <3>2. /\ UNCHANGED <<node, manual>> /\ gw' = Outcome(r).gw
          /\ recs' = Outcome(r).recs
      BY <2>3, <3>1 DEF HandleCall
    <3> QED
      BY <2>0, <3>1, <3>2, OutcomeFacts DEF Handled
  <2>4. OtherMutation => gw'.active = gw.active
    BY <2>0 DEF OtherMutation, StaticInv, Types, Gateways
  <2>5. UNCHANGED vars => gw'.active = gw.active
    BY DEF vars
  <2>6. ASSUME NEW p \in Procs, Plan(p) \/ Step(p) \/ Fault(p), ~HandleCall(p)
        PROVE  gw' = gw
    <3>1. CASE Plan(p)
      BY <3>1 DEF Plan, PlanSwitch, PlanDefer, PlanApply, PlanRepair, Start, gateway
    <3>2. CASE Step(p)
      BY <2>6, <3>2 DEF Step, Prepare, Activate, Verify, Compensate, SwitchCommit,
         DeferBegin, MirrorIntent, PublishDesired, ApplyBegin, ObserveGeneration,
         ApplyActivated, ApplyRollback, ApplyCommit, PromoteConvergence,
         RepairBaseline, RepairCommitted, RepairPublish, gateway
    <3>3. CASE Fault(p)
      BY <3>3 DEF Fault, TestFails, ActivateFails, VerifyFails, CompensateFails,
         SwitchCommitFails, CallFails, MirrorFails, PublishDesiredFails,
         ObserveFails, ApplyRollbackFails, ApplyCommitFails, PromoteFails,
         RepairFails, RepairPublishFails, Crash, gateway
    <3> QED
      BY <2>6, <3>1, <3>2, <3>3
  <2>7. Network => \/ \E r \in late : HandleLate(r)
                   \/ gw' = gw \/ OtherMutation
    BY DEF Network, LoseLate, EvictRecord, gateway
  <2> QED
    BY <1>1, <2>1, <2>2, <2>3, <2>4, <2>5, <2>6, <2>7 DEF Next
<1> QED
  BY <1>1, TransportAlways, PTL DEF Spec, SelectionFollowsIntent
=============================================================================
