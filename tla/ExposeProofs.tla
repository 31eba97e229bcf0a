----------------------------- MODULE ExposeProofs -----------------------------
(***************************************************************************)
(* The expose workflows for any number of nodes, exposes, ports, commands  *)
(* and failures, when an operator runs one command at a time on a node:    *)
(* a public route always leads to a mapping of the node it was published   *)
(* for, an acknowledged expose stays served, and a port is released only   *)
(* when nothing uses it.                                                   *)
(***************************************************************************)
EXTENDS Expose, WellFoundedInduction, TLAPS

States == {"absent", "pending", "ready", "disabled"}
Live == {"pending", "ready"}
Acts == {"reserve", "defer", "abort", "publish", "unpublish", "finalize"}
GatewayStates == [gen : Nat, ex : [Ids -> States]]
NodeStates == [gen : Nat, last : Nat, ex : [Ids -> States]]
RequestType == [act : Acts, e : Ids, gen : Nat, was : States]
Generations == [gen : Nat, routes : SUBSET Ids]
NginxType == [cur : Generations, old : SUBSET Generations, run : SUBSET Ids]
Handlers == [step : {"save", "rollback", "commit"}, r : RequestType,
             p : Procs \cup {None}, prev : Generations]

(* A creation before its request to publish, one that has sent it, and the *)
(* steps of a removal whose route is gone.                                 *)
Early == {"planned", "reserved", "mapped", "saved", "unmapping", "aborting", "unsaving"}
Public == {"publishing", "published"}
Gone == {"unpublished", "draining", "finalizing", "released"}
Jobs == [pc : Early \cup Public \cup Gone, cmd : {"create", "defer", "remove"}, e : Ids,
         base : NodeStates, gen : Nat, saved : BOOLEAN]
JobShape(j) ==
  /\ j.cmd = "create" => j.pc \in Early \cup Public
  /\ j.cmd = "defer" => j.pc = "planned"
  /\ j.cmd = "remove" => j.pc \in Gone \cup {"planned"}

ExposeType ==
  /\ gw \in GatewayStates /\ node \in [Nodes -> NodeStates]
  /\ port \in [Ids -> Ports \cup {0}]
  /\ conf \in [Nodes -> [map : SUBSET Ids, left : BOOLEAN]]
  /\ reg \subseteq Ids /\ nginx \in NginxType
  /\ h \in Handlers \cup {NoHandler} /\ late \subseteq RequestType
  /\ proc \in [Procs -> Jobs \cup {Idle}]
  /\ \A p \in Procs : proc[p] # Idle => JobShape(proc[p])
  /\ acked \subseteq Ids /\ torn \in BOOLEAN /\ faults \in 0..MaxFaults

Works(p) == proc[p] # Idle
Handling == h # NoHandler
Creates(p, e) == Works(p) /\ proc[p].e = e /\ proc[p].cmd # "remove"

(* One command at a time on a node, and it works on an expose of its node. *)
Alone ==
  /\ \A p, q \in Procs : Works(p) /\ Works(q) /\ HostOf[p] = HostOf[q] => p = q
  /\ \A p \in Procs : Works(p) => Owner[proc[p].e] = HostOf[p] /\ port[proc[p].e] # 0

(* The commands on the node that owns an expose, and the records of it on  *)
(* that node: the stored one and the one a command has planned from.       *)
On(e) == {p \in Procs : HostOf[p] = Owner[e] /\ Works(p)}
Seen(e) == {node[Owner[e]].ex[e]} \cup {proc[p].base.ex[e] : p \in On(e)}

(* Everything nginx serves, or will serve when what is at work is undone   *)
(* or repeated.                                                            *)
Undoable == Handling /\ h.step \in {"save", "rollback"}
Routes ==
  nginx.run \cup nginx.cur.routes \cup Ready(gw.ex)
    \cup (IF Undoable THEN h.prev.routes ELSE {})

(* The expose exists nowhere yet; its planned port is still nobody's.      *)
Fresh(e) ==
  /\ gw.ex[e] = "absent" /\ e \notin Routes /\ e \notin reg
  /\ Seen(e) = {"absent"} /\ (Handling => h.r.e # e)
FreshPort(e) == \A x \in reg \cup Present(gw.ex) : port[x] # port[e]

(* It was not published, and no request will publish it.                   *)
NotYet(e) ==
  /\ e \notin Routes
  /\ \A s \in late : s.e = e => s.act # "publish"
  /\ Handling /\ h.r.e = e => h.r.act # "publish"

(* It is mapped, and whatever its node installs next maps it.              *)
Mapped(e) ==
  /\ node[Owner[e]].ex[e] \in Live /\ e \in conf[Owner[e]].map
  /\ \A p \in On(e) : \/ proc[p].base.ex[e] \in Live
                      \/ proc[p].e = e /\ proc[p].pc \in Public

(* It is served, whatever is undone.                                       *)
Firm(e) ==
  /\ gw.ex[e] = "ready" /\ e \in nginx.run /\ e \in nginx.cur.routes
  /\ Undoable => e \in h.prev.routes

(* Its route is gone; and its mapping too, for good.                       *)
Withdrawn(e) == gw.ex[e] \in {"disabled", "absent"} /\ e \notin Routes
Retired(e) ==
  Withdrawn(e) /\ e \notin conf[Owner[e]].map /\ Seen(e) \cap Live = {}

(* A reservation is the first request for its expose; while the gateway is *)
(* still at the generation it was planned for, its port is free.           *)
Reserving(e, g) ==
  Fresh(e) /\ g <= gw.gen /\ (g = gw.gen => FreshPort(e))

LateOK(r) ==
  /\ port[r.e] # 0
  /\ \A p \in Procs : Creates(p, r.e) => r.act = "abort" /\ proc[p].pc = "unsaving"
  /\ r.act \in {"reserve", "defer"} =>
       /\ Reserving(r.e, r.gen)
       /\ \A p \in Procs : Works(p) => proc[p].e # r.e
       /\ \A s \in late : s.e = r.e => s = r
  /\ r.act = "abort" => NotYet(r.e)
  /\ r.act = "publish" /\ gw.ex[r.e] = "pending" => Mapped(r.e)
  /\ r.act = "unpublish" => r.was # "absent"
  /\ r.act = "finalize" => Retired(r.e)

CreateOK(p) ==
  LET e == proc[p].e  pc == proc[p].pc IN
  /\ pc = "planned" => Reserving(e, proc[p].gen)
  /\ pc \in Early => NotYet(e)
  /\ pc = "saved" => node[HostOf[p]].ex[e] = "pending"
  /\ pc = "publishing" /\ gw.ex[e] = "pending" => Mapped(e)
  /\ pc = "published" => Firm(e)
RemoveOK(p) ==
  LET e == proc[p].e  pc == proc[p].pc  n == HostOf[p] IN
  /\ pc = "planned" => proc[p].base.ex[e] # "absent"
  /\ pc \in {"planned", "unpublished"} => node[n].ex = proc[p].base.ex
  /\ pc \in Gone => Withdrawn(e)
  /\ pc = "draining" => Seen(e) = {"disabled"}
  /\ pc = "finalizing" => Retired(e)
JobOK(p) == IF proc[p].cmd = "remove" THEN RemoveOK(p) ELSE CreateOK(p)

(* What the publication at work has done and for whom.                     *)
HandlerInv ==
  Handling =>
    /\ h.r.act \in {"publish", "unpublish"} /\ port[h.r.e] # 0
    /\ h.p \in Procs => proc[h.p].pc \in Asking /\ RequestOf(h.p) = h.r
    /\ \A p \in Procs : Creates(p, h.r.e) => h.p = p
    /\ nginx.run = nginx.cur.routes
    /\ h.r.e \in nginx.cur.routes <=> h.r.act = "publish"
    /\ h.step = "save" => gw.ex[h.r.e] \in (IF h.r.act = "publish" THEN {"pending"} ELSE Live)
    /\ h.step = "commit" => gw.ex[h.r.e] = Goal(h.r)

(* Unless state and nginx were torn apart, the routes are the published    *)
(* exposes.                                                                *)
ServedInv ==
  ~torn =>
    /\ Undoable => h.prev.routes = Ready(gw.ex)
    /\ Handling /\ h.step = "save" =>
         nginx.cur.routes = Ready([gw.ex EXCEPT ![h.r.e] = Goal(h.r)])
    /\ ~Undoable => nginx.run = Ready(gw.ex) /\ nginx.cur.routes = Ready(gw.ex)
LinkedInv == nginx.run \in {nginx.cur.routes} \cup {x.routes : x \in nginx.old}

PortInv ==
  /\ Valid(gw.ex)
  /\ \A e \in Present(gw.ex), x \in reg : port[x] = port[e] => x = e

(* Everything about one expose.                                            *)
Routed(e) == e \in Routes => gw.ex[e] # "absent" /\ Mapped(e)
Unplanned(e) == port[e] = 0 => Fresh(e) /\ \A r \in late : r.e # e
AckedOK(e) ==
  e \in acked => Firm(e) /\ Seen(e) = {"ready"} /\ (Handling => h.r.e # e)
DisabledOK(e) == "disabled" \in Seen(e) => Withdrawn(e)
ExposeOK(e) ==
  /\ \A r \in late : r.e = e => LateOK(r)
  /\ \A p \in Procs : Works(p) /\ proc[p].e = e => JobOK(p)
  /\ Routed(e) /\ Unplanned(e) /\ AckedOK(e) /\ DisabledOK(e)

Globals == HandlerInv /\ ServedInv /\ LinkedInv /\ PortInv
ExposeInv == ExposeType /\ Alone /\ Globals /\ \A e \in Ids : ExposeOK(e)

-----------------------------------------------------------------------------
(* Elementary facts *)

(* Min, as the allocator uses it, picks an element of a nonempty set.      *)
LEMMA MinIn == ASSUME NEW S \in SUBSET Nat, S # {} PROVE Min(S) \in S
<1> DEFINE B == {ss \in Nat \X Nat : ss[1] < ss[2]}
<1>1. OpToRel(<, Nat) = B
  BY DEF OpToRel
<1>2. IsWellFoundedOn(B, Nat)
  BY NatLessThanWellFounded, <1>1, Zenon
<1>3. \A y, z \in Nat : y < z => <<y, z>> \in B
  OBVIOUS
<1> HIDE DEF B
<1>4. PICK x \in S : \A y \in S : ~(<<y, x>> \in B)
  BY <1>2, WFMin, Zenon
<1>5. \A y \in S : ~(y < x)
  BY <1>3, <1>4
<1>6. \A y \in S : x <= y
  BY <1>5
<1> QED
  BY <1>6 DEF Min

(* A command at work is no idle one, a handler at work no idle one.        *)
LEMMA JobFacts ==
  /\ Idle \notin Jobs /\ NoHandler \notin Handlers
  /\ NoHandler.step = "none" /\ NoHandler.p = None /\ Idle.pc = "idle"
BY DEF Idle, Jobs, Early, Public, Gone, NoHandler, Handlers

(* The types of what is at work.                                           *)
LEMMA WorkType ==
  ASSUME ExposeType, NEW p \in Procs
  PROVE  /\ Works(p) <=> proc[p] \in Jobs
         /\ Works(p) => /\ proc[p].e \in Ids /\ proc[p].base \in NodeStates
                        /\ proc[p].base.ex \in [Ids -> States] /\ JobShape(proc[p])
         /\ HostOf[p] \in Nodes /\ p # None
  <1>1. proc[p] \in Jobs \cup {Idle}
    BY DEF ExposeType
  <1>2. Works(p) <=> proc[p] \in Jobs
    BY <1>1, JobFacts DEF Works
  <1>3. Works(p) => /\ proc[p].e \in Ids /\ proc[p].base \in NodeStates
                    /\ proc[p].base.ex \in [Ids -> States] /\ JobShape(proc[p])
    BY <1>2 DEF Jobs, NodeStates, ExposeType, Works
  <1> QED
    BY <1>2, <1>3, ExposeAssumptions

(* The types of the publication at work.                                   *)
LEMMA HandlerType ==
  ASSUME ExposeType
  PROVE  /\ Handling <=> h \in Handlers
         /\ Handling <=> h.step # "none"
         /\ Handling => /\ h.r \in RequestType /\ h.r.e \in Ids /\ h.r.gen \in Nat
                        /\ h.r.was \in States
                        /\ h.prev \in Generations /\ h.prev.routes \subseteq Ids
                        /\ h.p \in Procs \cup {None}
                        /\ h.step \in {"save", "rollback", "commit"}
         /\ ~Handling => h.p = None /\ h.step = "none"
<1>1. h \in Handlers \cup {NoHandler}
  BY DEF ExposeType
<1>2. h \in Handlers => /\ h.r \in RequestType /\ h.r.e \in Ids /\ h.r.gen \in Nat
                        /\ h.r.was \in States
                        /\ h.prev \in Generations /\ h.prev.routes \subseteq Ids
                        /\ h.p \in Procs \cup {None}
                        /\ h.step \in {"save", "rollback", "commit"}
  BY DEF Handlers, RequestType, Generations
<1> QED
  BY <1>1, <1>2, JobFacts DEF Handling

(* The types of the shared state and of the nodes.                         *)
LEMMA GatewayType ==
  ASSUME ExposeType
  PROVE  /\ gw.gen \in Nat /\ gw.ex \in [Ids -> States]
         /\ gw = [gen |-> gw.gen, ex |-> gw.ex]
         /\ nginx.cur \in Generations /\ nginx.cur.routes \subseteq Ids
         /\ nginx.old \subseteq Generations /\ nginx.run \subseteq Ids
         /\ \A n \in Nodes : node[n] \in NodeStates /\ node[n].ex \in [Ids -> States]
         /\ \A n \in Nodes : conf[n].map \subseteq Ids
         /\ \A r \in late : r.e \in Ids /\ r.gen \in Nat /\ r.act \in Acts /\ r.was \in States
         /\ \A e \in Ids : Owner[e] \in Nodes
BY ExposeAssumptions DEF ExposeType, GatewayStates, NginxType, Generations, NodeStates, RequestType

(* What a command asks for.                                                *)
ActOf(p) ==
  CASE proc[p].pc = "planned" /\ proc[p].cmd = "create" -> "reserve"
    [] proc[p].pc = "planned" /\ proc[p].cmd = "defer" -> "defer"
    [] proc[p].pc = "planned" /\ proc[p].cmd = "remove" -> "unpublish"
    [] proc[p].pc = "aborting"   -> "abort"
    [] proc[p].pc = "publishing" -> "publish"
    [] proc[p].pc = "finalizing" -> "finalize"

(* The request of a command, from its step and its kind.                   *)
LEMMA RequestShape ==
  ASSUME ExposeType, NEW p \in Procs, Works(p), proc[p].pc \in Asking
  PROVE  /\ RequestOf(p) \in RequestType
         /\ RequestOf(p).e = proc[p].e /\ RequestOf(p).gen = proc[p].gen
         /\ proc[p].pc = "planned" => RequestOf(p).was = proc[p].base.ex[proc[p].e]
         /\ RequestOf(p).act = "reserve" <=> proc[p].pc = "planned" /\ proc[p].cmd = "create"
         /\ RequestOf(p).act = "defer" <=> proc[p].pc = "planned" /\ proc[p].cmd = "defer"
         /\ RequestOf(p).act = "unpublish" <=> proc[p].pc = "planned" /\ proc[p].cmd = "remove"
         /\ RequestOf(p).act = "abort" <=> proc[p].pc = "aborting"
         /\ RequestOf(p).act = "publish" <=> proc[p].pc = "publishing"
         /\ RequestOf(p).act = "finalize" <=> proc[p].pc = "finalizing"
<1> DEFINE a == ActOf(p)
           w == IF proc[p].pc = "planned" THEN proc[p].base.ex[proc[p].e] ELSE "absent"
<1>1. RequestOf(p) = [act |-> a, e |-> proc[p].e, gen |-> proc[p].gen, was |-> w]
  BY DEF RequestOf, ActOf
<1>2. proc[p] \in Jobs /\ proc[p].e \in Ids /\ proc[p].base.ex \in [Ids -> States]
  BY WorkType
<1>3. proc[p].gen \in Nat /\ proc[p].cmd \in {"create", "defer", "remove"}
  BY <1>2 DEF Jobs
<1>4. w \in States
  BY <1>2 DEF States
<1>5. /\ a \in Acts
      /\ a = "reserve" <=> proc[p].pc = "planned" /\ proc[p].cmd = "create"
      /\ a = "defer" <=> proc[p].pc = "planned" /\ proc[p].cmd = "defer"
      /\ a = "unpublish" <=> proc[p].pc = "planned" /\ proc[p].cmd = "remove"
      /\ a = "abort" <=> proc[p].pc = "aborting"
      /\ a = "publish" <=> proc[p].pc = "publishing"
      /\ a = "finalize" <=> proc[p].pc = "finalizing"
  BY <1>3 DEF Asking, Acts, ActOf
<1>6. proc[p].pc = "planned" => w = proc[p].base.ex[proc[p].e]
  OBVIOUS
<1> HIDE DEF a, w
<1>7. RequestOf(p) \in RequestType
  BY <1>1, <1>2, <1>3, <1>4, <1>5 DEF RequestType
<1> QED
  BY <1>1, <1>5, <1>6, <1>7

(* How a command goes on after an answer.                                  *)
Proceeds(p, j) ==
  j \in Jobs /\ j.e = proc[p].e /\ j.cmd = proc[p].cmd /\ j.base = proc[p].base
AnswerStep(p, ok, j) ==
  \/ ok /\ RequestOf(p).act = "reserve" /\ j.pc = "reserved"
  \/ ok /\ RequestOf(p).act = "publish" /\ j.pc = "published"
  \/ ok /\ RequestOf(p).act = "unpublish" /\ j.pc = "unpublished"
  \/ ok /\ RequestOf(p).act = "finalize" /\ j.pc = "released"
  \/ RequestOf(p).act = "abort" /\ j.pc = "unsaving"
AfterAnswer(p, ok, j) == j = Idle \/ (Proceeds(p, j) /\ AnswerStep(p, ok, j))

(* Whatever the answer, the command ends or goes on to the step that       *)
(* follows its request.                                                    *)
LEMMA AnsweredShape ==
  ASSUME ExposeType, NEW p \in Procs, Works(p), proc[p].pc \in Asking,
         NEW ok \in BOOLEAN, NEW g \in Nat, Answered(p, ok, g)
  PROVE  \E j \in Jobs \cup {Idle} : proc' = [proc EXCEPT ![p] = j] /\ AfterAnswer(p, ok, j)
<1>1. proc[p] \in Jobs
  BY WorkType
<1> DEFINE J(x, n) == [proc[p] EXCEPT !.pc = x, !.gen = n]
<1>2. \A x \in Early \cup Public \cup Gone, n \in Nat :
        /\ J(x, n) \in Jobs /\ J(x, n).pc = x /\ J(x, n).e = proc[p].e
        /\ J(x, n).cmd = proc[p].cmd /\ J(x, n).base = proc[p].base
  BY <1>1 DEF Jobs
<1>3. proc \in [Procs -> Jobs \cup {Idle}] /\ proc[p].gen \in Nat
  BY <1>1 DEF ExposeType, Jobs
<1>4. \A x : [proc EXCEPT ![p].pc = x, ![p].gen = g] = [proc EXCEPT ![p] = J(x, g)]
  BY <1>3
<1>5. [proc EXCEPT ![p].pc = "unsaving", ![p].gen = IF ok THEN g ELSE @]
        = [proc EXCEPT ![p] = J("unsaving", IF ok THEN g ELSE proc[p].gen)]
  BY <1>3
<1>6. \A x \in Early \cup Public \cup Gone, n \in Nat : Proceeds(p, J(x, n))
  BY <1>2 DEF Proceeds
<1> HIDE DEF J
<1> DEFINE a == RequestOf(p).act
<1>7. \/ ok /\ a = "reserve" /\ proc' = [proc EXCEPT ![p] = J("reserved", g)]
      \/ ok /\ a = "publish" /\ proc' = [proc EXCEPT ![p] = J("published", g)]
      \/ ok /\ a = "unpublish" /\ proc' = [proc EXCEPT ![p] = J("unpublished", g)]
      \/ ok /\ a = "finalize" /\ proc' = [proc EXCEPT ![p] = J("released", g)]
      \/ a = "abort" /\ proc' = [proc EXCEPT ![p] = J("unsaving", IF ok THEN g ELSE proc[p].gen)]
      \/ proc' = [proc EXCEPT ![p] = Idle]
  BY <1>4, <1>5 DEF Answered, End
<1> HIDE DEF a
<1>8. {"reserved", "published", "unpublished", "released", "unsaving"} \subseteq Early \cup Public \cup Gone
  BY DEF Early, Public, Gone
<1>9. (IF ok THEN g ELSE proc[p].gen) \in Nat
  BY <1>3
<1> QED
  BY <1>2, <1>6, <1>7, <1>8, <1>9 DEF AfterAnswer, AnswerStep, a

-----------------------------------------------------------------------------
(* A step that does not concern an expose keeps what holds of it *)

(* The shared state and the records concern it no more than before.        *)
Stays(e) ==
  /\ gw'.ex[e] = gw.ex[e] /\ port'[e] = port[e]
  /\ gw.gen \in Nat /\ gw'.gen \in Nat /\ gw.gen <= gw'.gen
  /\ gw'.gen = gw.gen /\ FreshPort(e) => FreshPort(e)'
  /\ e \in Routes' => e \in Routes
  /\ Firm(e) => Firm(e)'
  /\ Seen(e)' \subseteq Seen(e)
  /\ Mapped(e) => Mapped(e)'
  /\ e \in reg' => e \in reg \/ gw.ex[e] \in Live
  /\ e \in acked' => e \in acked
  /\ Handling' /\ h'.r.e = e => Handling /\ h.r = h'.r
LateStays(e) == \A r \in late' : r.e = e => r \in late
ConfStays(e) ==
  e \in conf'[Owner[e]].map => e \in conf[Owner[e]].map \/ Seen(e) \cap Live # {}
JobsStay(e) ==
  \A p \in Procs : Works(p)' /\ proc'[p].e = e =>
    proc'[p] = proc[p] /\ node'[HostOf[p]].ex = node[HostOf[p]].ex
Keeps(e) == Stays(e) /\ LateStays(e) /\ ConfStays(e) /\ JobsStay(e)

(* The commands that work on it allow what is still under way for it.      *)
LateJobs(e) ==
  \A r \in late' : r.e = e =>
    /\ \A p \in Procs : Creates(p, e)' => r.act = "abort" /\ proc'[p].pc = "unsaving"
    /\ r.act \in {"reserve", "defer"} => \A p \in Procs : Works(p)' => proc'[p].e # e
JobsFrom(e) ==
  \A p \in Procs : Works(p)' /\ proc'[p].e = e =>
    /\ Works(p) /\ proc[p].e = e /\ proc'[p].cmd = proc[p].cmd
    /\ proc[p].pc = "unsaving" => proc'[p].pc = "unsaving"

(* The stored record and the planned ones are seen.                        *)
LEMMA SeenHas ==
  ASSUME NEW e \in Ids
  PROVE  /\ node[Owner[e]].ex[e] \in Seen(e)
         /\ \A p \in On(e) : proc[p].base.ex[e] \in Seen(e)
BY DEF Seen

(* There is always a record to see.                                        *)
LEMMA SeenHasNext ==
  ASSUME NEW e \in Ids
  PROVE  \E x : x \in Seen(e)'
BY DEF Seen

(* An expose that a step does not concern stays fresh.                     *)
LEMMA StayFresh ==
  ASSUME NEW e \in Ids, Stays(e), Fresh(e) PROVE Fresh(e)'
<1>1. Seen(e)' = {"absent"}
  <2>1. Seen(e)' \subseteq {"absent"} /\ \E x : x \in Seen(e)'
    BY SeenHasNext, Zenon DEF Stays, Fresh
  <2> QED
    BY <2>1
<1>2. gw'.ex[e] = "absent" /\ e \notin Routes' /\ e \notin reg'
  BY DEF Stays, Fresh, Live
<1>3. Handling' => h'.r.e # e
  BY Zenon DEF Stays, Fresh
<1> QED
  BY <1>1, <1>2, <1>3, Zenon DEF Fresh

(* It stays unpublished.                                                   *)
LEMMA StayNotYet ==
  ASSUME NEW e \in Ids, Stays(e), LateStays(e), NotYet(e) PROVE NotYet(e)'
<1>1. e \notin Routes'
  BY Zenon DEF Stays, NotYet
<1>2. \A s \in late' : s.e = e => s.act # "publish"
  BY Zenon DEF LateStays, NotYet
<1>3. Handling' /\ h'.r.e = e => h'.r.act # "publish"
  BY Zenon DEF Stays, NotYet
<1> QED
  BY <1>1, <1>2, <1>3, Zenon DEF NotYet

(* Its route stays withdrawn.                                              *)
LEMMA StayWithdrawn ==
  ASSUME NEW e \in Ids, Stays(e), Withdrawn(e) PROVE Withdrawn(e)'
BY Zenon DEF Stays, Withdrawn

(* It stays retired: no record brings its mapping back.                    *)
LEMMA StayRetired ==
  ASSUME NEW e \in Ids, Stays(e), ConfStays(e), Retired(e) PROVE Retired(e)'
<1>1. Withdrawn(e)'
  BY StayWithdrawn DEF Retired
<1>2. Seen(e)' \subseteq Seen(e) /\ Seen(e) \cap Live = {}
  BY Zenon DEF Stays, Retired
<1>3. Seen(e)' \cap Live = {}
  BY <1>2
<1>4. e \notin conf'[Owner[e]].map
  BY <1>2, Zenon DEF ConfStays, Retired
<1> QED
  BY <1>1, <1>3, <1>4, Zenon DEF Retired

(* A reservation of it stays the first request, with a free port.          *)
LEMMA StayReserving ==
  ASSUME NEW e \in Ids, Stays(e), NEW g \in Nat, Reserving(e, g)
  PROVE  Reserving(e, g)'
<1>1. Fresh(e)'
  BY StayFresh DEF Reserving
<1>2. g <= gw'.gen /\ (g = gw'.gen => gw'.gen = gw.gen /\ g = gw.gen)
  BY DEF Stays, Reserving
<1>3. g = gw'.gen => FreshPort(e)'
  BY <1>2, Zenon DEF Stays, Reserving
<1> QED
  BY <1>1, <1>2, <1>3, Zenon DEF Reserving

(* A request that is still under way for it stays as harmless as it was.   *)
LEMMA StayLate ==
  ASSUME ExposeType, NEW e \in Ids, Stays(e), ConfStays(e), LateJobs(e), ExposeOK(e),
         NotYet(e) => NotYet(e)', NEW r \in late', r \in late, r.e = e,
         r.act \in {"reserve", "defer"} => LateStays(e)
  PROVE  LateOK(r)'
<1>1. r \in late /\ LateOK(r) /\ r.gen \in Nat
  BY GatewayType, Zenon DEF ExposeOK
<1>2. port'[r.e] # 0
  BY <1>1, Zenon DEF LateOK, Stays
<1>4. \A p \in Procs : Creates(p, r.e)' => r.act = "abort" /\ proc'[p].pc = "unsaving"
  BY Zenon DEF LateJobs
<1>5. ASSUME r.act \in {"reserve", "defer"}
      PROVE  /\ Reserving(r.e, r.gen)'
             /\ \A p \in Procs : Works(p)' => proc'[p].e # r.e
             /\ \A s \in late' : s.e = r.e => s = r
  <2>1. Reserving(e, r.gen)'
    BY <1>1, <1>5, StayReserving, Zenon DEF LateOK
  <2>2. \A p \in Procs : Works(p)' => proc'[p].e # r.e
    BY <1>5, Zenon DEF LateJobs
  <2>3. \A s \in late' : s.e = r.e => s = r
    BY <1>1, <1>5, Zenon DEF LateOK, LateStays
  <2> QED
    BY <2>1, <2>2, <2>3, Zenon
<1>6. r.act = "abort" => NotYet(r.e)'
  BY <1>1, Zenon DEF LateOK
<1>7. r.act = "publish" /\ gw'.ex[r.e] = "pending" => Mapped(r.e)'
  BY <1>1, Zenon DEF LateOK, Stays
<1>8. r.act = "finalize" => Retired(r.e)'
  BY <1>1, StayRetired, Zenon DEF LateOK
<1>9. r.act = "unpublish" => r.was # "absent"
  BY <1>1, Zenon DEF LateOK
<1> QED
  BY <1>2, <1>4, <1>5, <1>6, <1>7, <1>8, <1>9, Zenon DEF LateOK

(* Commands that only go on or end allow the requests they allowed before. *)
LEMMA FromLate ==
  ASSUME NEW e \in Ids, LateStays(e), JobsFrom(e), ExposeOK(e)
  PROVE  LateJobs(e)
<1> SUFFICES ASSUME NEW r \in late', r.e = e
             PROVE  /\ \A p \in Procs : Creates(p, e)' => r.act = "abort" /\ proc'[p].pc = "unsaving"
                    /\ r.act \in {"reserve", "defer"} => \A p \in Procs : Works(p)' => proc'[p].e # e
  BY Zenon DEF LateJobs
<1>1. r \in late /\ LateOK(r)
  BY Zenon DEF ExposeOK, LateStays
<1>2. ASSUME NEW p \in Procs, Creates(p, e)' PROVE r.act = "abort" /\ proc'[p].pc = "unsaving"
  <2>1. Works(p)' /\ proc'[p].e = e /\ proc'[p].cmd # "remove"
    BY <1>2, Zenon DEF Creates
  <2>2. Creates(p, r.e) /\ (proc[p].pc = "unsaving" => proc'[p].pc = "unsaving")
    BY <2>1, Zenon DEF Creates, JobsFrom
  <2> QED
    BY <2>2, <1>1, Zenon DEF LateOK
<1>3. ASSUME r.act \in {"reserve", "defer"}, NEW p \in Procs, Works(p)' PROVE proc'[p].e # e
  BY <1>1, <1>3, Zenon DEF LateOK, JobsFrom
<1> QED
  BY <1>2, <1>3, Zenon

(* A command on it that does not move keeps what it relies on.             *)
LEMMA KeepJob ==
  ASSUME ExposeType, NEW e \in Ids, Keeps(e), ExposeOK(e), NEW p \in Procs, Works(p)', proc'[p].e = e
  PROVE  JobOK(p)'
<1>0. Stays(e) /\ ConfStays(e) /\ LateStays(e)
  BY DEF Keeps
<1>1. proc'[p] = proc[p] /\ node'[HostOf[p]].ex = node[HostOf[p]].ex
  BY Zenon DEF Keeps, Stays, JobsStay
<1>2. Works(p) /\ proc[p].e = e /\ JobOK(p)
  BY <1>1, Zenon DEF Works, ExposeOK
<1>3. CASE proc[p].cmd = "remove"
  <2>1. RemoveOK(p)
    BY <1>2, <1>3, Zenon DEF JobOK
  <2>2. proc[p].pc \in Gone => Withdrawn(e)'
    BY <2>1, <1>2, <1>0, StayWithdrawn, Zenon DEF RemoveOK
  <2>3. proc[p].pc = "finalizing" => Retired(e)'
    BY <2>1, <1>2, <1>0, StayRetired, Zenon DEF RemoveOK
  <2>4. proc[p].pc = "draining" => Seen(e)' = {"disabled"}
    <3>1. proc[p].pc = "draining" => Seen(e) = {"disabled"}
      BY <2>1, <1>2, Zenon DEF RemoveOK
    <3>2. Seen(e)' \subseteq Seen(e) /\ \E x : x \in Seen(e)'
      BY SeenHasNext, Zenon DEF Keeps, Stays, JobsStay
    <3> QED
      BY <3>1, <3>2
  <2>5. RemoveOK(p)'
    BY <1>1, <1>2, <2>1, <2>2, <2>3, <2>4 DEF RemoveOK
  <2> QED
    BY <2>5, <1>1, <1>3, Zenon DEF JobOK
<1>4. CASE proc[p].cmd # "remove"
  <2>1. CreateOK(p)
    BY <1>2, <1>4, Zenon DEF JobOK
  <2>2. proc[p].gen \in Nat
    BY <1>2, WorkType DEF Jobs
  <2>9. PICK g \in Nat : g = proc[p].gen
    BY <2>2, Zenon
  <2>10. proc[p].pc = "planned" => Reserving(e, g)'
    BY <2>1, <2>9, <1>2, <1>0, StayReserving, Zenon DEF CreateOK
  <2>11. proc'[p].gen = g /\ proc'[p].e = e
    BY <2>9, <1>1, <1>2, Zenon
  <2>3. proc[p].pc = "planned" => Reserving(proc[p].e, proc[p].gen)'
    BY <2>10, <2>11 DEF Reserving
  <2>4. proc[p].pc \in Early => NotYet(e)'
    BY <2>1, <1>2, <1>0, StayNotYet, Zenon DEF CreateOK
  <2>5. proc[p].pc = "publishing" /\ gw'.ex[e] = "pending" => Mapped(e)'
    BY <2>1, <1>2, Zenon DEF CreateOK, Keeps, Stays
  <2>6. proc[p].pc = "published" => Firm(e)'
    BY <2>1, <1>2, Zenon DEF CreateOK, Keeps, Stays
  <2>8. CreateOK(p)'
    BY <1>1, <1>2, <2>1, <2>3, <2>4, <2>5, <2>6 DEF CreateOK
  <2> QED
    BY <2>8, <1>1, <1>4, Zenon DEF JobOK
<1> QED
  BY <1>3, <1>4, Zenon

(* Its routes and its records stay in order.                               *)
LEMMA StayRest ==
  ASSUME NEW e \in Ids, Stays(e), ExposeOK(e)
  PROVE  Routed(e)' /\ AckedOK(e)' /\ DisabledOK(e)'
<1>3. Routed(e)'
  BY Zenon DEF ExposeOK, Routed, Stays
<1>5. AckedOK(e)'
  <2>1. e \in acked' => Firm(e)' /\ Seen(e) = {"ready"} /\ (Handling' => h'.r.e # e)
    BY Zenon DEF ExposeOK, AckedOK, Stays
  <2>2. Seen(e)' \subseteq Seen(e) /\ \E x : x \in Seen(e)'
    BY SeenHasNext, Zenon DEF Stays
  <2>3. Seen(e) = {"ready"} => Seen(e)' = {"ready"}
    BY <2>2
  <2> QED
    BY <2>1, <2>3, Zenon DEF AckedOK
<1>6. DisabledOK(e)'
  BY StayWithdrawn, Zenon DEF ExposeOK, DisabledOK, Stays
<1> QED
  BY <1>3, <1>5, <1>6

(* What is left to see of an expose when the shared state stays.           *)
LEMMA StayExpose ==
  ASSUME ExposeType, NEW e \in Ids, Stays(e), LateStays(e), ConfStays(e), LateJobs(e), ExposeOK(e),
         \A p \in Procs : Works(p)' /\ proc'[p].e = e => JobOK(p)'
  PROVE  ExposeOK(e)'
<1>1. \A r \in late' : r.e = e => LateOK(r)'
  BY StayLate, StayNotYet, Zenon DEF LateStays
<1>4. Unplanned(e)'
  <2>1. port'[e] = 0 => Fresh(e)'
    BY StayFresh, Zenon DEF ExposeOK, Unplanned, Stays
  <2>2. port'[e] = 0 => \A r \in late' : r.e # e
    BY Zenon DEF ExposeOK, Unplanned, Stays, LateStays
  <2> QED
    BY <2>1, <2>2, Zenon DEF Unplanned
<1> QED
  BY <1>1, <1>4, StayRest, Zenon DEF ExposeOK

(* Everything about an expose stays true when its commands stay as well.   *)
LEMMA KeepExpose ==
  ASSUME ExposeType, NEW e \in Ids, Keeps(e), ExposeOK(e)
  PROVE  ExposeOK(e)'
<1>1. JobsFrom(e)
  BY Zenon DEF Keeps, JobsStay, JobsFrom, Works
<1>2. LateJobs(e)
  BY <1>1, FromLate, Zenon DEF Keeps
<1>3. \A p \in Procs : Works(p)' /\ proc'[p].e = e => JobOK(p)'
  BY KeepJob, Zenon
<1> QED
  BY <1>2, <1>3, StayExpose, Zenon DEF Keeps


-----------------------------------------------------------------------------
(* Steps of the gateway: the nodes' files stay, one command may go on.  X  *)
(* are the exposes that need a look of their own.                          *)

SideKept(X) ==
  /\ Alone'
  /\ \A e \in Ids : Seen(e)' \subseteq Seen(e)
  /\ \A e \in Ids \ X : Mapped(e) => Mapped(e)'
  /\ \A e \in Ids \ X : \A q \in Procs : Works(q)' /\ proc'[q].e = e => proc'[q] = proc[q]

(* A command that goes on to another step without touching its node, or    *)
(* ends.                                                                   *)
LEMMA SideMove ==
  ASSUME ExposeType, Alone, NEW p \in Procs, Works(p), NEW x \in Ids, x = proc[p].e,
         NEW j, j = Idle \/ Proceeds(p, j),
         proc' = [proc EXCEPT ![p] = j], UNCHANGED <<node, conf, port>>
  PROVE  /\ SideKept({x}) /\ (j = Idle => SideKept({}))
         /\ proc'[p] = j /\ \A q \in Procs : q # p => proc'[q] = proc[q]
         /\ Mapped(x) /\ (j = Idle \/ proc[p].pc \notin Public \/ j.pc \in Public)
              => Mapped(x)'
         /\ Works(p)' <=> j # Idle
<1>1. proc'[p] = j /\ \A q \in Procs : q # p => proc'[q] = proc[q]
  BY DEF ExposeType
<1>2. \A q \in Procs : Works(q)' => Works(q)
  BY <1>1 DEF Works
<1>3. \A q \in Procs : Works(q)' => proc'[q].e = proc[q].e /\ proc'[q].base = proc[q].base
  BY <1>1 DEF Works, Proceeds
<1>4. Alone'
  BY <1>2, <1>3 DEF Alone
<1>5. \A e \in Ids : On(e)' \subseteq On(e)
  BY <1>2 DEF On
<1>6. \A e \in Ids : Seen(e)' \subseteq Seen(e)
  <2> TAKE e \in Ids
  <2>1. \A q \in On(e)' : q \in On(e) /\ proc'[q].base.ex[e] = proc[q].base.ex[e]
    BY <1>3, <1>5 DEF On
  <2> QED
    BY <2>1 DEF Seen
<1>7. ASSUME NEW e \in Ids, Mapped(e),
             e = proc[p].e => j = Idle \/ proc[p].pc \notin Public \/ j.pc \in Public
      PROVE  Mapped(e)'
  <2>1. ASSUME NEW q \in On(e)'
        PROVE  proc'[q].base.ex[e] \in Live \/ (proc'[q].e = e /\ proc'[q].pc \in Public)
    <3>1. q \in On(e) /\ q \in Procs /\ Works(q)'
      BY <1>5 DEF On
    <3>2. proc[q].base.ex[e] \in Live \/ (proc[q].e = e /\ proc[q].pc \in Public)
      BY <3>1, <1>7 DEF Mapped
    <3>3. q = p => j # Idle /\ proc'[q] = j /\ j.base = proc[p].base /\ j.e = proc[p].e
      BY <3>1, <1>1 DEF Works, Proceeds
    <3>4. CASE q # p
      BY <3>1, <3>2, <3>4, <1>1
    <3>5. CASE q = p
      BY <3>2, <3>3, <3>5, <1>7
    <3> QED
      BY <3>4, <3>5
  <2>2. node'[Owner[e]].ex[e] \in Live /\ e \in conf'[Owner[e]].map
    BY <1>7 DEF Mapped
  <2> QED
    BY <2>1, <2>2 DEF Mapped
<1>8. \A e \in Ids : e # proc[p].e => (Mapped(e) => Mapped(e)')
  BY <1>7
<1>9. j = Idle => \A e \in Ids : Mapped(e) => Mapped(e)'
  BY <1>7
<1>10. \A e \in Ids : \A q \in Procs : Works(q)' /\ proc'[q].e = e /\ (e # proc[p].e \/ j = Idle)
         => proc'[q] = proc[q]
  BY <1>1, <1>3 DEF Works
<1>11. Mapped(x) /\ (j = Idle \/ proc[p].pc \notin Public \/ j.pc \in Public) => Mapped(x)'
  BY <1>7
<1> QED
  BY <1>1, <1>4, <1>6, <1>8, <1>9, <1>10, <1>11 DEF SideKept, Works

(* A step without a command moves nothing on the nodes.                    *)
LEMMA SideStill ==
  ASSUME Alone, UNCHANGED <<node, conf, port, proc>> PROVE SideKept({})
<1>1. Alone'
  BY DEF Alone, Works
<1>2. \A e \in Ids : Seen(e)' = Seen(e)
  BY DEF Seen, On, Works
<1>3. \A e \in Ids : Mapped(e) => Mapped(e)'
  BY DEF Mapped, On, Works
<1> QED
  BY <1>1, <1>2, <1>3 DEF SideKept

(* What the gateway may do to the exposes outside X.                       *)
GwKeeps(X) ==
  /\ UNCHANGED <<node, conf, port, reg>>
  /\ gw'.gen \in Nat /\ gw.gen <= gw'.gen /\ (gw'.gen = gw.gen => gw'.ex = gw.ex)
  /\ \A e \in Ids \ X : gw'.ex[e] = gw.ex[e] /\ (e \in Routes' => e \in Routes)
                         /\ (Firm(e) => Firm(e)')
  /\ acked' \subseteq acked
  /\ \A r \in late' : r \in late \/ r.e \in X
  /\ Handling' => h'.r.e \in X \/ (Handling /\ h.r = h'.r)

(* A step of the gateway for the exposes in X does not concern the others. *)
LEMMA GwStays ==
  ASSUME ExposeType, NEW X, GwKeeps(X), NEW e \in Ids \ X,
         Seen(e)' \subseteq Seen(e), Mapped(e) => Mapped(e)'
  PROVE  Stays(e) /\ LateStays(e) /\ ConfStays(e)
<1>1. gw.gen \in Nat
  BY GatewayType
<1>2. gw'.gen = gw.gen /\ FreshPort(e) => FreshPort(e)'
  BY DEF GwKeeps, FreshPort, Present
<1>3. Stays(e)
  <2>1. /\ gw'.ex[e] = gw.ex[e] /\ port'[e] = port[e]
        /\ gw.gen \in Nat /\ gw'.gen \in Nat /\ gw.gen <= gw'.gen
        /\ e \in Routes' => e \in Routes
        /\ Firm(e) => Firm(e)'
        /\ e \in reg' => e \in reg \/ gw.ex[e] \in Live
        /\ e \in acked' => e \in acked
    BY <1>1 DEF GwKeeps
  <2>4. Handling' /\ h'.r.e = e => Handling /\ h.r = h'.r
    BY Zenon DEF GwKeeps
  <2> QED
    BY <1>2, <2>1, <2>4, Zenon DEF Stays
<1>4. ConfStays(e)
  BY DEF GwKeeps, ConfStays
<1>5. LateStays(e)
  BY Zenon DEF GwKeeps, LateStays
<1> QED
  BY <1>3, <1>4, <1>5

(* What holds of the others is kept.                                       *)
LEMMA GwFrame ==
  ASSUME ExposeType, NEW X, SideKept(X), GwKeeps(X), NEW e \in Ids \ X, ExposeOK(e)
  PROVE  ExposeOK(e)'
<1>1. Stays(e) /\ LateStays(e) /\ ConfStays(e)
  BY GwStays, Zenon DEF SideKept
<1>5. JobsStay(e)
  <2>1. node' = node
    BY DEF GwKeeps
  <2> QED
    BY <2>1, Zenon DEF SideKept, JobsStay
<1> QED
  BY <1>1, <1>5, KeepExpose, Zenon DEF Keeps

-----------------------------------------------------------------------------
(* Steps on an expose itself *)

(* One command works on an expose.                                         *)
LEMMA AloneOn ==
  ASSUME Alone, NEW p \in Procs, NEW q \in Procs, Works(p), Works(q), proc[p].e = proc[q].e
  PROVE  p = q
BY DEF Alone

(* While an expose is created, up to the undoing of its record, none of    *)
(* its requests is on its way without a caller.                            *)
LEMMA CreatorLate ==
  ASSUME NEW p \in Procs, NEW x \in Ids, Creates(p, x), proc[p].pc # "unsaving", ExposeOK(x)
  PROVE  \A r \in late : r.e # x
BY Zenon DEF ExposeOK, LateOK

(* A step of a creation that has not published, whatever it does to its    *)
(* own node.                                                               *)
EarlyStep(x) ==
  /\ port'[x] # 0 /\ x \notin Routes' /\ x \notin acked'
  /\ \A r \in late' : r.e # x
  /\ Handling' /\ h'.r.e = x => h'.r.act # "publish"
  /\ "disabled" \in Seen(x)' => Withdrawn(x)'
  /\ \A q \in Procs : Works(q)' /\ proc'[q].e = x =>
       /\ proc'[q].cmd # "remove" /\ proc'[q].pc \in Early \ {"planned"}
       /\ proc'[q].pc = "saved" => node'[HostOf[q]].ex[x] = "pending"

(* Such a step keeps everything about its expose.                          *)
LEMMA OwnEarly ==
  ASSUME NEW x \in Ids, EarlyStep(x) PROVE ExposeOK(x)'
<1>1. NotYet(x)'
  BY Zenon DEF NotYet, EarlyStep
<1>2. ASSUME NEW q \in Procs, Works(q)', proc'[q].e = x PROVE JobOK(q)'
  <2>1. /\ proc'[q].cmd # "remove" /\ proc'[q].pc \in Early \ {"planned"}
        /\ proc'[q].pc = "saved" => node'[HostOf[q]].ex[x] = "pending"
    BY <1>2, Zenon DEF EarlyStep
  <2>2. proc'[q].pc # "planned" /\ proc'[q].pc # "publishing" /\ proc'[q].pc # "published"
    BY <2>1 DEF Early
  <2>3. NotYet(proc[q].e)'
    BY <1>1, <1>2 DEF NotYet
  <2>4. CreateOK(q)'
    BY <2>1, <2>2, <2>3, <1>2, Zenon DEF CreateOK
  <2> QED
    BY <2>1, <2>4, Zenon DEF JobOK
<1>3. Routed(x)' /\ Unplanned(x)' /\ AckedOK(x)' /\ DisabledOK(x)'
  BY Zenon DEF EarlyStep, Routed, Unplanned, AckedOK, DisabledOK
<1> QED
  BY <1>2, <1>3, Zenon DEF ExposeOK, EarlyStep

(* A step of the gateway that changes the state of the expose.             *)
Turn(x) ==
  /\ ~Fresh(x) /\ port'[x] # 0 /\ Seen(x)' \subseteq Seen(x) /\ node' = node
  /\ gw'.ex[x] = "pending" => gw.ex[x] = "pending" /\ (Mapped(x) => Mapped(x)')
  /\ Retired(x) => Retired(x)'
  /\ Withdrawn(x) => Withdrawn(x)'
  /\ Firm(x) => Firm(x)' \/ \A q \in Procs : ~Creates(q, x)'
  /\ NotYet(x) => \/ NotYet(x)'
                  \/ /\ \A r \in late' : r.e # x
                     /\ \A q \in Procs : Creates(q, x)' => proc'[q].pc \notin Early
  /\ LateStays(x) /\ LateJobs(x)

(* The requests under way for it stay harmless.                            *)
LEMMA TurnLate ==
  ASSUME NEW x \in Ids, Turn(x), ExposeOK(x), NEW r \in late', r.e = x
  PROVE  LateOK(r)'
<1>1. r \in late /\ LateOK(r)
  BY Zenon DEF Turn, LateStays, ExposeOK
<1>2. port'[r.e] # 0
  BY Zenon DEF Turn
<1>3. \A p \in Procs : Creates(p, r.e)' => r.act = "abort" /\ proc'[p].pc = "unsaving"
  BY Zenon DEF Turn, LateJobs
<1>4. r.act \notin {"reserve", "defer"}
  BY <1>1, Zenon DEF LateOK, Reserving, Turn
<1>5. r.act = "abort" => NotYet(r.e)'
  BY <1>1, Zenon DEF LateOK, Turn
<1>6. r.act = "publish" /\ gw'.ex[r.e] = "pending" => Mapped(r.e)'
  BY <1>1, Zenon DEF LateOK, Turn
<1>7. r.act = "finalize" => Retired(r.e)'
  BY <1>1, Zenon DEF LateOK, Turn
<1>8. r.act = "unpublish" => r.was # "absent"
  BY <1>1, Zenon DEF LateOK
<1> QED
  BY <1>2, <1>3, <1>4, <1>5, <1>6, <1>7, <1>8, Zenon DEF LateOK

(* A command on it that does not move keeps what it relies on.             *)
LEMMA TurnJob ==
  ASSUME NEW x \in Ids, Turn(x), ExposeOK(x), NEW q \in Procs, Works(q)', proc'[q].e = x,
         proc'[q] = proc[q]
  PROVE  JobOK(q)'
<1>1. Works(q) /\ proc[q].e = x /\ JobOK(q) /\ node' = node
  BY Zenon DEF Works, ExposeOK, Turn
<1>2. CASE proc[q].cmd = "remove"
  <2>1. RemoveOK(q)
    BY <1>1, <1>2, Zenon DEF JobOK
  <2>2. proc[q].pc \in Gone => Withdrawn(x)'
    BY <2>1, <1>1, Zenon DEF RemoveOK, Turn
  <2>3. proc[q].pc = "finalizing" => Retired(x)'
    BY <2>1, <1>1, Zenon DEF RemoveOK, Turn
  <2>4. proc[q].pc = "draining" => Seen(x)' = {"disabled"}
    <3>1. proc[q].pc = "draining" => Seen(x) = {"disabled"}
      BY <2>1, <1>1, Zenon DEF RemoveOK
    <3>2. Seen(x)' \subseteq Seen(x) /\ \E y : y \in Seen(x)'
      BY SeenHasNext, Zenon DEF Turn
    <3> QED
      BY <3>1, <3>2
  <2>5. RemoveOK(q)'
    BY <1>1, <2>1, <2>2, <2>3, <2>4 DEF RemoveOK
  <2> QED
    BY <2>5, <1>2, Zenon DEF JobOK
<1>3. CASE proc[q].cmd # "remove"
  <2>1. CreateOK(q)
    BY <1>1, <1>3, Zenon DEF JobOK
  <2>2. Creates(q, x)'
    BY <1>3, Zenon DEF Creates
  <2>3. proc[q].pc # "planned"
    BY <2>1, <1>1, Zenon DEF CreateOK, Reserving, Turn
  <2>4. proc[q].pc \in Early => NotYet(x)'
    BY <2>1, <2>2, <1>1, Zenon DEF CreateOK, Turn
  <2>5. proc[q].pc = "publishing" /\ gw'.ex[x] = "pending" => Mapped(x)'
    BY <2>1, <1>1, Zenon DEF CreateOK, Turn
  <2>6. proc[q].pc = "published" => Firm(x)'
    BY <2>1, <2>2, <1>1, Zenon DEF CreateOK, Turn
  <2>7. CreateOK(q)'
    BY <1>1, <2>1, <2>3, <2>4, <2>5, <2>6 DEF CreateOK
  <2> QED
    BY <2>7, <1>3, Zenon DEF JobOK
<1> QED
  BY <1>2, <1>3, Zenon

(* What is left to see: its routes, its records and the command that       *)
(* moves.                                                                  *)
LEMMA TurnExpose ==
  ASSUME NEW x \in Ids, Turn(x), ExposeOK(x),
         \A q \in Procs : Works(q)' /\ proc'[q].e = x => proc'[q] = proc[q] \/ JobOK(q)',
         Routed(x)', AckedOK(x)', DisabledOK(x)'
  PROVE  ExposeOK(x)'
<1>1. \A r \in late' : r.e = x => LateOK(r)'
  BY TurnLate, Zenon
<1>2. \A q \in Procs : Works(q)' /\ proc'[q].e = x => JobOK(q)'
  BY TurnJob, Zenon
<1>3. Unplanned(x)'
  BY Zenon DEF Turn, Unplanned
<1> QED
  BY <1>1, <1>2, <1>3, Zenon DEF ExposeOK

-----------------------------------------------------------------------------
(* The shared parts under a step that leaves nginx and the states alone *)

Same == h'.step = h.step /\ h'.r = h.r /\ h'.prev = h.prev
Quiet ==
  /\ UNCHANGED <<nginx, torn>> /\ gw'.ex = gw.ex
  /\ h' = h \/ (Handling /\ h' = [h EXCEPT !.p = None])

(* The publication at work stays, at most without its caller.              *)
LEMMA QuietHandler ==
  ASSUME ExposeType, Quiet
  PROVE  /\ Handling' <=> Handling
         /\ Handling => Same
         /\ h' \in Handlers \cup {NoHandler}
         /\ h' # h => Handling /\ h'.p = None
<1>1. CASE h' = h
  BY <1>1 DEF Handling, Same, ExposeType
<1>2. CASE Handling /\ h' = [h EXCEPT !.p = None]
  <2>1. h \in Handlers
    BY <1>2, HandlerType
  <2>2. h' \in Handlers /\ Same /\ h'.p = None
    BY <1>2, <2>1 DEF Handlers, Same
  <2> QED
    BY <1>2, <2>2, JobFacts DEF Handling
<1> QED
  BY <1>1, <1>2 DEF Quiet

(* Routes, and their agreement with the state, stay.                       *)
LEMMA QuietRoutes ==
  ASSUME ExposeType, Quiet
  PROVE  /\ Routes' = Routes /\ \A e \in Ids : Firm(e) => Firm(e)'
         /\ ServedInv => ServedInv'
         /\ LinkedInv => LinkedInv'
<1>1. /\ Handling' <=> Handling
      /\ Handling => Same
  BY QuietHandler
<1>2. /\ Undoable' <=> Undoable
      /\ Undoable => h'.prev = h.prev
  BY <1>1 DEF Undoable, Same
<1>3. Ready(gw.ex)' = Ready(gw.ex)
  BY DEF Quiet, Ready
<1>4. nginx' = nginx /\ torn' = torn
  BY DEF Quiet
<1>5. Routes' = Routes
  BY <1>2, <1>3, <1>4 DEF Routes
<1>6. \A e \in Ids : Firm(e) => Firm(e)'
  BY <1>2, <1>4 DEF Firm, Quiet
<1>7. ASSUME ServedInv PROVE ServedInv'
  <2>1. Undoable' /\ ~torn' => h'.prev.routes = Ready(gw.ex)'
    BY <1>2, <1>3, <1>4, <1>7, Zenon DEF ServedInv
  <2>2. Handling' /\ h'.step = "save" /\ ~torn' =>
          nginx'.cur.routes = Ready([gw.ex EXCEPT ![h.r.e] = Goal(h.r)])'
    <3>1. ASSUME Handling, h.step = "save", ~torn
          PROVE  nginx.cur.routes = Ready([gw.ex EXCEPT ![h.r.e] = Goal(h.r)])
      BY <3>1, <1>7, Zenon DEF ServedInv
    <3>2. Handling => Ready([gw.ex EXCEPT ![h.r.e] = Goal(h.r)])' = Ready([gw.ex EXCEPT ![h.r.e] = Goal(h.r)])
      BY <1>1 DEF Same, Ready, Goal, Quiet
    <3> QED
      BY <3>1, <3>2, <1>1, <1>4 DEF Same
  <2>3. ~Undoable' /\ ~torn' => nginx'.run = Ready(gw.ex)' /\ nginx'.cur.routes = Ready(gw.ex)'
    BY <1>2, <1>3, <1>4, <1>7, Zenon DEF ServedInv
  <2> QED
    BY <2>1, <2>2, <2>3, Zenon DEF ServedInv
<1>8. LinkedInv => LinkedInv'
  BY <1>4 DEF LinkedInv
<1> QED
  BY <1>5, <1>6, <1>7, <1>8

(* The command of the publication at work, if there is one left, waits,    *)
(* and the others stay away from its expose.                               *)
LEMMA QuietHandlerInv ==
  ASSUME ExposeType, Quiet, HandlerInv,
         Handling => /\ port'[h.r.e] # 0
                     /\ h'.p \in Procs => proc'[h'.p] = proc[h'.p]
                     /\ \A q \in Procs : Creates(q, h.r.e)' => h'.p = q
  PROVE  HandlerInv'
<1> SUFFICES ASSUME Handling' PROVE HandlerInv'
  BY Zenon DEF HandlerInv
<1>1. Handling /\ Same /\ nginx' = nginx /\ gw'.ex = gw.ex
  BY QuietHandler DEF Quiet
<1>2. h'.p \in Procs => h'.p = h.p
  BY QuietHandler, ExposeAssumptions
<1>3. h'.r.act \in {"publish", "unpublish"} /\ port'[h'.r.e] # 0
  BY <1>1 DEF HandlerInv, Same
<1>4. h'.p \in Procs => proc'[h'.p].pc \in Asking /\ RequestOf(h.p)' = h'.r
  <2> SUFFICES ASSUME h'.p \in Procs PROVE proc'[h'.p].pc \in Asking /\ RequestOf(h.p)' = h'.r
    BY Zenon
  <2>1. h'.p = h.p /\ proc'[h'.p] = proc[h.p] /\ proc[h.p].pc \in Asking /\ RequestOf(h.p) = h.r
    BY <1>1, <1>2, Zenon DEF HandlerInv
  <2>2. RequestOf(h.p)' = RequestOf(h.p)
    BY <2>1 DEF RequestOf
  <2> QED
    BY <2>1, <2>2, <1>1 DEF Same
<1>5. \A q \in Procs : Creates(q, h.r.e)' => h'.p = q
  <2>1. PICK x : x = h.r.e
    BY Zenon
  <2>2. \A q \in Procs : Creates(q, x)' => h'.p = q
    <3> TAKE q \in Procs
    <3>1. Creates(q, x)' <=> Works(q)' /\ proc'[q].e = h.r.e /\ proc'[q].cmd # "remove"
      BY <2>1, Zenon DEF Creates
    <3>2. h'.r.e = h.r.e
      BY <1>1 DEF Same
    <3> QED
      BY <3>1, <3>2, <1>1 DEF Creates
  <2> QED
    BY <2>1, <2>2, <1>1 DEF Creates, Same
<1>6. /\ nginx'.run = nginx'.cur.routes
      /\ h'.r.e \in nginx'.cur.routes <=> h'.r.act = "publish"
      /\ h'.step = "save" => gw'.ex[h'.r.e] \in (IF h'.r.act = "publish" THEN {"pending"} ELSE Live)
      /\ h'.step = "commit" => gw'.ex[h'.r.e] = Goal(h.r)'
  BY <1>1 DEF HandlerInv, Same, Goal
<1> QED
  BY <1>3, <1>4, <1>5, <1>6 DEF HandlerInv

(* Ports stay owned when mappings only go.                                 *)
LEMMA QuietPorts ==
  ASSUME ExposeType, gw'.ex = gw.ex, port' = port, reg' \subseteq reg, PortInv
  PROVE  PortInv'
BY DEF PortInv, Valid, Present, Enabled

-----------------------------------------------------------------------------
(* Steps that leave nginx, the gateway's records and the nodes alone *)

(* The type of the commands when one of them moves.                        *)
LEMMA MoveType ==
  ASSUME ExposeType, NEW p \in Procs, NEW j, j = Idle \/ (j \in Jobs /\ JobShape(j)),
         proc' = [proc EXCEPT ![p] = j]
  PROVE  /\ proc' \in [Procs -> Jobs \cup {Idle}]
         /\ \A q \in Procs : proc'[q] # Idle => JobShape(proc'[q])
BY DEF ExposeType

(* A command that goes on after an answer has the shape of its kind.       *)
LEMMA AnswerJob ==
  ASSUME ExposeType, NEW p \in Procs, Works(p), proc[p].pc \in Asking, NEW ok, NEW j,
         AfterAnswer(p, ok, j)
  PROVE  j = Idle \/ (j \in Jobs /\ JobShape(j))
<1> SUFFICES ASSUME j # Idle PROVE j \in Jobs /\ JobShape(j)
  OBVIOUS
<1>1. Proceeds(p, j) /\ AnswerStep(p, ok, j)
  BY DEF AfterAnswer
<1>2. j \in Jobs /\ j.cmd = proc[p].cmd /\ JobShape(proc[p])
  BY <1>1, WorkType DEF Proceeds
<1>3. proc[p].cmd \in {"create", "defer", "remove"}
  BY WorkType DEF Jobs
<1>4. /\ proc[p].pc = "aborting" => proc[p].cmd = "create"
      /\ proc[p].pc = "publishing" => proc[p].cmd = "create"
      /\ proc[p].pc = "finalizing" => proc[p].cmd = "remove"
  BY <1>2, <1>3 DEF JobShape, Gone, Early, Public
<1>5. \/ j.pc \in {"reserved", "published", "unsaving"} /\ j.cmd = "create"
      \/ j.pc \in {"unpublished", "released"} /\ j.cmd = "remove"
  BY <1>1, <1>2, <1>4, RequestShape DEF AnswerStep
<1> QED
  BY <1>2, <1>5 DEF JobShape, Early, Public, Gone

(* A command of the publication at work does not move while it waits.      *)
LEMMA MoveHandler ==
  ASSUME ExposeType, Quiet, HandlerInv, NEW p \in Procs, Works(p),
         NEW j, j = Idle \/ Proceeds(p, j),
         proc' = [proc EXCEPT ![p] = j], port' = port,
         IF h' = h THEN Handling => h.p # p ELSE h.p = p /\ j = Idle
  PROVE  HandlerInv'
<1>1. proc'[p] = j /\ \A q \in Procs : q # p => proc'[q] = proc[q]
  BY DEF ExposeType
<1>2. ASSUME NEW q \in Procs, NEW x, Works(q)', proc'[q].e = x, proc'[q].cmd # "remove"
      PROVE  Creates(q, x) /\ (q = p => j # Idle)
  BY <1>1, <1>2 DEF Creates, Works, Proceeds
<1>3. ASSUME Handling PROVE /\ port'[h.r.e] # 0
                            /\ h'.p \in Procs => proc'[h'.p] = proc[h'.p]
                            /\ \A q \in Procs : Creates(q, h.r.e)' => h'.p = q
  <2>1. port'[h.r.e] # 0
    BY <1>3 DEF HandlerInv
  <2>2. h'.p \in Procs => h'.p # p
    BY QuietHandler, ExposeAssumptions, <1>3
  <2>3. h'.r = h.r
    BY QuietHandler, <1>3 DEF Same
  <2>4. ASSUME NEW q \in Procs, Creates(q, h.r.e)' PROVE h'.p = q
    <3>1. Works(q)' /\ proc'[q].e = h'.r.e /\ proc'[q].cmd # "remove"
      BY <2>4, Zenon DEF Creates
    <3>2. Creates(q, h.r.e) /\ (q = p => j # Idle)
      BY <3>1, <2>3, <1>2, Zenon
    <3>3. h.p = q
      BY <3>2, <1>3, Zenon DEF HandlerInv
    <3> QED
      BY <3>2, <3>3
  <2> QED
    BY <2>1, <2>2, <2>4, <1>1, Zenon
<1> QED
  BY <1>3, QuietHandlerInv, Zenon

(* A step that leaves the gateway's records, nginx and the nodes alone.    *)
LEMMA QuietStep ==
  ASSUME ExposeInv, NEW X, ExposeType', Quiet, HandlerInv', SideKept(X),
         UNCHANGED <<node, conf, port, reg>>, gw.gen <= gw'.gen, acked' \subseteq acked,
         \A r \in late' : r \in late \/ r.e \in X,
         \A x \in Ids : x \in X => ExposeOK(x)'
  PROVE  ExposeInv'
<1>1. Alone' /\ ServedInv' /\ LinkedInv'
  BY QuietRoutes DEF SideKept, ExposeInv, Globals
<1>2. PortInv'
  BY QuietPorts DEF ExposeInv, Globals, Quiet
<1>3. GwKeeps(X)
  <2>1. gw'.gen \in Nat
    BY DEF ExposeType, GatewayStates
  <2>2. gw'.ex = gw.ex
    BY DEF Quiet
  <2>3. Handling' => Handling /\ h.r = h'.r
    BY QuietHandler DEF ExposeInv, Same
  <2>4. Routes' = Routes /\ \A e \in Ids : Firm(e) => Firm(e)'
    BY QuietRoutes DEF ExposeInv
  <2> QED
    BY <2>1, <2>2, <2>3, <2>4, Zenon DEF GwKeeps
<1>4. ASSUME NEW e \in Ids PROVE ExposeOK(e)'
  <2>1. CASE e \in X
    BY <2>1, Zenon
  <2>2. CASE e \notin X
    BY <2>2, <1>3, GwFrame, Zenon DEF ExposeInv
  <2> QED
    BY <2>1, <2>2, Zenon
<1> QED
  BY <1>1, <1>2, <1>4, Zenon DEF ExposeInv, Globals

(* A gateway step that leaves the processes alone.                         *)
LEMMA LoseLateInv ==
  ASSUME ExposeInv, NEW r, LoseLate(r) PROVE ExposeInv'
<1>1. UNCHANGED <<node, conf, port, reg, gw, nginx, h, proc, acked, torn, faults>> /\ late' \subseteq late
  BY DEF LoseLate, local
<1>2. ExposeType'
  BY <1>1 DEF ExposeInv, ExposeType
<1>3. Quiet
  BY <1>1 DEF Quiet
<1>4. HandlerInv'
  BY <1>1, <1>3, QuietHandlerInv DEF ExposeInv, Globals, HandlerInv, Creates, Works
<1>5. SideKept({})
  BY <1>1, SideStill DEF ExposeInv
<1>6. gw.gen <= gw'.gen
  BY <1>1, GatewayType DEF ExposeInv
<1>7. \A s \in late' : s \in late \/ s.e \in {}
  BY <1>1
<1>8. UNCHANGED <<node, conf, port, reg>> /\ acked' \subseteq acked
  BY <1>1
<1> QED
  BY <1>2, <1>3, <1>4, <1>5, <1>6, <1>7, <1>8, QuietStep

(* Any other change of the gateway's state.                                *)
LEMMA OtherWriteInv ==
  ASSUME ExposeInv, OtherWrite PROVE ExposeInv'
<1>1. /\ UNCHANGED <<node, conf, port, reg, nginx, h, late, proc, acked, torn, faults>>
      /\ gw' = [gw EXCEPT !.gen = @ + 1]
  BY DEF OtherWrite, local
<1>2. gw' \in GatewayStates /\ gw'.ex = gw.ex /\ gw.gen <= gw'.gen
  BY <1>1 DEF ExposeInv, ExposeType, GatewayStates
<1>3. ExposeType'
  BY <1>1, <1>2 DEF ExposeInv, ExposeType
<1>4. Quiet
  BY <1>1, <1>2 DEF Quiet
<1>5. HandlerInv'
  BY <1>1, <1>4, QuietHandlerInv DEF ExposeInv, Globals, HandlerInv, Creates, Works
<1>6. SideKept({})
  BY <1>1, SideStill DEF ExposeInv
<1>7. UNCHANGED <<node, conf, port, reg>> /\ acked' \subseteq acked /\ late' = late
  BY <1>1
<1>8. \A s \in late' : s \in late \/ s.e \in {}
  BY <1>1
<1> QED
  BY <1>2, <1>3, <1>4, <1>5, <1>6, <1>7, <1>8, QuietStep

-----------------------------------------------------------------------------
(* A command that gives up, with or without a request on its way *)

GivesUp(p, j) ==
  \/ j = Idle
  \/ Proceeds(p, j) /\ RequestOf(p).act = "abort" /\ j.pc = "unsaving"

(* The request of a command that gives up is as harmless on its way as it  *)
(* was with its caller.                                                    *)
LEMMA OwnGiveUp ==
  ASSUME ExposeInv, NEW p \in Procs, Works(p), proc[p].pc \in Asking,
         NEW x \in Ids, x = proc[p].e, NEW j, GivesUp(p, j), proc' = [proc EXCEPT ![p] = j],
         UNCHANGED <<node, conf, port, reg, gw, nginx, h, acked, torn>>,
         late' = late \cup {RequestOf(p)}
  PROVE  ExposeOK(x)'
<1>t. ExposeType /\ Alone /\ HandlerInv /\ ExposeOK(x)
  BY DEF ExposeInv, Globals
<1>m. j = Idle \/ Proceeds(p, j)
  BY DEF GivesUp
<1>s. /\ SideKept({x}) /\ proc'[p] = j /\ \A q \in Procs : q # p => proc'[q] = proc[q]
      /\ Mapped(x) /\ (j = Idle \/ proc[p].pc \notin Public \/ j.pc \in Public) => Mapped(x)'
      /\ Works(p)' <=> j # Idle
  BY <1>t, <1>m, SideMove
<1>1. /\ RequestOf(p).e = x /\ RequestOf(p).gen = proc[p].gen
      /\ proc[p].pc = "planned" => RequestOf(p).was = proc[p].base.ex[proc[p].e]
      /\ RequestOf(p).act \in {"reserve", "defer"} => proc[p].pc = "planned" /\ proc[p].cmd # "remove"
      /\ RequestOf(p).act = "unpublish" => proc[p].pc = "planned" /\ proc[p].cmd = "remove"
      /\ RequestOf(p).act = "abort" => proc[p].pc = "aborting"
      /\ RequestOf(p).act = "publish" => proc[p].pc = "publishing"
      /\ RequestOf(p).act = "finalize" => proc[p].pc = "finalizing"
      /\ RequestOf(p).act \in Acts
  BY <1>t, RequestShape DEF RequestType
<1>2. /\ JobShape(proc[p]) /\ proc[p].gen \in Nat /\ JobOK(p)
      /\ proc[p].cmd \in {"create", "defer", "remove"}
  BY <1>t, WorkType DEF Jobs, ExposeOK
<1>3. Mapped(x) => Mapped(x)'
  <2>1. RequestOf(p).act = "abort" => proc[p].pc \notin Public
    BY <1>1 DEF Public
  <2> QED
    BY <2>1, <1>s DEF GivesUp
<1>4. Quiet
  BY DEF Quiet
<1>5. Stays(x)
  <2>1. Routes' = Routes /\ (Firm(x) => Firm(x)')
    BY <1>4, <1>t, QuietRoutes
  <2>2. gw.gen \in Nat /\ gw.gen <= gw'.gen
    BY <1>t, GatewayType
  <2>3. FreshPort(x) => FreshPort(x)'
    BY DEF FreshPort, Present
  <2>4. Handling' => Handling
    BY DEF Handling
  <2>5. Seen(x)' \subseteq Seen(x)
    BY <1>s, Zenon DEF SideKept
  <2> QED
    BY <2>1, <2>2, <2>3, <2>4, <2>5, <1>3, Zenon DEF Stays
<1>6. ConfStays(x)
  BY DEF ConfStays
<1>7. port'[x] # 0
  BY <1>t DEF Alone
<1>8. ASSUME NEW q \in Procs, Works(q)', proc'[q].e = x
      PROVE  q = p /\ j # Idle /\ RequestOf(p).act = "abort" /\ j.pc = "unsaving" /\ j.cmd = proc[p].cmd
  <2>1. Works(q) /\ proc[q].e = x
    BY <1>8, <1>s, <1>m DEF Works, Proceeds
  <2>2. q = p
    BY <2>1, <1>t, AloneOn, Zenon
  <2> QED
    BY <2>2, <1>8, <1>s DEF GivesUp, Proceeds
<1>9. NotYet(x) /\ RequestOf(p).act # "publish" => NotYet(x)'
  <2>1. Routes' = Routes /\ (Handling' => Handling) /\ h' = h
    BY <1>4, <1>t, QuietRoutes DEF Handling
  <2>2. \A s \in late' : s \in late \/ s = RequestOf(p)
    OBVIOUS
  <2> QED
    BY <2>1, <2>2, Zenon DEF NotYet
<1>10. Routed(x)' /\ AckedOK(x)' /\ DisabledOK(x)' /\ Unplanned(x)'
  BY <1>t, <1>5, <1>7, StayRest, Zenon DEF Unplanned
<1>11. CASE proc[p].cmd = "remove"
  <2>1. RequestOf(p).act \in {"unpublish", "finalize"} /\ RemoveOK(p)
    BY <1>1, <1>2, <1>11 DEF JobShape, Gone, JobOK, Acts
  <2>2. \A q \in Procs : Works(q)' => proc'[q].e # x
    BY <1>8, <2>1
  <2>3. LateJobs(x)
    BY <2>2, Zenon DEF LateJobs, Creates
  <2>4. NotYet(x) => NotYet(x)'
    BY <2>1, <1>9
  <2>5. ASSUME NEW r \in late', r.e = x PROVE LateOK(r)'
    <3>1. CASE r \in late
      <4>1. r.act \notin {"reserve", "defer"}
        BY <3>1, <2>5, <1>t, Zenon DEF ExposeOK, LateOK
      <4> QED
        BY <4>1, <3>1, <2>3, <2>4, <2>5, <1>5, <1>6, <1>t, StayLate, Zenon
    <3>2. CASE r = RequestOf(p)
      <4>1. r.act = "unpublish" => r.was # "absent"
        BY <3>2, <2>1, <1>1 DEF RemoveOK
      <4>2. r.act = "finalize" => Retired(x)'
        BY <3>2, <2>1, <1>1, <1>5, <1>6, StayRetired, Zenon DEF RemoveOK
      <4>3. r.act \notin {"reserve", "defer", "abort", "publish"}
        BY <3>2, <2>1
      <4>4. \A q \in Procs : ~Creates(q, x)'
        BY <2>2, Zenon DEF Creates
      <4> QED
        BY <4>1, <4>2, <4>3, <4>4, <2>5, <1>7 DEF LateOK
    <3> QED
      BY <3>1, <3>2, <2>5
  <2> QED
    BY <2>2, <2>5, <1>10, Zenon DEF ExposeOK
<1>12. CASE proc[p].cmd # "remove"
  <2>1. CreateOK(p) /\ Creates(p, x) /\ proc[p].pc # "unsaving"
    BY <1>2, <1>12 DEF JobOK, Creates, Asking
  <2>2. \A r \in late : r.e # x
    BY <2>1, <1>t, CreatorLate, Zenon
  <2>3. RequestOf(p).act \in {"reserve", "defer", "abort", "publish"}
    BY <1>1, <1>2, <1>12 DEF JobShape, Acts, Gone, Early, Public
  <2>4. proc[p].pc = "aborting" => NotYet(x)
    BY <2>1 DEF CreateOK, Early
  <2>5. RequestOf(p).act = "abort" => NotYet(x)'
    BY <2>4, <1>1, <1>9
  <2>6. ASSUME NEW r \in late', r.e = x PROVE LateOK(r)'
    <3>1. r = RequestOf(p)
      BY <2>2, <2>6
    <3>2. \A q \in Procs : Creates(q, x)' => r.act = "abort" /\ proc'[q].pc = "unsaving"
      BY <3>1, <1>8, <1>s, Zenon DEF Creates
    <3>3. ASSUME r.act \in {"reserve", "defer"}
          PROVE  /\ Reserving(r.e, r.gen)'
                 /\ \A q \in Procs : Works(q)' => proc'[q].e # r.e
                 /\ \A s \in late' : s.e = r.e => s = r
      <4>1. PICK g \in Nat : g = proc[p].gen
        BY <1>2, Zenon
      <4>2. Reserving(x, g) /\ r.gen = g
        BY <2>1, <3>1, <3>3, <4>1, <1>1, Zenon DEF CreateOK
      <4>3. Reserving(x, g)'
        BY <4>2, <1>5, StayReserving, Zenon
      <4>4. r.act # "abort"
        BY <3>3
      <4>5. \A q \in Procs : Works(q)' => proc'[q].e # r.e
        BY <4>4, <3>1, <2>6, <1>8, Zenon
      <4>6. \A s \in late' : s.e = r.e => s = r
        BY <3>1, <2>2, <2>6
      <4> QED
        BY <4>2, <4>3, <4>5, <4>6, <2>6, Zenon
    <3>4. r.act = "abort" => NotYet(r.e)'
      BY <3>1, <2>5, <2>6, Zenon
    <3>5. r.act = "publish" /\ gw'.ex[r.e] = "pending" => Mapped(r.e)'
      <4>1. r.act = "publish" /\ gw.ex[x] = "pending" => Mapped(x)
        BY <3>1, <2>1, <1>1, Zenon DEF CreateOK
      <4> QED
        BY <4>1, <2>6, <1>3
    <3>6. r.act \notin {"unpublish", "finalize"}
      BY <3>1, <2>3
    <3> QED
      BY <3>2, <3>3, <3>4, <3>5, <3>6, <2>6, <1>7 DEF LateOK
  <2>7. ASSUME NEW q \in Procs, Works(q)', proc'[q].e = x PROVE JobOK(q)'
    <3>1. q = p /\ proc'[q].pc = "unsaving" /\ proc'[q].cmd # "remove" /\ RequestOf(p).act = "abort"
      BY <2>7, <1>8, <1>s, <1>12
    <3>2. NotYet(x)'
      BY <3>1, <2>5
    <3>3. NotYet(proc[q].e)'
      BY <3>2, <2>7 DEF NotYet
    <3>4. CreateOK(q)'
      BY <3>1, <3>3 DEF CreateOK
    <3> QED
      BY <3>1, <3>4, Zenon DEF JobOK
  <2> QED
    BY <2>6, <2>7, <1>10, Zenon DEF ExposeOK
<1> QED
  BY <1>11, <1>12

GivesUpHow(p, j) ==
  \/ h' = h /\ late' = late \cup {RequestOf(p)} /\ proc[p].pc \in Asking /\ h.p # p
  \/ h.p = p /\ h' = [h EXCEPT !.p = None] /\ late' = late
  \/ h' = h /\ late' = late /\ h.p # p /\ j = Idle

(* A command gives up, and leaves its request or its publication behind.   *)
LEMMA GiveUpStep ==
  ASSUME ExposeInv, NEW p \in Procs, Works(p), NEW j, GivesUp(p, j),
         proc' = [proc EXCEPT ![p] = j],
         UNCHANGED <<node, conf, port, reg, gw, nginx, acked, torn>>, faults' \in 0..MaxFaults,
         GivesUpHow(p, j)
  PROVE  ExposeInv'
<1>t. ExposeType /\ Alone /\ HandlerInv
  BY DEF ExposeInv, Globals
<1>m. j = Idle \/ Proceeds(p, j)
  BY DEF GivesUp
<1>1. PICK x \in Ids : x = proc[p].e
  BY <1>t, WorkType
<1>2. /\ SideKept({x}) /\ (j = Idle => SideKept({}))
      /\ proc'[p] = j /\ \A q \in Procs : q # p => proc'[q] = proc[q]
  BY <1>t, <1>m, <1>1, SideMove
<1>3. gw.gen <= gw'.gen /\ acked' \subseteq acked
  BY <1>t, GatewayType
<1>4. h.p = p => /\ Handling /\ proc[p].pc \in Asking
                 /\ RequestOf(p).act \in {"publish", "unpublish"} /\ j = Idle
  <2> SUFFICES ASSUME h.p = p PROVE /\ Handling /\ proc[p].pc \in Asking
                                    /\ RequestOf(p).act \in {"publish", "unpublish"} /\ j = Idle
    BY Zenon
  <2>1. Handling
    BY <1>t, HandlerType, WorkType
  <2>2. proc[p].pc \in Asking /\ RequestOf(p) = h.r /\ h.r.act \in {"publish", "unpublish"}
    BY <2>1, <1>t, Zenon DEF HandlerInv
  <2>3. RequestOf(p).act # "abort"
    BY <2>2
  <2> QED
    BY <2>1, <2>2, <2>3 DEF GivesUp
<1>5. Quiet /\ (IF h' = h THEN Handling => h.p # p ELSE h.p = p /\ j = Idle)
  <2>1. CASE h' = h /\ h.p # p
    BY <2>1 DEF Quiet
  <2>2. CASE h.p = p /\ h' = [h EXCEPT !.p = None]
    <3>1. Quiet /\ Handling
      BY <2>2, <1>4 DEF Quiet
    <3>2. h \in Handlers
      BY <3>1, <1>t, HandlerType
    <3>3. h'.p = None
      BY <3>2, <2>2 DEF Handlers
    <3>4. h' # h
      BY <3>3, <2>2, <1>t, WorkType
    <3> QED
      BY <3>1, <3>4, <2>2, <1>4
  <2> QED
    BY <2>1, <2>2 DEF GivesUpHow
<1>6. HandlerInv'
  BY <1>t, <1>m, <1>5, MoveHandler
<1>7. j = Idle \/ (j \in Jobs /\ JobShape(j))
  <2>1. CASE j # Idle
    <3>1. proc[p].pc \in Asking
      BY <2>1, <1>4 DEF GivesUpHow
    <3>2. AfterAnswer(p, FALSE, j)
      BY DEF GivesUp, AfterAnswer, AnswerStep
    <3> QED
      BY <3>1, <3>2, <1>t, AnswerJob
  <2> QED
    BY <2>1
<1>8. late' \subseteq RequestType
  <2>1. proc[p].pc \in Asking => RequestOf(p) \in RequestType
    BY <1>t, RequestShape
  <2> QED
    BY <2>1, <1>t DEF GivesUpHow, ExposeType
<1>9. ExposeType'
  <2>1. /\ proc' \in [Procs -> Jobs \cup {Idle}]
        /\ \A q \in Procs : proc'[q] # Idle => JobShape(proc'[q])
    BY <1>7, <1>t, MoveType
  <2>2. h' \in Handlers \cup {NoHandler}
    BY <1>5, <1>t, QuietHandler
  <2> QED
    BY <2>1, <2>2, <1>8, <1>t DEF ExposeType
<1>10. CASE late' = late \cup {RequestOf(p)} /\ proc[p].pc \in Asking /\ h' = h
  <2>1. ExposeOK(x)'
    BY <1>1, <1>10, OwnGiveUp
  <2>2. RequestOf(p).e = x
    BY <1>1, <1>10, <1>t, RequestShape
  <2>3. \A r \in late' : r \in late \/ r.e \in {x}
    BY <2>2, <1>10
  <2>4. \A y \in Ids : y \in {x} => ExposeOK(y)'
    BY <2>1
  <2> QED
    BY <2>3, <2>4, <1>2, <1>3, <1>5, <1>6, <1>9, QuietStep
<1>11. CASE late' = late /\ j = Idle
  <2>1. SideKept({}) /\ \A r \in late' : r \in late \/ r.e \in {}
    BY <1>11, <1>2
  <2> QED
    BY <2>1, <1>3, <1>5, <1>6, <1>9, QuietStep
<1> QED
  BY <1>4, <1>10, <1>11 DEF GivesUpHow

(* A command whose plan is stale ends.                                     *)
LEMMA PlanStaleInv ==
  ASSUME ExposeInv, NEW p \in Procs, PlanStale(p) PROVE ExposeInv'
<1>1. proc[p].pc = "planned" /\ h.p # p
  BY DEF PlanStale, StillPlanned
<1>2. Works(p)
  BY <1>1, JobFacts DEF Works
<1>3. GivesUp(p, Idle) /\ GivesUpHow(p, Idle)
  BY <1>1 DEF GivesUp, GivesUpHow, PlanStale, gateway
<1>4. proc' = [proc EXCEPT ![p] = Idle] /\ UNCHANGED <<node, conf, port, reg, gw, nginx, acked, torn, faults>>
  BY DEF PlanStale, End, local, gateway
<1>5. faults' \in 0..MaxFaults
  BY <1>4 DEF ExposeInv, ExposeType
<1> QED
  BY <1>2, <1>3, <1>4, <1>5, GiveUpStep

(* A failure is counted.                                                   *)
LEMMA FailsType ==
  ASSUME ExposeType, NEW k, Fails(k) PROVE faults' \in 0..MaxFaults
BY ExposeAssumptions DEF Fails, ExposeType

(* A call times out or its answer is lost.                                 *)
LEMMA CallFailsInv ==
  ASSUME ExposeInv, NEW p \in Procs, CallFails(p) PROVE ExposeInv'
<1>1. proc[p].pc \in Asking
  BY DEF CallFails
<1>2. Works(p)
  BY <1>1, JobFacts DEF Works, Asking
<1>3. PICK j \in Jobs \cup {Idle} : proc' = [proc EXCEPT ![p] = j] /\ AfterAnswer(p, FALSE, j)
  BY <1>1, <1>2, AnsweredShape DEF CallFails, ExposeInv
<1>4. GivesUp(p, j)
  BY <1>3 DEF GivesUp, AfterAnswer, AnswerStep
<1>5. GivesUpHow(p, j)
  BY <1>1 DEF CallFails, GivesUpHow
<1>6. faults' \in 0..MaxFaults
  BY FailsType DEF CallFails, ExposeInv
<1>7. UNCHANGED <<node, conf, port, reg, gw, nginx, acked, torn>>
  BY DEF CallFails, local
<1> QED
  BY <1>2, <1>3, <1>4, <1>5, <1>6, <1>7, GiveUpStep

(* A command is killed outside a change of the tunnel.                     *)
LEMMA KillInv ==
  ASSUME ExposeInv, NEW p \in Procs, Kill(p), UNCHANGED <<conf, reg>> PROVE ExposeInv'
<1>1. Works(p)
  BY DEF Kill, Works
<1>2. proc' = [proc EXCEPT ![p] = Idle] /\ GivesUp(p, Idle)
  BY DEF Kill, End, GivesUp
<1>3. GivesUpHow(p, Idle)
  BY DEF GivesUpHow, Kill
<1>4. faults' \in 0..MaxFaults
  BY FailsType DEF Kill, ExposeInv
<1>5. UNCHANGED <<node, conf, port, reg, gw, nginx, acked, torn>>
  BY DEF Kill
<1> QED
  BY <1>1, <1>2, <1>3, <1>4, <1>5, GiveUpStep

-----------------------------------------------------------------------------
(* Reserve, Defer, Abort and FinalizeRemoval *)

(* A command that goes on while nothing happens to its expose.             *)
LEMMA OwnMove ==
  ASSUME ExposeType, Alone, NEW p \in Procs, Works(p), NEW x \in Ids, x = proc[p].e, ExposeOK(x),
         NEW j, Proceeds(p, j), proc' = [proc EXCEPT ![p] = j], GwKeeps({}),
         proc[p].pc # "unsaving", proc[p].pc \in Public => j.pc \in Public,
         Stays(x) /\ LateStays(x) /\ ConfStays(x) => JobOK(p)'
  PROVE  ExposeOK(x)'
<1>1. /\ SideKept({x}) /\ proc'[p] = j /\ \A q \in Procs : q # p => proc'[q] = proc[q]
      /\ Mapped(x) => Mapped(x)'
  BY SideMove DEF GwKeeps
<1>2. Stays(x) /\ LateStays(x) /\ ConfStays(x)
  <2>1. x \in Ids \ {} /\ Seen(x)' \subseteq Seen(x)
    BY <1>1 DEF SideKept
  <2> QED
    BY <2>1, <1>1, GwStays, Zenon
<1>3. ASSUME NEW q \in Procs, Works(q)', proc'[q].e = x PROVE Works(q) /\ proc[q].e = x /\ q = p
  <2>1. Works(q) /\ proc[q].e = x
    BY <1>1, <1>3 DEF Works
  <2> QED
    BY <2>1, AloneOn, Zenon
<1>4. JobsFrom(x)
  BY <1>1, <1>3 DEF JobsFrom, Proceeds
<1>5. LateJobs(x)
  BY <1>2, <1>4, FromLate, Zenon
<1>6. \A q \in Procs : Works(q)' /\ proc'[q].e = x => JobOK(q)'
  BY <1>2, <1>3, Zenon
<1> QED
  BY <1>2, <1>5, <1>6, StayExpose, Zenon

(* A quiet step is a step of the gateway that concerns no expose but those *)
(* in X.                                                                   *)
LEMMA QuietKeeps ==
  ASSUME ExposeType, Quiet, NEW X, UNCHANGED <<node, conf, port, reg>>, gw' = gw,
         acked' \subseteq acked, \A r \in late' : r \in late \/ r.e \in X
  PROVE  GwKeeps(X)
<1>1. gw'.gen \in Nat /\ gw.gen <= gw'.gen /\ gw'.ex = gw.ex
  BY GatewayType
<1>2. Handling' => Handling /\ h.r = h'.r
  BY QuietHandler DEF Same
<1>3. Routes' = Routes /\ \A e \in Ids : Firm(e) => Firm(e)'
  BY QuietRoutes
<1> QED
  BY <1>1, <1>2, <1>3, Zenon DEF GwKeeps

(* A request to undo that the gateway refuses: the command goes on.        *)
LEMMA RefusedAbort ==
  ASSUME ExposeInv, NEW p \in Procs, Works(p), proc[p].pc = "aborting", NEW j, Proceeds(p, j),
         j.pc = "unsaving", proc' = [proc EXCEPT ![p] = j], h = NoHandler,
         UNCHANGED <<node, conf, port, reg, gw, nginx, h, late, acked, torn, faults>>
  PROVE  ExposeInv'
<1>t. ExposeType /\ Alone /\ HandlerInv
  BY DEF ExposeInv, Globals
<1>1. PICK x \in Ids : x = proc[p].e
  BY <1>t, WorkType
<1>2. Quiet /\ GwKeeps({})
  BY <1>t, QuietKeeps DEF Quiet
<1>3. SideKept({x}) /\ proc'[p] = j
  BY <1>t, <1>1, SideMove
<1>4. j.cmd = "create"
  <2>1. JobShape(proc[p]) /\ proc[p].cmd \in {"create", "defer", "remove"}
    BY <1>t, WorkType DEF Jobs
  <2> QED
    BY <2>1 DEF Proceeds, JobShape, Gone
<1>5. ExposeType'
  <2>1. j \in Jobs /\ JobShape(j)
    BY <1>4 DEF Proceeds, JobShape, Early
  <2>2. /\ proc' \in [Procs -> Jobs \cup {Idle}]
        /\ \A q \in Procs : proc'[q] # Idle => JobShape(proc'[q])
    BY <2>1, <1>t, MoveType
  <2> QED
    BY <2>2, <1>t DEF ExposeType
<1>6. ExposeOK(x)'
  <2>1. ExposeOK(x) /\ JobOK(p)
    BY <1>1 DEF ExposeInv, ExposeOK
  <2>2. NotYet(x)
    BY <2>1, <1>1, <1>4 DEF JobOK, CreateOK, Early, Proceeds
  <2>3. ASSUME Stays(x), LateStays(x) PROVE JobOK(p)'
    <3>1. NotYet(x)'
      BY <2>2, <2>3, StayNotYet
    <3>2. NotYet(proc[p].e)'
      BY <3>1, <1>1, <1>3 DEF NotYet, Proceeds
    <3>3. CreateOK(p)' /\ proc'[p].cmd # "remove"
      BY <3>2, <1>3, <1>4 DEF CreateOK
    <3> QED
      BY <3>3, Zenon DEF JobOK
  <2>4. proc[p].pc # "unsaving" /\ proc[p].pc \notin Public
    BY DEF Public
  <2> QED
    BY <2>1, <2>3, <2>4, <1>1, <1>2, <1>t, OwnMove
<1>7. HandlerInv'
  BY DEF HandlerInv, Handling
<1>8. gw.gen <= gw'.gen /\ \A r \in late' : r \in late \/ r.e \in {x}
  BY <1>t, GatewayType
<1>9. \A y \in Ids : y \in {x} => ExposeOK(y)'
  BY <1>6
<1> QED
  BY <1>2, <1>3, <1>5, <1>7, <1>8, <1>9, QuietStep

(* The shared state when a request is applied.                             *)
ApplyStep(r) ==
  /\ Applies(r) /\ gw' = Applied(r) /\ h = NoHandler /\ late' \subseteq late
  /\ UNCHANGED <<node, conf, port, reg, nginx, h, acked, torn, faults>>
  /\ r.act \in {"reserve", "defer"} => Fresh(r.e) /\ FreshPort(r.e)

(* What a request that is applied makes of the record.                     *)
LEMMA ApplyGw ==
  ASSUME ExposeType, NEW r \in RequestType, ApplyStep(r)
  PROVE  /\ gw' \in GatewayStates /\ gw'.gen = gw.gen + 1
         /\ \A e \in Ids : e # r.e => gw'.ex[e] = gw.ex[e]
         /\ gw'.ex[r.e] = IF r.act \in {"reserve", "defer"} THEN "pending" ELSE "absent"
         /\ gw.ex[r.e] # "ready"
         /\ r.e \in Ids
<1> DEFINE s == IF r.act \in {"reserve", "defer"} THEN "pending" ELSE "absent"
<1>1. s \in States /\ r.e \in Ids
  BY DEF States, RequestType
<1>2. gw' = [gen |-> gw.gen + 1, ex |-> [gw.ex EXCEPT ![r.e] = s]]
  BY DEF ApplyStep, Applied, Put
<1>3. gw.ex[r.e] # "ready"
  BY DEF ApplyStep, Applies, Reservable, Abortable, Releasable, Fresh
<1> HIDE DEF s
<1>4. gw.gen \in Nat /\ gw.ex \in [Ids -> States]
  BY GatewayType
<1>5. [gw.ex EXCEPT ![r.e] = s] \in [Ids -> States]
  BY <1>1, <1>4
<1>6. gw' \in GatewayStates /\ gw'.gen = gw.gen + 1
  BY <1>2, <1>4, <1>5 DEF GatewayStates
<1>7. gw'.ex[r.e] = s /\ \A e \in Ids : e # r.e => gw'.ex[e] = gw.ex[e]
  BY <1>1, <1>2, <1>4
<1> QED
  BY <1>1, <1>3, <1>6, <1>7 DEF s

(* Neither the routes nor the ports of the other exposes change with it.   *)
LEMMA ApplyShared ==
  ASSUME ExposeInv, NEW r \in RequestType, ApplyStep(r)
  PROVE  /\ GwKeeps({r.e}) /\ Routes' = Routes
         /\ HandlerInv' /\ ServedInv' /\ LinkedInv' /\ PortInv'
<1>t. ExposeType /\ ServedInv /\ LinkedInv /\ PortInv
  BY DEF ExposeInv, Globals
<1>1. /\ gw' \in GatewayStates /\ gw'.gen = gw.gen + 1
      /\ \A e \in Ids : e # r.e => gw'.ex[e] = gw.ex[e]
      /\ gw'.ex[r.e] = IF r.act \in {"reserve", "defer"} THEN "pending" ELSE "absent"
      /\ gw.ex[r.e] # "ready"
      /\ r.e \in Ids
  BY <1>t, ApplyGw
<1>2. Ready(gw.ex)' = Ready(gw.ex)
  BY <1>1 DEF Ready
<1>3. ~Handling /\ ~Handling' /\ ~Undoable /\ ~Undoable' /\ nginx' = nginx /\ torn' = torn
  BY DEF ApplyStep, Handling, Undoable
<1>4. Routes' = Routes
  BY <1>2, <1>3 DEF Routes
<1>5. \A e \in Ids \ {r.e} : Firm(e) => Firm(e)'
  BY <1>1, <1>3 DEF Firm
<1>6. GwKeeps({r.e})
  <2>1. gw.gen \in Nat
    BY <1>t, GatewayType
  <2>2. gw'.gen \in Nat /\ gw.gen <= gw'.gen /\ gw'.gen # gw.gen
    BY <1>1, <2>1
  <2>3. UNCHANGED <<node, conf, port, reg, acked>> /\ late' \subseteq late
    BY DEF ApplyStep
  <2> QED
    BY <1>1, <1>3, <1>4, <1>5, <2>2, <2>3 DEF GwKeeps
<1>7. HandlerInv' /\ ServedInv' /\ LinkedInv'
  BY <1>t, <1>2, <1>3 DEF HandlerInv, ServedInv, LinkedInv
<1>8. PortInv'
  <2>1. port' = port /\ reg' = reg
    BY DEF ApplyStep
  <2>2. CASE r.act \in {"reserve", "defer"}
    <3>1. FreshPort(r.e) /\ gw'.ex = Put(r.e, "pending").ex
      BY <2>2 DEF ApplyStep, Applied
    <3>2. Valid(gw'.ex)
      BY <2>2, <3>1 DEF ApplyStep, Applies, Reservable, Abortable, Releasable
    <3>3. Valid(gw.ex)'
      BY <3>2, <2>1 DEF Valid, Present, Enabled
    <3>4. \A e \in Present(gw.ex)', y \in reg' : port'[y] = port'[e] => y = e
      BY <3>1, <2>1, <1>1, <1>t DEF PortInv, Present, FreshPort
    <3> QED
      BY <3>3, <3>4 DEF PortInv
  <2>3. CASE r.act \notin {"reserve", "defer"}
    <3>1. Present(gw.ex)' \subseteq Present(gw.ex) /\ Enabled(gw.ex)' \subseteq Enabled(gw.ex)
      BY <2>3, <1>1 DEF Present, Enabled
    <3> QED
      BY <3>1, <2>1, <1>t DEF PortInv, Valid
  <2> QED
    BY <2>2, <2>3
<1> QED
  BY <1>4, <1>6, <1>7, <1>8

(* A reservation is applied.                                               *)
LEMMA OwnReserve ==
  ASSUME ExposeInv, NEW r \in RequestType, ApplyStep(r), r.act \in {"reserve", "defer"},
         NEW x \in Ids, x = r.e, port[x] # 0, Seen(x)' \subseteq Seen(x), \A s \in late' : s.e # x,
         \A q \in Procs : Works(q)' /\ proc'[q].e = x =>
           proc'[q].cmd # "remove" /\ proc'[q].pc = "reserved"
  PROVE  ExposeOK(x)'
<1>t. ExposeType /\ ExposeOK(x) /\ Fresh(x)
  BY DEF ExposeInv, ApplyStep
<1>1. Routes' = Routes
  BY ApplyShared
<1>2. port' = port /\ acked' = acked /\ ~Handling'
  BY DEF ApplyStep, Handling
<1>3. x \notin acked
  BY <1>t DEF ExposeOK, AckedOK, Firm, Fresh
<1>4. "disabled" \notin Seen(x)'
  BY <1>t DEF Fresh
<1>5. x \notin Routes'
  BY <1>1, <1>t DEF Fresh
<1>6. EarlyStep(x)
  BY <1>2, <1>3, <1>4, <1>5 DEF EarlyStep, Early
<1> QED
  BY <1>6, OwnEarly

(* An abort or a release is applied.                                       *)
LEMMA OwnDrop ==
  ASSUME ExposeInv, NEW r \in RequestType, ApplyStep(r), r.act \in {"abort", "finalize"},
         NEW x \in Ids, x = r.e, port[x] # 0, Seen(x)' \subseteq Seen(x),
         x \notin Routes, JobsFrom(x),
         \A q \in Procs : Works(q)' /\ proc'[q].e = x =>
           \/ proc'[q] = proc[q]
           \/ proc'[q].cmd # "remove" /\ proc'[q].pc = "unsaving" /\ NotYet(x)
           \/ proc'[q].cmd = "remove" /\ proc'[q].pc = "released"
  PROVE  ExposeOK(x)'
<1>t. ExposeType /\ ExposeOK(x)
  BY DEF ExposeInv
<1>1. Routes' = Routes
  BY ApplyShared
<1>2. /\ port' = port /\ acked' = acked /\ ~Handling' /\ node' = node /\ conf' = conf
      /\ late' \subseteq late
  BY DEF ApplyStep, Handling
<1>3. gw.ex[x] \in {"pending", "disabled"} /\ gw'.ex[x] = "absent"
  BY <1>t, ApplyGw DEF ApplyStep, Applies, Reservable, Abortable, Releasable
<1>4. x \notin Routes' /\ Withdrawn(x)'
  BY <1>1, <1>3 DEF Withdrawn
<1>5. NotYet(x) => NotYet(x)'
  BY <1>2, <1>4 DEF NotYet
<1>6. LateStays(x)
  BY <1>2 DEF LateStays
<1>7. LateJobs(x)
  BY <1>6, <1>t, FromLate
<1>8. Turn(x)
  <2>1. Retired(x) => Retired(x)'
    BY <1>2, <1>4 DEF Retired
  <2>2. ~Fresh(x) /\ ~Firm(x)
    BY <1>3 DEF Fresh, Firm
  <2> QED
    BY <2>1, <2>2, <1>2, <1>3, <1>4, <1>5, <1>6, <1>7 DEF Turn
<1>9. ASSUME NEW q \in Procs, Works(q)', proc'[q].e = x PROVE proc'[q] = proc[q] \/ JobOK(q)'
  <2>1. CASE proc'[q].cmd # "remove" /\ proc'[q].pc = "unsaving" /\ NotYet(x)
    <3>1. NotYet(proc[q].e)'
      BY <1>5, <2>1, <1>9 DEF NotYet
    <3>2. CreateOK(q)'
      BY <3>1, <2>1 DEF CreateOK
    <3> QED
      BY <3>2, <2>1, Zenon DEF JobOK
  <2>2. CASE proc'[q].cmd = "remove" /\ proc'[q].pc = "released"
    <3>1. Withdrawn(proc[q].e)'
      BY <1>4, <1>9 DEF Withdrawn
    <3>2. RemoveOK(q)'
      BY <3>1, <2>2 DEF RemoveOK
    <3> QED
      BY <3>2, <2>2, Zenon DEF JobOK
  <2> QED
    BY <2>1, <2>2, <1>9
<1>10. Routed(x)' /\ DisabledOK(x)'
  BY <1>4 DEF Routed, DisabledOK
<1>11. AckedOK(x)'
  BY <1>2, <1>3, <1>t DEF AckedOK, ExposeOK, Firm
<1> QED
  BY <1>8, <1>9, <1>10, <1>11, <1>t, TurnExpose

(* A request is applied: what is left are the types and its own expose.    *)
LEMMA AppliedInv ==
  ASSUME ExposeInv, NEW r \in RequestType, ApplyStep(r), NEW x \in Ids, x = r.e,
         proc' \in [Procs -> Jobs \cup {Idle}],
         \A q \in Procs : proc'[q] # Idle => JobShape(proc'[q]),
         SideKept({x}), ExposeOK(x)'
  PROVE  ExposeInv'
<1>t. ExposeType
  BY DEF ExposeInv
<1>1. GwKeeps({x}) /\ HandlerInv' /\ ServedInv' /\ LinkedInv' /\ PortInv'
  BY ApplyShared
<1>2. ExposeType'
  BY <1>t, ApplyGw DEF ApplyStep, ExposeType
<1>3. ASSUME NEW e \in Ids PROVE ExposeOK(e)'
  <2>1. CASE e = x
    BY <2>1
  <2>2. CASE e # x
    <3>1. e \in Ids \ {x} /\ ExposeOK(e)
      BY <2>2 DEF ExposeInv
    <3> QED
      BY <3>1, <1>t, <1>1, GwFrame, Zenon
  <2> QED
    BY <2>1, <2>2
<1> QED
  BY <1>1, <1>2, <1>3, Zenon DEF ExposeInv, Globals, SideKept

(* A request whose caller has given up arrives.                            *)
LEMMA HandleLateInv ==
  ASSUME ExposeInv, NEW r \in late, HandleLate(r) PROVE ExposeInv'
<1>t. ExposeType /\ Alone /\ r \in RequestType
  BY DEF ExposeInv, ExposeType
<1>1. PICK x \in Ids : x = r.e
  BY <1>t DEF RequestType
<1>2. LateOK(r) /\ ExposeOK(x)
  BY <1>1 DEF ExposeInv, ExposeOK
<1>3. /\ late' = late \ {r} /\ h = NoHandler /\ r.act \in Saving
      /\ gw' = IF Applies(r) THEN Applied(r) ELSE gw
      /\ UNCHANGED <<node, port, conf, reg, nginx, h, proc, acked, torn, faults>>
  BY DEF HandleLate, local
<1>4. CASE ~Applies(r)
  <2>1. LoseLate(r)
    BY <1>3, <1>4 DEF LoseLate, local
  <2> QED
    BY <2>1, LoseLateInv
<1>5. CASE Applies(r)
  <2>1. ApplyStep(r)
    <3>1. r.act \in {"reserve", "defer"} => Fresh(r.e) /\ FreshPort(r.e)
      BY <1>2, <1>5 DEF LateOK, Reserving, Applies
    <3> QED
      BY <3>1, <1>3, <1>5 DEF ApplyStep
  <2>2. SideKept({})
    BY <1>3, <1>t, SideStill
  <2>3. SideKept({x}) /\ Seen(x)' \subseteq Seen(x)
    BY <2>2 DEF SideKept
  <2>4. port[x] # 0
    BY <1>1, <1>2 DEF LateOK
  <2>5. \A q \in Procs : Works(q)' <=> Works(q)
    BY <1>3 DEF Works
  <2>6. ExposeOK(x)'
    <3>1. CASE r.act \in {"reserve", "defer"}
      <4>1. \A q \in Procs : Works(q) => proc[q].e # x
        BY <3>1, <1>1, <1>2 DEF LateOK
      <4>2. \A s \in late' : s.e # x
        BY <3>1, <1>1, <1>2, <1>3 DEF LateOK
      <4>3. \A q \in Procs : Works(q)' /\ proc'[q].e = x =>
              proc'[q].cmd # "remove" /\ proc'[q].pc = "reserved"
        BY <4>1, <2>5, <1>3
      <4> QED
        BY <4>2, <4>3, <3>1, <2>1, <2>3, <2>4, <1>1, <1>t, OwnReserve
    <3>2. CASE r.act \in {"abort", "finalize"}
      <4>1. x \notin Routes
        BY <3>2, <1>1, <1>2 DEF LateOK, NotYet, Retired, Withdrawn
      <4>2. JobsFrom(x)
        BY <2>5, <1>3 DEF JobsFrom
      <4>3. \A q \in Procs : Works(q)' /\ proc'[q].e = x => proc'[q] = proc[q]
        BY <1>3
      <4> QED
        BY <4>1, <4>2, <4>3, <3>2, <2>1, <2>3, <2>4, <1>1, <1>t, OwnDrop
    <3> QED
      BY <3>1, <3>2, <1>3 DEF Saving
  <2>7. /\ proc' \in [Procs -> Jobs \cup {Idle}]
        /\ \A q \in Procs : proc'[q] # Idle => JobShape(proc'[q])
    BY <1>3, <1>t DEF ExposeType
  <2> QED
    BY <2>1, <2>3, <2>6, <2>7, <1>1, <1>t, AppliedInv
<1> QED
  BY <1>4, <1>5

(* A reservation, an abort or a release is handled while its caller waits. *)
LEMMA HandleCallInv ==
  ASSUME ExposeInv, NEW p \in Procs, HandleCall(p) PROVE ExposeInv'
<1>t. ExposeType /\ Alone
  BY DEF ExposeInv, ExposeType
<1>a. /\ proc[p].pc \in Asking /\ RequestOf(p).act \in Saving /\ h = NoHandler
      /\ gw' = IF Applies(RequestOf(p)) THEN Applied(RequestOf(p)) ELSE gw
      /\ Answered(p, Applies(RequestOf(p)), gw'.gen)
      /\ UNCHANGED <<node, port, conf, reg, nginx, h, late, acked, torn, faults>>
  BY DEF HandleCall, local
<1>w. Works(p)
  BY <1>a, JobFacts DEF Works, Asking
<1>1. PICK x \in Ids : x = proc[p].e
  BY <1>t, <1>w, WorkType
<1>2. PICK r \in RequestType : r = RequestOf(p)
  BY <1>t, <1>w, <1>a, RequestShape
<1>3. /\ r.e = x /\ r.gen = proc[p].gen
      /\ r.act \in {"reserve", "defer"} => proc[p].pc = "planned" /\ proc[p].cmd # "remove"
      /\ r.act = "abort" => proc[p].pc = "aborting"
      /\ r.act = "finalize" => proc[p].pc = "finalizing"
  BY <1>t, <1>w, <1>a, <1>1, <1>2, RequestShape
<1>4. gw'.gen \in Nat
  <2>1. gw.gen \in Nat
    BY <1>t, GatewayType
  <2> QED
    BY <2>1, <1>a DEF Applied, Put
<1>5. Applies(r) \in BOOLEAN
  BY DEF Applies, Reservable, Abortable, Releasable, Valid
<1>6. PICK j \in Jobs \cup {Idle} : proc' = [proc EXCEPT ![p] = j] /\ AfterAnswer(p, Applies(r), j)
  BY <1>2, <1>4, <1>5, <1>a, <1>w, <1>t, AnsweredShape, Zenon
<1>7. j = Idle \/ Proceeds(p, j)
  BY <1>6 DEF AfterAnswer
<1>8. /\ SideKept({x}) /\ proc'[p] = j /\ \A q \in Procs : q # p => proc'[q] = proc[q]
      /\ Works(p)' <=> j # Idle
  BY <1>t, <1>w, <1>a, <1>1, <1>6, <1>7, SideMove
<1>9. /\ proc' \in [Procs -> Jobs \cup {Idle}]
      /\ \A q \in Procs : proc'[q] # Idle => JobShape(proc'[q])
  <2>1. j = Idle \/ (j \in Jobs /\ JobShape(j))
    BY <1>6, <1>a, <1>w, <1>t, AnswerJob
  <2> QED
    BY <2>1, <1>6, <1>t, MoveType
<1>10. ASSUME NEW q \in Procs, Works(q)', proc'[q].e = x
       PROVE  q = p /\ j # Idle /\ Proceeds(p, j)
  <2>1. Works(q) /\ proc[q].e = x
    BY <1>7, <1>8, <1>10, <1>1, <1>w DEF Works, Proceeds
  <2>2. q = p
    BY <2>1, <1>1, <1>w, <1>t, AloneOn, Zenon
  <2> QED
    BY <2>2, <1>7, <1>8, <1>10
<1>11. JobShape(proc[p]) /\ ExposeOK(x) /\ JobOK(p)
  BY <1>t, <1>w, <1>1, WorkType DEF ExposeInv, ExposeOK
<1>12. CASE ~Applies(r)
  <2>1. UNCHANGED <<node, port, conf, reg, gw, nginx, h, late, acked, torn, faults>>
    BY <1>a, <1>2, <1>12
  <2>2. CASE j = Idle
    <3>1. GivesUp(p, j) /\ GivesUpHow(p, j)
      BY <2>1, <2>2, <1>a, <1>t, JobFacts, WorkType DEF GivesUp, GivesUpHow
    <3>2. faults' \in 0..MaxFaults
      BY <2>1, <1>t DEF ExposeType
    <3> QED
      BY <3>1, <3>2, <2>1, <1>w, <1>6, GiveUpStep
  <2>3. CASE j # Idle
    <3>1. r.act = "abort" /\ j.pc = "unsaving"
      BY <2>3, <1>2, <1>6, <1>12 DEF AfterAnswer, AnswerStep
    <3> QED
      BY <3>1, <2>1, <2>3, <1>3, <1>6, <1>7, <1>w, <1>a, RefusedAbort
  <2> QED
    BY <2>2, <2>3
<1>13. CASE Applies(r)
  <2>1. ApplyStep(r)
    <3>1. r.act \in {"reserve", "defer"} => Fresh(r.e) /\ FreshPort(r.e)
      BY <1>1, <1>3, <1>11, <1>13 DEF JobOK, CreateOK, Reserving, Applies
    <3> QED
      BY <3>1, <1>a, <1>2, <1>13 DEF ApplyStep
  <2>2. port[x] # 0 /\ Seen(x)' \subseteq Seen(x)
    BY <1>t, <1>w, <1>1, <1>8 DEF Alone, SideKept
  <2>3. ExposeOK(x)'
    <3>1. CASE r.act \in {"reserve", "defer"}
      <4>1. Creates(p, x) /\ proc[p].pc # "unsaving"
        BY <3>1, <1>1, <1>3, <1>w DEF Creates
      <4>2. \A s \in late' : s.e # x
        BY <4>1, <1>11, <1>a, CreatorLate
      <4>3. j # Idle => j.pc = "reserved"
        BY <3>1, <1>2, <1>6 DEF AfterAnswer, AnswerStep
      <4>4. \A q \in Procs : Works(q)' /\ proc'[q].e = x =>
              proc'[q].cmd # "remove" /\ proc'[q].pc = "reserved"
        BY <4>3, <3>1, <1>3, <1>8, <1>10 DEF Proceeds
      <4> QED
        BY <4>2, <4>4, <3>1, <2>1, <2>2, <1>3, OwnReserve
    <3>2. CASE r.act \in {"abort", "finalize"}
      <4>1. r.act = "abort" => proc[p].cmd # "remove" /\ NotYet(x)
        BY <1>3, <1>11, <1>1 DEF JobShape, Gone, JobOK, CreateOK, Early
      <4>2. r.act = "finalize" => proc[p].cmd = "remove" /\ Retired(x)
        <5>1. proc[p].cmd \in {"create", "defer", "remove"}
          BY <1>t, <1>w, WorkType DEF Jobs
        <5> QED
          BY <5>1, <1>3, <1>11, <1>1 DEF JobShape, Early, Public, JobOK, RemoveOK
      <4>3. x \notin Routes
        BY <3>2, <4>1, <4>2 DEF NotYet, Retired, Withdrawn
      <4>4. proc[p].pc # "unsaving"
        BY <1>a DEF Asking
      <4>5. JobsFrom(x)
        BY <4>4, <1>1, <1>8, <1>10, <1>w DEF JobsFrom, Proceeds
      <4>6. j # Idle => /\ r.act = "abort" => j.pc = "unsaving"
                        /\ r.act = "finalize" => j.pc = "released"
        BY <1>2, <1>6 DEF AfterAnswer, AnswerStep
      <4>7. \A q \in Procs : Works(q)' /\ proc'[q].e = x =>
              \/ proc'[q] = proc[q]
              \/ proc'[q].cmd # "remove" /\ proc'[q].pc = "unsaving" /\ NotYet(x)
              \/ proc'[q].cmd = "remove" /\ proc'[q].pc = "released"
        BY <4>1, <4>2, <4>6, <3>2, <1>8, <1>10 DEF Proceeds
      <4> QED
        BY <4>3, <4>5, <4>7, <3>2, <2>1, <2>2, <1>3, OwnDrop
    <3> QED
      BY <3>1, <3>2, <1>a, <1>2 DEF Saving
  <2> QED
    BY <2>1, <2>3, <1>3, <1>8, <1>9, AppliedInv
<1> QED
  BY <1>12, <1>13

-----------------------------------------------------------------------------
(* The start of a publication or of a withdrawal *)

(* Who asks for it, and what is known of the expose.                       *)
Waits(c, r) ==
  c \in Procs /\ Works(c) /\ proc[c].pc \in Asking /\ RequestOf(c) = r /\ proc[c].e = r.e
Asked(r) ==
  /\ r \in RequestType /\ port[r.e] # 0
  /\ r \in late => CallerOf(r) = None
  /\ r \notin late => Waits(CallerOf(r), r)
  /\ r.act = "publish" /\ gw.ex[r.e] = "pending" => Mapped(r.e)
  /\ r.act = "unpublish" => r.was # "absent"
  /\ \A q \in Procs : Creates(q, r.e) => CallerOf(r) = q /\ r.act = "publish" /\ proc[q].pc = "publishing"
  /\ r.act = "publish" /\ r \notin late => \A s \in late : s.e # r.e

(* Every request to publish or to withdraw that arrives is asked for so.   *)
LEMMA AskedFor ==
  ASSUME ExposeInv, NEW r \in Requests, r.act \in {"publish", "unpublish"}
  PROVE  Asked(r)
<1>t. ExposeType /\ Alone
  BY DEF ExposeInv
<1>1. CASE r \in late
  <2>1. r \in RequestType /\ r.e \in Ids
    BY <1>1, <1>t DEF ExposeType, RequestType
  <2>2. LateOK(r)
    BY <1>1, <2>1 DEF ExposeInv, ExposeOK
  <2>3. CallerOf(r) = None
    BY <1>1 DEF CallerOf
  <2>4. \A q \in Procs : ~Creates(q, r.e)
    BY <2>2 DEF LateOK
  <2> QED
    BY <2>1, <2>2, <2>3, <2>4, <1>1 DEF Asked, LateOK
<1>2. CASE r \notin late
  <2>1. PICK q \in Procs : proc[q].pc \in Asking /\ RequestOf(q) = r
    BY <1>2 DEF Requests
  <2>2. PICK c \in Procs : c = CallerOf(r) /\ proc[c].pc \in Asking /\ RequestOf(c) = r
    BY <1>2, <2>1 DEF CallerOf
  <2>3. Works(c)
    BY <2>2, JobFacts DEF Works, Asking
  <2>4. /\ r \in RequestType /\ r.e = proc[c].e
        /\ proc[c].pc = "planned" => r.was = proc[c].base.ex[proc[c].e]
        /\ r.act = "unpublish" => proc[c].pc = "planned" /\ proc[c].cmd = "remove"
        /\ r.act = "publish" => proc[c].pc = "publishing"
    BY <1>t, <2>2, <2>3, RequestShape
  <2>5. proc[c].e \in Ids /\ JobShape(proc[c]) /\ ExposeOK(r.e) /\ JobOK(c)
    BY <1>t, <2>3, <2>4, WorkType DEF ExposeInv, ExposeOK
  <2>6. r.act = "publish" => proc[c].cmd # "remove" /\ CreateOK(c)
    BY <2>4, <2>5 DEF JobShape, Gone, JobOK
  <2>7. r.act = "unpublish" => RemoveOK(c)
    BY <2>4, <2>5 DEF JobOK
  <2>8. \A p \in Procs : Creates(p, r.e) => p = c
    BY <1>t, <2>3, <2>4, AloneOn, Zenon DEF Creates
  <2>9. r.act = "publish" => \A s \in late : s.e # r.e
    <3>1. r.act = "publish" => Creates(c, r.e) /\ proc[c].pc # "unsaving"
      BY <2>3, <2>4, <2>6 DEF Creates
    <3>2. r.e \in Ids
      BY <2>4, <2>5
    <3> QED
      BY <3>1, <3>2, <2>5, CreatorLate
  <2>10. r.act = "publish" /\ gw.ex[r.e] = "pending" => Mapped(r.e)
    BY <2>4, <2>6 DEF CreateOK
  <2>11. r.act = "unpublish" => r.was # "absent"
    BY <2>4, <2>7 DEF RemoveOK
  <2>12. port[r.e] # 0
    BY <1>t, <2>3, <2>4 DEF Alone
  <2>13. \A p \in Procs : Creates(p, r.e) => CallerOf(r) = p /\ r.act = "publish" /\ proc[p].pc = "publishing"
    BY <2>2, <2>4, <2>8 DEF Creates
  <2> QED
    BY <1>2, <2>2, <2>3, <2>4, <2>9, <2>10, <2>11, <2>12, <2>13 DEF Asked, Waits
<1> QED
  BY <1>1, <1>2

(* A command that is told that its request has failed ends.                *)
LEMMA ReplyFails ==
  ASSUME ExposeType, Alone, NEW r \in RequestType, r.act \in {"publish", "unpublish"},
         NEW c \in Procs \cup {None},
         c = None \/ Waits(c, r), Reply(c, FALSE, 0), UNCHANGED <<node, conf, port>>
  PROVE  /\ SideKept({})
         /\ proc' \in [Procs -> Jobs \cup {Idle}]
         /\ \A q \in Procs : proc'[q] # Idle => JobShape(proc'[q])
<1>1. CASE c = None
  <2>1. proc' = proc
    BY <1>1 DEF Reply
  <2> QED
    BY <2>1, SideStill DEF ExposeType
<1>2. CASE Waits(c, r) /\ c # None
  <2>1. c \in Procs /\ Works(c) /\ proc[c].pc \in Asking /\ RequestOf(c) = r /\ Answered(c, FALSE, 0)
    BY <1>2 DEF Waits, Reply
  <2>2. PICK j \in Jobs \cup {Idle} : proc' = [proc EXCEPT ![c] = j] /\ AfterAnswer(c, FALSE, j)
    BY <2>1, AnsweredShape
  <2>3. j = Idle
    BY <2>1, <2>2 DEF AfterAnswer, AnswerStep
  <2>4. proc[c].e \in Ids
    BY <2>1, WorkType
  <2>5. SideKept({})
    BY <2>1, <2>2, <2>3, <2>4, SideMove
  <2> QED
    BY <2>1, <2>2, <2>3, <2>5, MoveType
<1> QED
  BY <1>1, <1>2

(* The generation that a publication renders: the published exposes, with  *)
(* its own added or left out.                                              *)
LEMMA CandidateFacts ==
  ASSUME ExposeInv, NEW r \in RequestType, r.act \in {"publish", "unpublish"}
  PROVE  /\ Candidate(r) \in Generations
         /\ \A e \in Ids : e # r.e => (e \in Candidate(r).routes <=> gw.ex[e] = "ready")
         /\ r.e \in Candidate(r).routes <=> r.act = "publish"
         /\ Candidate(r).routes = Ready([gw.ex EXCEPT ![r.e] = Goal(r)])
         /\ Activatable(Candidate(r)) => nginx.run \in {nginx.cur.routes, Candidate(r).routes}
<1>1. Candidate(r) = [gen |-> r.gen + 1, routes |-> Ready([gw.ex EXCEPT ![r.e] = Goal(r)])]
  BY DEF Candidate, Put
<1>2. r.e \in Ids /\ r.gen \in Nat /\ gw.ex \in [Ids -> States]
  BY GatewayType DEF RequestType, ExposeInv
<1>3. Ready([gw.ex EXCEPT ![r.e] = Goal(r)]) \subseteq Ids
  BY DEF Ready
<1>4. Candidate(r) \in Generations
  BY <1>1, <1>2, <1>3 DEF Generations
<1>5. /\ \A e \in Ids : e # r.e => (e \in Candidate(r).routes <=> gw.ex[e] = "ready")
      /\ r.e \in Candidate(r).routes <=> r.act = "publish"
  BY <1>1, <1>2 DEF Ready, Goal
<1>6. ASSUME Activatable(Candidate(r)) PROVE nginx.run \in {nginx.cur.routes, Candidate(r).routes}
  <2>1. nginx.old \subseteq {Candidate(r)}
    BY <1>6 DEF Activatable
  <2> QED
    BY <2>1 DEF ExposeInv, Globals, LinkedInv
<1> QED
  BY <1>1, <1>4, <1>5, <1>6

(* What the start leaves to be seen: the shared state.                     *)
Begins(r) ==
  /\ UNCHANGED <<node, conf, port, reg, gw>>
  /\ \A e \in Ids : e # r.e => (e \in Routes' => e \in Routes) /\ (Firm(e) => Firm(e)')
  /\ r.act = "unpublish" => (r.e \in Routes' => r.e \in Routes)
  /\ Handling' => h'.r = r

(* The start of a publication keeps everything about its expose.           *)
LEMMA OwnBegin ==
  ASSUME ExposeInv, NEW r \in Requests, BeginHandler(r), Begins(r), SideKept({}),
         NEW x \in Ids, x = r.e
  PROVE  ExposeOK(x)'
<1>t. ExposeType /\ ExposeOK(x)
  BY DEF ExposeInv
<1>1. /\ r.act \in {"publish", "unpublish"} /\ Current(r) /\ late' = late \ {r}
      /\ acked' = IF r.act = "unpublish" THEN acked \ {r.e} ELSE acked
  BY DEF BeginHandler
<1>2. Asked(r)
  BY <1>1, AskedFor
<1>3. /\ gw.ex[x] \in Live
      /\ r.act = "publish" => gw.ex[x] = "pending"
  <2>1. gw.ex[x] \in States
    BY <1>t, GatewayType
  <2> QED
    BY <2>1, <1>1, <1>2 DEF Current, Asked, States, Live
<1>4. UNCHANGED <<node, conf, port, reg, gw>>
  BY DEF Begins
<1>5. /\ Seen(x)' \subseteq Seen(x) /\ (Mapped(x) => Mapped(x)')
      /\ \A q \in Procs : Works(q)' /\ proc'[q].e = x => proc'[q] = proc[q] /\ Works(q)
  <2>1. \A q \in Procs : Works(q)' /\ proc'[q].e = x => proc'[q] = proc[q]
    BY DEF SideKept
  <2> QED
    BY <2>1 DEF SideKept, Works
<1>6. LateStays(x)
  BY <1>1 DEF LateStays
<1>7. JobsFrom(x)
  BY <1>5 DEF JobsFrom
<1>8. LateJobs(x)
  BY <1>6, <1>7, <1>t, FromLate
<1>9. ~Fresh(x) /\ ~Retired(x) /\ ~Withdrawn(x) /\ gw' = gw /\ gw.ex[x] # "absent"
  BY <1>3, <1>4 DEF Fresh, Retired, Withdrawn, Live
<1>10. ASSUME NEW q \in Procs, Creates(q, x)'
       PROVE  r.act = "publish" /\ proc'[q].pc = "publishing"
  <2>1. Works(q)' /\ proc'[q].e = x /\ proc'[q].cmd # "remove"
    BY <1>10 DEF Creates
  <2>2. Creates(q, r.e) /\ proc'[q] = proc[q]
    BY <2>1, <1>5 DEF Creates
  <2> QED
    BY <2>2, <1>2 DEF Asked
<1>11. Firm(x) => Firm(x)' \/ \A q \in Procs : ~Creates(q, x)'
  <2>1. r.act = "publish" => ~Firm(x)
    BY <1>3 DEF Firm
  <2> QED
    BY <2>1, <1>10
<1>12. NotYet(x) => \/ NotYet(x)'
                    \/ /\ \A s \in late' : s.e # x
                       /\ \A q \in Procs : Creates(q, x)' => proc'[q].pc \notin Early
  <2>1. CASE r.act = "publish"
    <3>1. \A q \in Procs : Creates(q, x)' => proc'[q].pc \notin Early
      BY <1>10 DEF Early
    <3>2. r \in late => ~NotYet(x)
      BY <2>1 DEF NotYet
    <3>3. r \notin late => \A s \in late' : s.e # x
      BY <2>1, <1>1, <1>2 DEF Asked
    <3> QED
      BY <3>1, <3>2, <3>3
  <2>2. CASE r.act = "unpublish"
    <3>1. Handling' => h'.r.act # "publish"
      BY <2>2 DEF Begins
    <3>2. x \in Routes' => x \in Routes
      BY <2>2 DEF Begins
    <3>3. NotYet(x) => NotYet(x)'
      BY <3>1, <3>2, <1>1 DEF NotYet
    <3> QED
      BY <3>3
  <2> QED
    BY <2>1, <2>2, <1>1
<1>13. port'[x] # 0
  BY <1>2, <1>4 DEF Asked
<1>14. Turn(x)
  BY <1>4, <1>5, <1>6, <1>8, <1>9, <1>11, <1>12, <1>13 DEF Turn
<1>15. Routed(x)'
  <2>1. r.act = "publish" => Mapped(x)
    BY <1>2, <1>3 DEF Asked
  <2>2. r.act = "unpublish" /\ x \in Routes' => Mapped(x)
    BY <1>t DEF Begins, ExposeOK, Routed
  <2> QED
    BY <2>1, <2>2, <1>1, <1>5, <1>9 DEF Routed
<1>16. AckedOK(x)'
  <2>1. r.act = "publish" => x \notin acked
    BY <1>3, <1>t DEF ExposeOK, AckedOK, Firm
  <2> QED
    BY <2>1, <1>1 DEF AckedOK
<1>17. DisabledOK(x)'
  BY <1>5, <1>9, <1>t DEF ExposeOK, DisabledOK
<1>18. \A q \in Procs : Works(q)' /\ proc'[q].e = x => proc'[q] = proc[q] \/ JobOK(q)'
  BY <1>5
<1> QED
  BY <1>14, <1>15, <1>16, <1>17, <1>18, <1>t, TurnExpose

(* And everything about all exposes.                                       *)
LEMMA BeginExposes ==
  ASSUME ExposeInv, NEW r \in Requests, BeginHandler(r), Begins(r), SideKept({}), NEW e \in Ids
  PROVE  ExposeOK(e)'
<1>t. ExposeType /\ ExposeOK(e)
  BY DEF ExposeInv
<1>1. Asked(r)
  BY AskedFor DEF BeginHandler
<1>2. r.e \in Ids
  BY <1>1 DEF Asked, RequestType
<1>3. CASE e = r.e
  BY <1>3, OwnBegin
<1>4. CASE e # r.e
  <2>1. SideKept({r.e})
    BY DEF SideKept
  <2>2. GwKeeps({r.e})
    <3>1. gw.gen \in Nat
      BY <1>t, GatewayType
    <3>2. late' \subseteq late /\ acked' \subseteq acked
      BY DEF BeginHandler
    <3> QED
      BY <3>1, <3>2 DEF GwKeeps, Begins
  <2> QED
    BY <2>1, <2>2, <1>4, <1>t, GwFrame
<1> QED
  BY <1>3, <1>4

(* The record it starts from is a live one.                                *)
LEMMA BeginLive ==
  ASSUME ExposeInv, NEW r \in Requests, BeginHandler(r)
  PROVE  gw.ex[r.e] \in (IF r.act = "publish" THEN {"pending"} ELSE Live)
<1>1. Asked(r)
  BY AskedFor DEF BeginHandler
<1>2. gw.ex[r.e] \in States
  BY <1>1, GatewayType DEF Asked, RequestType, ExposeInv
<1> QED
  BY <1>1, <1>2 DEF BeginHandler, Current, Asked, States, Live

(* The new generation is linked and loaded.                                *)
LEMMA ActivateInv ==
  ASSUME ExposeInv, NEW r \in Requests, Activate(r) PROVE ExposeInv'
<1>t. ExposeType /\ Alone /\ HandlerInv /\ ServedInv /\ LinkedInv /\ PortInv
  BY DEF ExposeInv, Globals
<1>a. /\ BeginHandler(r) /\ r.act \in {"publish", "unpublish"} /\ h = NoHandler
      /\ Activatable(Candidate(r)) /\ late' \subseteq late /\ acked' \subseteq acked
      /\ nginx' = [cur |-> Candidate(r), old |-> {nginx.cur}, run |-> Switched(nginx.cur, Candidate(r))]
      /\ h' = [step |-> "save", r |-> r, p |-> CallerOf(r), prev |-> nginx.cur]
      /\ UNCHANGED <<node, port, conf, reg, gw, proc, torn, faults>>
  BY DEF Activate, BeginHandler, local
<1>b. Asked(r)
  BY <1>a, AskedFor
<1>1. PICK k \in Generations :
        /\ k = Candidate(r)
        /\ \A e \in Ids : e # r.e => (e \in k.routes <=> gw.ex[e] = "ready")
        /\ r.e \in k.routes <=> r.act = "publish"
        /\ k.routes = Ready([gw.ex EXCEPT ![r.e] = Goal(r)])
        /\ nginx.run \in {nginx.cur.routes, k.routes}
  BY <1>a, <1>b, CandidateFacts DEF Asked
<1>2. nginx'.cur = k /\ nginx'.old = {nginx.cur} /\ nginx'.run = k.routes
  BY <1>1, <1>a DEF Switched
<1>3. PICK c : c = CallerOf(r)
  OBVIOUS
<1>4. /\ h'.step = "save" /\ h'.r = r /\ h'.p = c /\ h'.prev = nginx.cur
  BY <1>a, <1>3
<1>5. c \in Procs \cup {None} /\ (c \in Procs => Waits(c, r))
  BY <1>b, <1>3, ExposeAssumptions DEF Asked, Waits
<1>6. h' \in Handlers
  <2>1. nginx.cur \in Generations /\ r \in RequestType
    BY <1>t, <1>b, GatewayType DEF Asked
  <2> QED
    BY <2>1, <1>3, <1>5, <1>a DEF Handlers
<1>7. Handling' /\ Undoable' /\ ~Undoable
  BY <1>4, <1>6, <1>a, JobFacts DEF Handling, Undoable
<1>8. \A e : e \in Routes' <=> e \in k.routes \/ e \in Ready(gw.ex) \/ e \in nginx.cur.routes
  <2>1. Ready(gw.ex)' = Ready(gw.ex)
    BY <1>a DEF Ready
  <2> QED
    BY <2>1, <1>2, <1>4, <1>7 DEF Routes
<1>9. Begins(r)
  <2>1. \A e \in Ids : e # r.e => (e \in Routes' => e \in Routes)
    BY <1>1, <1>8 DEF Routes, Ready
  <2>2. \A e \in Ids : e # r.e => (Firm(e) => Firm(e)')
    BY <1>1, <1>2, <1>4, <1>a DEF Firm
  <2>3. r.act = "unpublish" => (r.e \in Routes' => r.e \in Routes)
    BY <1>1, <1>8 DEF Routes
  <2> QED
    BY <2>1, <2>2, <2>3, <1>4, <1>a DEF Begins
<1>10. SideKept({})
  BY <1>t, <1>a, SideStill
<1>11. \A e \in Ids : ExposeOK(e)'
  BY <1>9, <1>10, <1>a, BeginExposes
<1>12. ExposeType'
  <2>1. nginx' \in NginxType
    <3>1. nginx.cur \in Generations /\ k.routes \subseteq Ids
      BY <1>t, GatewayType DEF Generations
    <3>2. nginx' = [cur |-> k, old |-> {nginx.cur}, run |-> k.routes]
      BY <1>1, <1>2, <1>a
    <3> QED
      BY <3>1, <3>2 DEF NginxType
  <2>2. acked' \subseteq Ids /\ late' \subseteq RequestType
    BY <1>t, <1>a DEF ExposeType
  <2> QED
    BY <2>1, <2>2, <1>6, <1>a, <1>t DEF ExposeType
<1>13. HandlerInv'
  <2>1. h'.r.act \in {"publish", "unpublish"} /\ port'[h'.r.e] # 0
    BY <1>4, <1>a, <1>b DEF Asked
  <2>2. h'.p \in Procs => proc'[h'.p].pc \in Asking /\ RequestOf(h.p)' = h'.r
    <3> SUFFICES ASSUME h'.p \in Procs PROVE proc'[h'.p].pc \in Asking /\ RequestOf(h.p)' = h'.r
      OBVIOUS
    <3>1. Waits(c, r) /\ h'.p = c
      BY <1>4, <1>5
    <3>2. RequestOf(h.p)' = RequestOf(c)
      BY <3>1, <1>a DEF RequestOf
    <3> QED
      BY <3>1, <3>2, <1>4, <1>a DEF Waits
  <2>3. \A q \in Procs : Creates(q, h.r.e)' => h'.p = q
    <3>1. \A q \in Procs : Creates(q, r.e) => c = q
      BY <1>3, <1>b DEF Asked
    <3> QED
      BY <3>1, <1>4, <1>a DEF Creates, Works
  <2>4. h'.step = "save" => gw'.ex[h'.r.e] \in (IF h'.r.act = "publish" THEN {"pending"} ELSE Live)
    BY <1>4, <1>a, BeginLive
  <2> QED
    BY <2>1, <2>2, <2>3, <2>4, <1>1, <1>2, <1>4 DEF HandlerInv
<1>14. ServedInv'
  <2>1. Ready(gw.ex)' = Ready(gw.ex)
    BY <1>a DEF Ready
  <2>2. Ready([gw.ex EXCEPT ![h.r.e] = Goal(h.r)])' = Ready([gw.ex EXCEPT ![r.e] = Goal(r)])
    BY <1>4, <1>a DEF Ready, Goal
  <2>3. ~torn => nginx.cur.routes = Ready(gw.ex)
    BY <1>t, <1>7 DEF ServedInv
  <2> QED
    BY <2>1, <2>2, <2>3, <1>1, <1>2, <1>4, <1>7, <1>a DEF ServedInv
<1>15. LinkedInv'
  BY <1>2 DEF LinkedInv
<1>16. PortInv'
  BY <1>t, <1>a, QuietPorts
<1> QED
  BY <1>10, <1>11, <1>12, <1>13, <1>14, <1>15, <1>16 DEF ExposeInv, Globals, SideKept

(* The reload fails, and perhaps its rollback too.                         *)
LEMMA ActivateFailsInv ==
  ASSUME ExposeInv, NEW r \in Requests, ActivateFails(r) PROVE ExposeInv'
<1>t. ExposeType /\ Alone /\ HandlerInv /\ ServedInv /\ LinkedInv /\ PortInv
  BY DEF ExposeInv, Globals
<1>a. /\ BeginHandler(r) /\ r.act \in {"publish", "unpublish"} /\ h = NoHandler
      /\ Activatable(Candidate(r)) /\ late' \subseteq late /\ acked' \subseteq acked
      /\ Reply(CallerOf(r), FALSE, 0)
      /\ UNCHANGED <<node, port, conf, reg, gw, h>>
      /\ faults' \in 0..MaxFaults
  BY <1>t, FailsType DEF ActivateFails, BeginHandler, local
<1>b. Asked(r)
  BY <1>a, AskedFor
<1>1. PICK k \in Generations :
        /\ k = Candidate(r)
        /\ \A e \in Ids : e # r.e => (e \in k.routes <=> gw.ex[e] = "ready")
        /\ r.e \in k.routes <=> r.act = "publish"
        /\ nginx.run \in {nginx.cur.routes, k.routes}
  BY <1>a, <1>b, CandidateFacts DEF Asked
<1>2. \/ UNCHANGED <<nginx, torn>>
      \/ /\ \E x \in {k, nginx.cur}, run \in {nginx.run, k.routes} :
              nginx' = [cur |-> x, run |-> run, old |-> {k, nginx.cur} \ {x}]
         /\ torn' = TRUE
  BY <1>1 DEF ActivateFails
<1>3. ~Handling' /\ ~Undoable' /\ ~Handling /\ ~Undoable
  BY <1>a DEF Handling, Undoable
<1>4. /\ nginx' \in NginxType /\ torn' \in BOOLEAN /\ LinkedInv'
      /\ nginx'.cur \in {k, nginx.cur} /\ nginx'.run \in {nginx.run, k.routes}
      /\ ~torn' => nginx' = nginx /\ ~torn
  <2>1. CASE UNCHANGED <<nginx, torn>>
    BY <2>1, <1>t DEF LinkedInv, ExposeType, NginxType
  <2>2. CASE /\ \E x \in {k, nginx.cur}, run \in {nginx.run, k.routes} :
                  nginx' = [cur |-> x, run |-> run, old |-> {k, nginx.cur} \ {x}]
             /\ torn' = TRUE
    <3>1. PICK x \in {k, nginx.cur}, run \in {nginx.run, k.routes} :
            nginx' = [cur |-> x, run |-> run, old |-> {k, nginx.cur} \ {x}]
      BY <2>2
    <3>2. nginx.cur \in Generations /\ nginx.run \subseteq Ids /\ k.routes \subseteq Ids
      BY <1>t, GatewayType DEF Generations
    <3>3. nginx' \in NginxType /\ nginx'.cur = x /\ nginx'.run = run /\ nginx'.old = {k, nginx.cur} \ {x}
      BY <3>1, <3>2 DEF NginxType
    <3>4. run \in {k.routes, nginx.cur.routes}
      BY <1>1
    <3>5. LinkedInv'
      BY <3>3, <3>4 DEF LinkedInv
    <3> QED
      BY <3>3, <3>5, <2>2
  <2> QED
    BY <2>1, <2>2, <1>2
<1>5. \A e : e \in Routes' => e \in k.routes \/ e \in Routes
  <2>1. Ready(gw.ex)' = Ready(gw.ex)
    BY <1>a DEF Ready
  <2> QED
    BY <2>1, <1>3, <1>4 DEF Routes
<1>6. Begins(r)
  <2>1. \A e \in Ids : e # r.e => (e \in Routes' => e \in Routes)
    BY <1>1, <1>5 DEF Routes, Ready
  <2>2. \A e \in Ids : e # r.e => (Firm(e) => Firm(e)')
    BY <1>1, <1>3, <1>4, <1>a DEF Firm
  <2>3. r.act = "unpublish" => (r.e \in Routes' => r.e \in Routes)
    BY <1>1, <1>5
  <2> QED
    BY <2>1, <2>2, <2>3, <1>3, <1>a DEF Begins
<1>7. /\ SideKept({})
      /\ proc' \in [Procs -> Jobs \cup {Idle}]
      /\ \A q \in Procs : proc'[q] # Idle => JobShape(proc'[q])
  <2>1. PICK c : c = CallerOf(r)
    OBVIOUS
  <2>2. c = None \/ Waits(c, r)
    BY <2>1, <1>b DEF Asked
  <2>3. Reply(c, FALSE, 0)
    BY <2>1, <1>a, Zenon
  <2>4. /\ UNCHANGED <<node, conf, port>> /\ r.act \in {"publish", "unpublish"}
        /\ r \in RequestType /\ c \in Procs \cup {None}
    BY <2>2, <1>a, <1>b DEF Asked, Waits
  <2> QED
    BY <2>2, <2>3, <2>4, <1>t, ReplyFails, Zenon
<1>8. \A e \in Ids : ExposeOK(e)'
  BY <1>6, <1>7, <1>a, BeginExposes
<1>9. ExposeType'
  <2>1. acked' \subseteq Ids /\ late' \subseteq RequestType
    BY <1>t, <1>a DEF ExposeType
  <2> QED
    BY <2>1, <1>4, <1>7, <1>a, <1>t DEF ExposeType
<1>10. HandlerInv'
  BY <1>3 DEF HandlerInv
<1>11. ServedInv'
  <2>1. Ready(gw.ex)' = Ready(gw.ex)
    BY <1>a DEF Ready
  <2> QED
    BY <2>1, <1>3, <1>4, <1>t DEF ServedInv
<1>12. PortInv'
  BY <1>t, <1>a, QuietPorts
<1> QED
  BY <1>4, <1>7, <1>8, <1>9, <1>10, <1>11, <1>12 DEF ExposeInv, Globals, SideKept

(* A command goes on, nothing else happens.                                *)
LEMMA MovedInv ==
  ASSUME ExposeInv, NEW p \in Procs, Works(p), NEW x \in Ids, x = proc[p].e,
         NEW j, Proceeds(p, j), JobShape(j),
         proc' = [proc EXCEPT ![p] = j], h = NoHandler,
         UNCHANGED <<node, conf, port, reg, gw, nginx, h, late, acked, torn, faults>>,
         proc[p].pc # "unsaving", proc[p].pc \in Public => j.pc \in Public,
         Stays(x) /\ LateStays(x) /\ ConfStays(x) => JobOK(p)'
  PROVE  ExposeInv'
<1>t. ExposeType /\ Alone /\ ExposeOK(x)
  BY DEF ExposeInv
<1>1. Quiet
  BY DEF Quiet
<1>2. acked' \subseteq acked /\ \A r \in late' : r \in late \/ r.e \in {}
  OBVIOUS
<1>3. GwKeeps({})
  BY <1>t, <1>1, <1>2, QuietKeeps
<1>4. SideKept({x})
  BY <1>t, SideMove
<1>5. ExposeType'
  <2>1. j \in Jobs /\ JobShape(j)
    BY DEF Proceeds
  <2>2. /\ proc' \in [Procs -> Jobs \cup {Idle}]
        /\ \A q \in Procs : proc'[q] # Idle => JobShape(proc'[q])
    BY <2>1, <1>t, MoveType
  <2> QED
    BY <2>2, <1>t DEF ExposeType
<1>6. ExposeOK(x)'
  BY <1>t, <1>3, OwnMove
<1>7. HandlerInv'
  BY DEF HandlerInv, Handling
<1>8. gw.gen <= gw'.gen /\ \A r \in late' : r \in late \/ r.e \in {x}
  BY <1>t, GatewayType
<1>9. \A y \in Ids : y \in {x} => ExposeOK(y)'
  BY <1>6
<1> QED
  BY <1>1, <1>4, <1>5, <1>7, <1>8, <1>9, QuietStep

(* The controller refuses a request, or answers that it is done already.   *)
LEMMA RefuseInv ==
  ASSUME ExposeInv, NEW r \in Requests, Refuse(r) PROVE ExposeInv'
<1>t. ExposeType /\ Alone
  BY DEF ExposeInv
<1> DEFINE ok == /\ r.act = "unpublish" /\ gw.gen = r.gen
                 /\ r.was = "disabled" /\ gw.ex[r.e] = "disabled"
<1>a. /\ r.act \in {"publish", "unpublish"} /\ h = NoHandler /\ late' = late \ {r}
      /\ Reply(CallerOf(r), ok, gw.gen)
      /\ UNCHANGED <<node, port, conf, reg, gw, nginx, h, acked, torn, faults>>
  BY DEF Refuse, local
<1>b. Asked(r) /\ r \in RequestType
  BY <1>a, AskedFor DEF Asked
<1>1. PICK c : c = CallerOf(r)
  OBVIOUS
<1>2. CASE r \in late
  <2>1. c = None
    BY <1>1, <1>2, <1>b DEF Asked
  <2>2. proc' = proc
    BY <2>1, <1>1, <1>a DEF Reply
  <2>3. LoseLate(r)
    BY <2>2, <1>2, <1>a DEF LoseLate, local
  <2> QED
    BY <2>3, LoseLateInv
<1>3. CASE r \notin late
  <2>1. Waits(c, r) /\ c # None /\ late' = late
    BY <1>1, <1>3, <1>a, <1>b, ExposeAssumptions DEF Asked, Waits
  <2>2. c \in Procs /\ Works(c) /\ proc[c].pc \in Asking /\ RequestOf(c) = r /\ proc[c].e = r.e
    BY <2>1 DEF Waits
  <2>3. Answered(c, ok, gw.gen)
    BY <2>1, <1>1, <1>a DEF Reply
  <2>4. ok \in BOOLEAN /\ gw.gen \in Nat
    BY <1>t, GatewayType
  <2> HIDE DEF ok
  <2>5. PICK j \in Jobs \cup {Idle} : proc' = [proc EXCEPT ![c] = j] /\ AfterAnswer(c, ok, j)
    BY <2>2, <2>3, <2>4, <1>t, AnsweredShape
  <2>6. CASE j = Idle
    <3>1. h.p # c
      BY <2>1, <1>a, JobFacts
    <3>2. GivesUp(c, j) /\ GivesUpHow(c, j)
      BY <3>1, <2>1, <2>6, <1>a DEF GivesUp, GivesUpHow
    <3>3. faults' \in 0..MaxFaults
      BY <1>a, <1>t DEF ExposeType
    <3> QED
      BY <3>2, <3>3, <2>2, <2>5, <1>a, GiveUpStep
  <2>7. CASE j # Idle
    <3>1. ok /\ r.act = "unpublish" /\ j.pc = "unpublished" /\ Proceeds(c, j)
      <4>1. ok => r.act = "unpublish"
        BY DEF ok
      <4> QED
        BY <4>1, <2>2, <2>5, <2>7, <1>a DEF AfterAnswer, AnswerStep
    <3>2. PICK x \in Ids : x = proc[c].e
      BY <2>2, <1>t, WorkType
    <3>3. proc[c].pc = "planned" /\ proc[c].cmd = "remove" /\ r.was = proc[c].base.ex[x]
      BY <3>1, <3>2, <2>2, <1>t, RequestShape
    <3>4. JobShape(j)
      BY <3>1, <3>3 DEF JobShape, Proceeds, Gone
    <3>5. ExposeOK(x) /\ RemoveOK(c)
      BY <3>2, <3>3, <2>2 DEF ExposeInv, ExposeOK, JobOK
    <3>6. Withdrawn(x)
      <4>1. proc[c].base.ex[x] = "disabled"
        BY <3>1, <3>3 DEF ok
      <4>2. c \in On(x)
        BY <3>2, <2>2, <1>t DEF On, Alone
      <4> QED
        BY <4>1, <4>2, <3>5 DEF ExposeOK, DisabledOK, Seen
    <3>7. proc'[c] = j
      BY <2>2, <2>5, <1>t DEF ExposeType
    <3>8. ASSUME Stays(x) PROVE JobOK(c)'
      <4>1. Withdrawn(x)'
        BY <3>6, <3>8, StayWithdrawn
      <4>2. Withdrawn(proc[c].e)'
        BY <4>1, <3>1, <3>2, <3>7 DEF Withdrawn, Proceeds
      <4>3. node'[HostOf[c]].ex = proc'[c].base.ex
        BY <3>1, <3>3, <3>5, <3>7, <1>a DEF RemoveOK, Proceeds
      <4>4. RemoveOK(c)' /\ proc'[c].cmd = "remove"
        BY <4>2, <4>3, <3>1, <3>3, <3>7 DEF RemoveOK, Proceeds
      <4> QED
        BY <4>4, Zenon DEF JobOK
    <3>9. proc[c].pc # "unsaving" /\ proc[c].pc \notin Public
      BY <3>3 DEF Public
    <3> QED
      BY <3>1, <3>2, <3>4, <3>8, <3>9, <2>1, <2>2, <2>5, <1>a, MovedInv
  <2> QED
    BY <2>6, <2>7
<1> QED
  BY <1>2, <1>3

-----------------------------------------------------------------------------
(* The end of a publication *)

(* The caller of the publication at work, if it is still there, waits for  *)
(* it.                                                                     *)
LEMMA HandlerWaits ==
  ASSUME ExposeInv, Handling
  PROVE  /\ h.p = None \/ Waits(h.p, h.r)
         /\ h.r \in RequestType /\ h.r.act \in {"publish", "unpublish"}
         /\ h.p \in Procs \cup {None}
<1>t. ExposeType /\ HandlerInv
  BY DEF ExposeInv, Globals
<1>1. h.p \in Procs \cup {None} /\ h.r \in RequestType /\ h.r.act \in {"publish", "unpublish"}
  BY <1>t, HandlerType DEF HandlerInv
<1>2. CASE h.p \in Procs
  <2>1. proc[h.p].pc \in Asking /\ RequestOf(h.p) = h.r
    BY <1>2, <1>t DEF HandlerInv
  <2>2. Works(h.p)
    BY <2>1, JobFacts DEF Works, Asking
  <2>3. RequestOf(h.p).e = proc[h.p].e
    BY <2>1, <2>2, <1>2, <1>t, RequestShape
  <2> QED
    BY <2>1, <2>2, <2>3, <1>1, <1>2 DEF Waits
<1> QED
  BY <1>1, <1>2

(* What is left to see when a publication ends: nginx and the command that *)
(* is answered.                                                            *)
LEMMA EndStep ==
  ASSUME ExposeInv, NEW X, h' = NoHandler,
         UNCHANGED <<node, port, conf, reg, gw, late, acked>>,
         faults' \in 0..MaxFaults, torn' \in BOOLEAN, nginx' \in NginxType,
         proc' \in [Procs -> Jobs \cup {Idle}],
         \A q \in Procs : proc'[q] # Idle => JobShape(proc'[q]),
         SideKept(X), \A x \in Ids : x \in X => ExposeOK(x)',
         LinkedInv', ServedInv', GwKeeps({})
  PROVE  ExposeInv'
<1>t. ExposeType /\ PortInv
  BY DEF ExposeInv, Globals
<1>1. ExposeType'
  BY <1>t DEF ExposeType
<1>2. HandlerInv'
  BY DEF HandlerInv, Handling
<1>3. PortInv'
  BY <1>t, QuietPorts
<1>4. GwKeeps(X)
  BY DEF GwKeeps
<1>5. ASSUME NEW e \in Ids PROVE ExposeOK(e)'
  <2>1. CASE e \in X
    BY <2>1
  <2>2. CASE e \notin X
    BY <2>2, <1>4, <1>t, GwFrame, Zenon DEF ExposeInv
  <2> QED
    BY <2>1, <2>2
<1> QED
  BY <1>1, <1>2, <1>3, <1>5 DEF ExposeInv, Globals, SideKept

(* The shared state when a publication ends.                               *)
LEMMA EndKeeps ==
  ASSUME ExposeType, h' = NoHandler, UNCHANGED <<node, port, conf, reg, gw, late, acked>>,
         nginx'.cur.routes \subseteq Routes, nginx'.run \subseteq Routes,
         \A e \in Ids : Firm(e) => e \in nginx'.cur.routes /\ e \in nginx'.run
  PROVE  GwKeeps({})
<1>1. ~Handling' /\ ~Undoable'
  BY DEF Handling, Undoable
<1>2. \A e \in Ids : Firm(e) => Firm(e)'
  BY <1>1 DEF Firm
<1>3. Ready(gw.ex)' = Ready(gw.ex)
  BY DEF Ready
<1>4. \A e \in Ids : e \in Routes' => e \in Routes
  BY <1>1, <1>3 DEF Routes
<1>5. gw.gen \in Nat
  BY GatewayType
<1> QED
  BY <1>1, <1>2, <1>4, <1>5 DEF GwKeeps

(* A publication that ends without success.                                *)
LEMMA EndFails ==
  ASSUME ExposeInv, Handling, h' = NoHandler, Reply(h.p, FALSE, 0),
         UNCHANGED <<node, port, conf, reg, gw, late, acked>>,
         faults' \in 0..MaxFaults, torn' \in BOOLEAN, nginx' \in NginxType, LinkedInv', ServedInv',
         nginx'.cur.routes \subseteq Routes, nginx'.run \subseteq Routes,
         \A e \in Ids : Firm(e) => e \in nginx'.cur.routes /\ e \in nginx'.run
  PROVE  ExposeInv'
<1>t. ExposeType /\ Alone
  BY DEF ExposeInv
<1>1. GwKeeps({})
  BY <1>t, EndKeeps
<1>2. PICK r \in RequestType, c \in Procs \cup {None} : r = h.r /\ c = h.p
  BY HandlerWaits
<1>3. (c = None \/ Waits(c, r)) /\ r.act \in {"publish", "unpublish"}
  BY <1>2, HandlerWaits
<1>4. Reply(c, FALSE, 0) /\ UNCHANGED <<node, conf, port>>
  BY <1>2, Zenon
<1>5. /\ SideKept({})
      /\ proc' \in [Procs -> Jobs \cup {Idle}]
      /\ \A q \in Procs : proc'[q] # Idle => JobShape(proc'[q])
  BY <1>3, <1>4, <1>t, ReplyFails, Zenon
<1> QED
  BY <1>1, <1>5, EndStep

(* What a publication at work could serve is among the routes.             *)
LEMMA StepHandles ==
  ASSUME ExposeType, h.step # "none"
  PROVE  /\ Handling /\ h \in Handlers
         /\ Undoable <=> h.step \in {"save", "rollback"}
         /\ Undoable => h.prev.routes \subseteq Routes
         /\ nginx.run \subseteq Routes /\ nginx.cur.routes \subseteq Routes
BY HandlerType DEF Undoable, Routes

(* The earlier generation is restored.                                     *)
LEMMA HandlerRollbackInv ==
  ASSUME ExposeInv, HandlerRollback PROVE ExposeInv'
<1>t. ExposeType /\ HandlerInv /\ ServedInv
  BY DEF ExposeInv, Globals
<1>a. /\ h.step = "rollback" /\ h' = NoHandler /\ Reply(h.p, FALSE, 0)
      /\ nginx' = [cur |-> h.prev, old |-> {}, run |-> Switched(nginx.cur, h.prev)]
      /\ UNCHANGED <<node, port, conf, reg, gw, late, acked, torn, faults>>
  BY DEF HandlerRollback, Ends, local
<1>1. Handling /\ Undoable /\ h.prev.routes \subseteq Routes /\ h.prev \in Generations /\ h.prev.routes \subseteq Ids
  BY <1>t, <1>a, StepHandles, HandlerType
<1>2. nginx'.cur = h.prev /\ nginx'.run = h.prev.routes /\ nginx'.old = {}
  BY <1>1, <1>t, <1>a DEF Switched, HandlerInv
<1>3. nginx' \in NginxType
  <2>1. nginx' = [cur |-> h.prev, old |-> {}, run |-> h.prev.routes]
    BY <1>2, <1>a
  <2> QED
    BY <2>1, <1>1 DEF NginxType
<1>4. LinkedInv'
  BY <1>2 DEF LinkedInv
<1>5. ServedInv'
  <2>1. Ready(gw.ex)' = Ready(gw.ex) /\ ~Handling' /\ ~Undoable'
    BY <1>a DEF Ready, Handling, Undoable
  <2> QED
    BY <2>1, <1>1, <1>2, <1>a, <1>t DEF ServedInv
<1>6. \A e \in Ids : Firm(e) => e \in nginx'.cur.routes /\ e \in nginx'.run
  BY <1>1, <1>2 DEF Firm
<1>7. faults' \in 0..MaxFaults /\ torn' \in BOOLEAN
  BY <1>a, <1>t DEF ExposeType
<1> QED
  BY <1>1, <1>2, <1>3, <1>4, <1>5, <1>6, <1>7, <1>a, EndFails

(* It is restored in part.                                                 *)
LEMMA HandlerRollbackFailsInv ==
  ASSUME ExposeInv, HandlerRollbackFails PROVE ExposeInv'
<1>t. ExposeType /\ HandlerInv
  BY DEF ExposeInv, Globals
<1>a. /\ h.step = "rollback" /\ h' = NoHandler /\ Reply(h.p, FALSE, 0) /\ torn' = TRUE
      /\ UNCHANGED <<node, port, conf, reg, gw, late, acked>>
      /\ faults' \in 0..MaxFaults
  BY <1>t, FailsType DEF HandlerRollbackFails, Ends, local
<1>1. /\ Handling /\ Undoable /\ h.prev.routes \subseteq Routes /\ h.prev \in Generations
      /\ h.prev.routes \subseteq Ids
      /\ nginx.run \subseteq Routes /\ nginx.cur.routes \subseteq Routes
  BY <1>t, <1>a, StepHandles, HandlerType
<1>2. PICK x \in {h.prev, nginx.cur}, run \in {nginx.run, h.prev.routes} :
        nginx' = [cur |-> x, run |-> run, old |-> {h.prev, nginx.cur} \ {x}]
  BY DEF HandlerRollbackFails
<1>3. nginx.cur \in Generations /\ nginx.run \subseteq Ids
  BY <1>t, GatewayType
<1>4. nginx' \in NginxType /\ nginx'.cur = x /\ nginx'.run = run /\ nginx'.old = {h.prev, nginx.cur} \ {x}
  BY <1>1, <1>2, <1>3 DEF NginxType
<1>5. LinkedInv'
  <2>1. run \in {nginx.cur.routes, h.prev.routes}
    BY <1>1, <1>t DEF HandlerInv
  <2> QED
    BY <2>1, <1>4 DEF LinkedInv
<1>6. ServedInv'
  BY <1>a DEF ServedInv
<1>7. \A e \in Ids : Firm(e) => e \in nginx'.cur.routes /\ e \in nginx'.run
  BY <1>1, <1>4 DEF Firm
<1>8. nginx'.cur.routes \subseteq Routes /\ nginx'.run \subseteq Routes
  BY <1>1, <1>4
<1> QED
  BY <1>1, <1>4, <1>5, <1>6, <1>7, <1>8, <1>a, EndFails

(* A publication that is cut off.                                          *)
LEMMA CutOff ==
  ASSUME ExposeInv, Handling, h' = NoHandler, Reply(h.p, FALSE, 0), faults' \in 0..MaxFaults,
         UNCHANGED <<node, port, conf, reg, gw, nginx, late, acked>>,
         torn' = (torn \/ h.step # "commit")
  PROVE  ExposeInv'
<1>t. ExposeType /\ ServedInv /\ LinkedInv
  BY DEF ExposeInv, Globals
<1>1. nginx.run \subseteq Routes /\ nginx.cur.routes \subseteq Routes
  BY DEF Routes
<1>2. nginx' \in NginxType /\ torn' \in BOOLEAN
  BY <1>t DEF ExposeType
<1>3. LinkedInv'
  BY <1>t DEF LinkedInv
<1>4. ServedInv'
  <2>1. Ready(gw.ex)' = Ready(gw.ex) /\ ~Handling' /\ ~Undoable'
    BY DEF Ready, Handling, Undoable
  <2>2. ~torn' => ~torn /\ ~Undoable
    BY DEF Undoable
  <2> QED
    BY <2>1, <2>2, <1>t DEF ServedInv
<1>5. \A e \in Ids : Firm(e) => e \in nginx'.cur.routes /\ e \in nginx'.run
  BY DEF Firm
<1> QED
  BY <1>1, <1>2, <1>3, <1>4, <1>5, EndFails

(* The cleanup after a save fails.                                         *)
LEMMA HandlerCommitFailsInv ==
  ASSUME ExposeInv, HandlerCommitFails PROVE ExposeInv'
<1>t. ExposeType
  BY DEF ExposeInv
<1>a. /\ h.step = "commit" /\ h' = NoHandler /\ Reply(h.p, FALSE, 0) /\ torn' = torn
      /\ UNCHANGED <<node, port, conf, reg, gw, nginx, late, acked>>
      /\ faults' \in 0..MaxFaults
  BY <1>t, FailsType DEF HandlerCommitFails, Ends, local
<1>1. Handling
  BY <1>t, <1>a, StepHandles
<1>2. torn' = (torn \/ h.step # "commit")
  BY <1>a, <1>t DEF ExposeType
<1> QED
  BY <1>1, <1>2, <1>a, CutOff

(* The controller is restarted in the middle.                              *)
LEMMA ControllerRestartsInv ==
  ASSUME ExposeInv, ControllerRestarts PROVE ExposeInv'
<1>t. ExposeType
  BY DEF ExposeInv
<1>a. /\ h' = NoHandler /\ Reply(h.p, FALSE, 0) /\ Handling
      /\ UNCHANGED <<node, port, conf, reg, gw, nginx, late, acked>>
      /\ faults' \in 0..MaxFaults
  BY <1>t, FailsType DEF ControllerRestarts, Ends, local, Handling
<1>2. torn' = (torn \/ h.step # "commit")
  BY DEF ControllerRestarts
<1> QED
  BY <1>2, <1>a, CutOff

(* The publication succeeds and its caller is told.                        *)
LEMMA HandlerCommitInv ==
  ASSUME ExposeInv, HandlerCommit PROVE ExposeInv'
<1>t. ExposeType /\ Alone /\ HandlerInv /\ ServedInv
  BY DEF ExposeInv, Globals
<1>a. /\ h.step = "commit" /\ h' = NoHandler /\ Reply(h.p, TRUE, h.r.gen + 1)
      /\ nginx' = [nginx EXCEPT !.old = {}]
      /\ UNCHANGED <<node, port, conf, reg, gw, late, acked, torn, faults>>
  BY DEF HandlerCommit, Ends, local
<1>1. /\ Handling /\ ~Undoable /\ nginx.run \subseteq Routes /\ nginx.cur.routes \subseteq Routes
      /\ ~Handling' /\ ~Undoable'
  BY <1>t, <1>a, StepHandles DEF Handling, Undoable
<1>2. nginx' \in NginxType /\ nginx'.cur = nginx.cur /\ nginx'.run = nginx.run
  BY <1>t, <1>a DEF ExposeType, NginxType
<1>3. LinkedInv'
  BY <1>1, <1>2, <1>t DEF LinkedInv, HandlerInv
<1>4. ServedInv'
  <2>1. Ready(gw.ex)' = Ready(gw.ex)
    BY <1>a DEF Ready
  <2> QED
    BY <2>1, <1>1, <1>2, <1>a, <1>t DEF ServedInv
<1>5. GwKeeps({})
  <2>1. \A e \in Ids : Firm(e) => e \in nginx'.cur.routes /\ e \in nginx'.run
    BY <1>2 DEF Firm
  <2> QED
    BY <2>1, <1>1, <1>2, <1>a, <1>t, EndKeeps
<1>6. faults' \in 0..MaxFaults /\ torn' \in BOOLEAN
  BY <1>a, <1>t DEF ExposeType
<1>7. PICK r \in RequestType, c \in Procs \cup {None} : r = h.r /\ c = h.p
  BY <1>1, HandlerWaits
<1>8. (c = None \/ Waits(c, r)) /\ r.act \in {"publish", "unpublish"}
  BY <1>1, <1>7, HandlerWaits
<1>9. CASE c = None
  <2>1. proc' = proc
    BY <1>7, <1>9, <1>a DEF Reply
  <2>2. SideKept({})
    BY <2>1, <1>a, <1>t, SideStill
  <2>3. /\ proc' \in [Procs -> Jobs \cup {Idle}]
        /\ \A q \in Procs : proc'[q] # Idle => JobShape(proc'[q])
    BY <2>1, <1>t DEF ExposeType
  <2> QED
    BY <2>2, <2>3, <1>2, <1>3, <1>4, <1>5, <1>6, <1>a, EndStep
<1>10. CASE c # None
  <2>1. c \in Procs /\ Works(c) /\ proc[c].pc \in Asking /\ RequestOf(c) = r /\ proc[c].e = r.e
    BY <1>8, <1>10 DEF Waits
  <2>2. Answered(c, TRUE, r.gen + 1) /\ r.gen + 1 \in Nat
    <3>1. Reply(c, TRUE, r.gen + 1)
      BY <1>7, <1>a, Zenon
    <3>2. Answered(c, TRUE, r.gen + 1)
      BY <3>1, <1>10 DEF Reply
    <3>3. r.gen + 1 \in Nat
      BY DEF RequestType
    <3> QED
      BY <3>2, <3>3, Zenon
  <2>3. PICK j \in Jobs \cup {Idle} : proc' = [proc EXCEPT ![c] = j] /\ AfterAnswer(c, TRUE, j)
    BY <2>1, <2>2, <1>t, AnsweredShape
  <2>4. PICK x \in Ids : x = r.e
    BY DEF RequestType
  <2>5. j = Idle \/ Proceeds(c, j)
    BY <2>3 DEF AfterAnswer
  <2>6. /\ SideKept({x}) /\ (j = Idle => SideKept({})) /\ proc'[c] = j
    BY <2>1, <2>3, <2>4, <2>5, <1>a, <1>t, SideMove
  <2>7. j = Idle \/ (j \in Jobs /\ JobShape(j))
    BY <2>1, <2>3, <1>t, AnswerJob
  <2>8. /\ proc' \in [Procs -> Jobs \cup {Idle}]
        /\ \A q \in Procs : proc'[q] # Idle => JobShape(proc'[q])
    BY <2>1, <2>3, <2>7, <1>t, MoveType
  <2>9. CASE j = Idle
    BY <2>6, <2>8, <2>9, <1>2, <1>3, <1>4, <1>5, <1>6, <1>a, EndStep
  <2>10. CASE j # Idle
    <3>1. /\ Proceeds(c, j)
          /\ r.act = "publish" => j.pc = "published" /\ proc[c].pc = "publishing"
          /\ r.act = "unpublish" => j.pc = "unpublished" /\ proc[c].pc = "planned" /\ proc[c].cmd = "remove"
      BY <2>1, <2>3, <2>10, <1>8, <1>t, RequestShape DEF AfterAnswer, AnswerStep
    <3>2. ExposeOK(x) /\ JobOK(c) /\ JobShape(proc[c])
      BY <2>1, <2>4, <1>t, WorkType DEF ExposeInv, ExposeOK
    <3>3. gw'.ex[x] = Goal(r) /\ (x \in nginx'.cur.routes <=> r.act = "publish") /\ nginx'.run = nginx'.cur.routes
      BY <2>4, <1>1, <1>2, <1>7, <1>a, <1>t DEF HandlerInv
    <3>4. r.act = "publish" => Firm(x)'
      BY <3>3, <1>1 DEF Firm, Goal
    <3>5. r.act = "unpublish" => Withdrawn(x)'
      BY <3>3, <1>1 DEF Withdrawn, Routes, Ready, Goal
    <3>6. JobOK(c)'
      <4>1. CASE r.act = "publish"
        <5>1. proc'[c].cmd # "remove" /\ proc'[c].e = x /\ proc'[c].pc = "published"
          BY <4>1, <3>1, <3>2, <2>1, <2>4, <2>6 DEF JobShape, Proceeds, Gone
        <5>2. Firm(proc[c].e)'
          BY <4>1, <3>4, <5>1 DEF Firm
        <5>3. CreateOK(c)'
          BY <5>1, <5>2 DEF CreateOK, Early
        <5> QED
          BY <5>1, <5>3, Zenon DEF JobOK
      <4>2. CASE r.act = "unpublish"
        <5>1. proc'[c].cmd = "remove" /\ proc'[c].e = x /\ proc'[c].pc = "unpublished" /\ proc'[c].base = proc[c].base
          BY <4>2, <3>1, <2>1, <2>4, <2>6 DEF Proceeds
        <5>2. Withdrawn(proc[c].e)'
          BY <4>2, <3>5, <5>1 DEF Withdrawn
        <5>3. node'[HostOf[c]].ex = proc'[c].base.ex
          BY <4>2, <5>1, <3>1, <3>2, <1>a DEF JobOK, RemoveOK
        <5>4. RemoveOK(c)'
          BY <5>1, <5>2, <5>3 DEF RemoveOK
        <5> QED
          BY <5>1, <5>4, Zenon DEF JobOK
      <4> QED
        BY <4>1, <4>2, <1>8
    <3>7. proc[c].pc # "unsaving" /\ (proc[c].pc \in Public => j.pc \in Public)
      BY <3>1, <1>8 DEF Public
    <3>8. ExposeOK(x)'
      BY <3>1, <3>2, <3>6, <3>7, <2>1, <2>3, <2>4, <1>5, <1>t, OwnMove
    <3>9. \A y \in Ids : y \in {x} => ExposeOK(y)'
      BY <3>8
    <3> QED
      BY <3>9, <2>6, <2>8, <1>2, <1>3, <1>4, <1>5, <1>6, <1>a, EndStep
  <2> QED
    BY <2>9, <2>10
<1> QED
  BY <1>9, <1>10

-----------------------------------------------------------------------------
(* The save of a publication *)

SavesAs(st) ==
  /\ h.step = "save" /\ h' = [h EXCEPT !.step = st]
  /\ UNCHANGED <<node, port, conf, reg, nginx, late, proc, acked>>
  /\ faults' \in 0..MaxFaults /\ torn' \in BOOLEAN
  /\ \/ gw' = gw /\ st = "rollback" /\ torn' = torn
     \/ /\ gw' = Put(h.r.e, Goal(h.r))
        /\ (st = "commit" /\ torn' = torn) \/ (st = "rollback" /\ torn')

(* The publication goes on to its commit or to its rollback.               *)
LEMMA SavesHandler ==
  ASSUME ExposeType, NEW st \in {"commit", "rollback"}, SavesAs(st)
  PROVE  /\ h' \in Handlers /\ h'.step = st /\ h'.r = h.r /\ h'.p = h.p /\ h'.prev = h.prev
         /\ Handling' /\ Handling /\ Undoable /\ (Undoable' <=> st = "rollback")
<1>1. Handling /\ h \in Handlers /\ Undoable
  BY StepHandles DEF SavesAs
<1>2. h' \in Handlers /\ h'.step = st /\ h'.r = h.r /\ h'.p = h.p /\ h'.prev = h.prev
  BY <1>1 DEF SavesAs, Handlers
<1>3. Handling'
  BY <1>2, JobFacts DEF Handling
<1> QED
  BY <1>1, <1>2, <1>3 DEF Undoable

(* The record it saves.                                                    *)
LEMMA SavesGw ==
  ASSUME ExposeType, Handling, h.r.act \in {"publish", "unpublish"}, gw' = Put(h.r.e, Goal(h.r))
  PROVE  /\ gw' \in GatewayStates /\ gw'.gen = gw.gen + 1
         /\ \A e \in Ids : e # h.r.e => gw'.ex[e] = gw.ex[e]
         /\ gw'.ex[h.r.e] = Goal(h.r) /\ gw'.ex = [gw.ex EXCEPT ![h.r.e] = Goal(h.r)]
<1>1. PICK s \in States : s = Goal(h.r)
  BY DEF Goal, States
<1>2. PICK x \in Ids : x = h.r.e
  BY HandlerType
<1>3. gw.gen \in Nat /\ gw.ex \in [Ids -> States]
  BY GatewayType
<1>4. gw' = [gen |-> gw.gen + 1, ex |-> [gw.ex EXCEPT ![x] = s]]
  BY <1>1, <1>2 DEF Put
<1>5. [gw.ex EXCEPT ![x] = s] \in [Ids -> States]
  BY <1>3
<1>6. gw' \in GatewayStates /\ gw'.gen = gw.gen + 1 /\ gw'.ex = [gw.ex EXCEPT ![x] = s]
  BY <1>3, <1>4, <1>5 DEF GatewayStates
<1>7. gw'.ex[x] = s /\ \A e \in Ids : e # x => gw'.ex[e] = gw.ex[e]
  BY <1>3, <1>6
<1> QED
  BY <1>1, <1>2, <1>6, <1>7

(* What is known of it stays so.                                           *)
LEMMA SavesHandlerInv ==
  ASSUME ExposeInv, NEW st \in {"commit", "rollback"}, SavesAs(st),
         st = "commit" => gw'.ex[h.r.e] = Goal(h.r)
  PROVE  HandlerInv'
<1>t. ExposeType /\ HandlerInv
  BY DEF ExposeInv, Globals
<1>1. /\ h'.step = st /\ h'.r = h.r /\ h'.p = h.p /\ Handling /\ Handling'
      /\ UNCHANGED <<node, port, conf, reg, nginx, late, proc, acked>>
  BY <1>t, SavesHandler DEF SavesAs
<1>2. h'.p \in Procs => proc'[h'.p].pc \in Asking /\ RequestOf(h.p)' = h'.r
  <2> SUFFICES ASSUME h'.p \in Procs PROVE proc'[h'.p].pc \in Asking /\ RequestOf(h.p)' = h'.r
    OBVIOUS
  <2>1. proc[h.p].pc \in Asking /\ RequestOf(h.p) = h.r
    BY <1>1, <1>t DEF HandlerInv
  <2>2. RequestOf(h.p)' = RequestOf(h.p)
    BY <1>1 DEF RequestOf
  <2> QED
    BY <2>1, <2>2, <1>1
<1>3. \A q \in Procs : Creates(q, h.r.e)' => h'.p = q
  <2>1. \A q \in Procs : Creates(q, h.r.e) => h.p = q
    BY <1>1, <1>t DEF HandlerInv
  <2> QED
    BY <2>1, <1>1 DEF Creates, Works
<1>4. /\ h'.r.act \in {"publish", "unpublish"} /\ port'[h'.r.e] # 0
      /\ nginx'.run = nginx'.cur.routes
      /\ h'.r.e \in nginx'.cur.routes <=> h'.r.act = "publish"
  BY <1>1, <1>t DEF HandlerInv
<1>5. h'.step # "save" /\ (h'.step = "commit" => gw'.ex[h'.r.e] = Goal(h.r)')
  BY <1>1 DEF Goal
<1> QED
  BY <1>2, <1>3, <1>4, <1>5 DEF HandlerInv

(* The save keeps everything about its expose.                             *)
LEMMA OwnSave ==
  ASSUME ExposeInv, NEW st \in {"commit", "rollback"}, SavesAs(st), NEW x \in Ids, x = h.r.e,
         gw' = Put(h.r.e, Goal(h.r)), x \in Routes' => x \in Routes
  PROVE  ExposeOK(x)'
<1>t. ExposeType /\ Alone /\ HandlerInv /\ ExposeOK(x)
  BY DEF ExposeInv, Globals
<1>a. UNCHANGED <<node, port, conf, reg, nginx, late, proc, acked>>
  BY DEF SavesAs
<1>1. h'.r = h.r /\ Handling /\ Handling'
  BY <1>t, SavesHandler
<1>2. /\ h.r.act \in {"publish", "unpublish"} /\ port[x] # 0
      /\ gw.ex[x] \in (IF h.r.act = "publish" THEN {"pending"} ELSE Live)
      /\ h.r.act = "publish" => x \in Routes
  BY <1>t, <1>1 DEF HandlerInv, SavesAs, Routes
<1>3. gw'.ex[x] = Goal(h.r)
  BY <1>t, <1>1, <1>2, SavesGw
<1>4. gw.ex[x] \in Live /\ gw'.ex[x] \in {"ready", "disabled"}
  BY <1>2, <1>3 DEF Live, Goal
<1>5. ~Fresh(x) /\ ~Retired(x) /\ ~Withdrawn(x)
  BY <1>4 DEF Fresh, Retired, Withdrawn, Live
<1>6. /\ Seen(x)' = Seen(x) /\ (Mapped(x) => Mapped(x)')
      /\ \A q \in Procs : Works(q)' <=> Works(q)
  BY <1>a DEF Seen, On, Works, Mapped
<1>7. LateStays(x)
  BY <1>a DEF LateStays
<1>8. JobsFrom(x)
  BY <1>6, <1>a DEF JobsFrom
<1>9. LateJobs(x)
  BY <1>7, <1>8, <1>t, FromLate
<1>10. ASSUME NEW q \in Procs, Creates(q, x)' PROVE h.r.act = "publish" /\ proc'[q].pc = "publishing"
  <2>1. Creates(q, h.r.e)
    BY <1>10, <1>6, <1>a DEF Creates
  <2>2. h.p = q
    BY <2>1, <1>1, <1>t DEF HandlerInv
  <2>3. Works(q) /\ proc[q].pc \in Asking /\ RequestOf(q) = h.r
    BY <2>1, <2>2, <1>1, <1>t DEF HandlerInv, Creates
  <2>4. proc[q].cmd # "remove"
    BY <2>1 DEF Creates
  <2> QED
    BY <2>3, <2>4, <1>2, <1>a, <1>t, RequestShape
<1>11. Firm(x) => Firm(x)' \/ \A q \in Procs : ~Creates(q, x)'
  <2>1. h.r.act = "publish" => ~Firm(x)
    BY <1>2 DEF Firm
  <2> QED
    BY <2>1, <1>10
<1>12. NotYet(x) => NotYet(x)'
  <2>1. NotYet(x) => h.r.act # "publish"
    BY <1>1 DEF NotYet
  <2> QED
    BY <2>1, <1>1, <1>a DEF NotYet
<1>13. Turn(x)
  <2>1. port'[x] # 0 /\ Seen(x)' \subseteq Seen(x) /\ node' = node /\ gw'.ex[x] # "pending"
    BY <1>2, <1>4, <1>6, <1>a
  <2> QED
    BY <2>1, <1>5, <1>7, <1>9, <1>11, <1>12 DEF Turn
<1>14. Routed(x)'
  BY <1>4, <1>6, <1>t DEF ExposeOK, Routed
<1>15. AckedOK(x)' /\ DisabledOK(x)'
  <2>1. x \notin acked
    BY <1>1, <1>t DEF ExposeOK, AckedOK
  <2>2. "disabled" \notin Seen(x)
    BY <1>5, <1>t DEF ExposeOK, DisabledOK
  <2> QED
    BY <2>1, <2>2, <1>6, <1>a DEF AckedOK, DisabledOK
<1>16. \A q \in Procs : Works(q)' /\ proc'[q].e = x => proc'[q] = proc[q] \/ JobOK(q)'
  BY <1>a
<1> QED
  BY <1>13, <1>14, <1>15, <1>16, <1>t, TurnExpose

(* And everything else.                                                    *)
LEMMA SavesInv ==
  ASSUME ExposeInv, NEW st \in {"commit", "rollback"}, SavesAs(st) PROVE ExposeInv'
<1>t. ExposeType /\ Alone /\ HandlerInv /\ ServedInv /\ LinkedInv /\ PortInv
  BY DEF ExposeInv, Globals
<1>a. /\ UNCHANGED <<node, port, conf, reg, nginx, late, proc, acked>>
      /\ faults' \in 0..MaxFaults /\ torn' \in BOOLEAN
  BY DEF SavesAs
<1>1. /\ h' \in Handlers /\ h'.step = st /\ h'.r = h.r /\ h'.prev = h.prev
      /\ Handling' /\ Handling /\ Undoable /\ (Undoable' <=> st = "rollback")
  BY <1>t, SavesHandler
<1>2. PICK x \in Ids : x = h.r.e
  BY <1>1, <1>t, HandlerType
<1>3. SideKept({}) /\ SideKept({x})
  BY <1>a, <1>t, SideStill DEF SideKept
<1>4. LinkedInv'
  BY <1>a, <1>t DEF LinkedInv
<1>5. CASE gw' = gw /\ st = "rollback" /\ torn' = torn
  <2>1. gw'.gen \in Nat /\ gw.gen <= gw'.gen /\ gw' \in GatewayStates
    BY <1>5, <1>t, GatewayType DEF ExposeType
  <2>2. Ready(gw.ex)' = Ready(gw.ex)
    BY <1>5 DEF Ready
  <2>3. Routes' = Routes
    BY <2>2, <1>1, <1>5, <1>a DEF Routes
  <2>4. \A e \in Ids : Firm(e) => Firm(e)'
    BY <1>1, <1>5, <1>a DEF Firm
  <2>5. GwKeeps({})
    BY <2>1, <2>3, <2>4, <1>1, <1>5, <1>a DEF GwKeeps
  <2>6. \A e \in Ids : ExposeOK(e)'
    BY <2>5, <1>3, <1>t, GwFrame DEF ExposeInv
  <2>7. ExposeType'
    BY <2>1, <1>1, <1>a, <1>t DEF ExposeType
  <2>8. ServedInv'
    BY <2>2, <1>1, <1>5, <1>t DEF ServedInv
  <2>9. PortInv'
    BY <1>5, <1>a, <1>t, QuietPorts
  <2>10. HandlerInv'
    BY <1>5, SavesHandlerInv
  <2> QED
    BY <2>6, <2>7, <2>8, <2>9, <2>10, <1>3, <1>4 DEF ExposeInv, Globals, SideKept
<1>6. CASE /\ gw' = Put(h.r.e, Goal(h.r))
           /\ (st = "commit" /\ torn' = torn) \/ (st = "rollback" /\ torn')
  <2>1. h.r.act \in {"publish", "unpublish"} /\ (x \in nginx.cur.routes <=> h.r.act = "publish")
        /\ nginx.run = nginx.cur.routes
        /\ gw.ex[x] \in (IF h.r.act = "publish" THEN {"pending"} ELSE Live)
    BY <1>1, <1>2, <1>t DEF HandlerInv, SavesAs
  <2>2. /\ gw' \in GatewayStates /\ gw'.gen = gw.gen + 1
        /\ \A e \in Ids : e # x => gw'.ex[e] = gw.ex[e]
        /\ gw'.ex[x] = Goal(h.r) /\ gw'.ex = [gw.ex EXCEPT ![h.r.e] = Goal(h.r)]
    BY <2>1, <1>1, <1>2, <1>6, <1>t, SavesGw
  <2>3. \A e \in Ids : e \in Routes' => e \in Routes
    <3>1. ASSUME NEW e \in Ids, e \in Routes', e # x PROVE e \in Routes
      BY <3>1, <2>2, <1>1, <1>a DEF Routes, Ready
    <3>2. x \in Routes' => x \in Routes
      BY <2>1, <2>2, <1>1, <1>a DEF Routes, Ready, Goal
    <3> QED
      BY <3>1, <3>2
  <2>4. \A e \in Ids : e # x => (Firm(e) => Firm(e)')
    BY <2>2, <1>1, <1>a DEF Firm
  <2>5. GwKeeps({x})
    <3>1. gw.gen \in Nat
      BY <1>t, GatewayType
    <3>2. gw'.gen \in Nat /\ gw.gen <= gw'.gen /\ gw'.gen # gw.gen
      BY <3>1, <2>2
    <3> QED
      BY <3>2, <2>2, <2>3, <2>4, <1>1, <1>2, <1>a DEF GwKeeps
  <2>6. ExposeOK(x)'
    BY <2>3, <1>2, <1>6, OwnSave
  <2>7. ASSUME NEW e \in Ids PROVE ExposeOK(e)'
    <3>1. CASE e = x
      BY <3>1, <2>6
    <3>2. CASE e # x
      <4>1. e \in Ids \ {x} /\ ExposeOK(e)
        BY <3>2 DEF ExposeInv
      <4> QED
        BY <4>1, <2>5, <1>3, <1>t, GwFrame
    <3> QED
      BY <3>1, <3>2
  <2>8. ExposeType'
    BY <2>2, <1>1, <1>a, <1>t DEF ExposeType
  <2>9. ServedInv'
    <3>1. CASE torn'
      BY <3>1 DEF ServedInv
    <3>2. CASE ~torn'
      <4>1. st = "commit" /\ ~torn
        BY <3>2, <1>6
      <4>2. nginx.cur.routes = Ready([gw.ex EXCEPT ![h.r.e] = Goal(h.r)])
        BY <4>1, <1>1, <1>t DEF ServedInv, SavesAs
      <4>3. nginx'.cur.routes = Ready(gw.ex)' /\ nginx'.run = Ready(gw.ex)'
        BY <4>2, <2>1, <2>2, <1>a DEF Ready
      <4> QED
        BY <4>1, <4>3, <1>1 DEF ServedInv
    <3> QED
      BY <3>1, <3>2
  <2>10. PortInv'
    <3>1. Present(gw.ex)' \subseteq Present(gw.ex) /\ Enabled(gw.ex)' \subseteq Enabled(gw.ex)
      BY <2>1, <2>2 DEF Present, Enabled, Goal, Live
    <3> QED
      BY <3>1, <1>a, <1>t DEF PortInv, Valid
  <2>11. HandlerInv'
    BY <2>2, <1>2, SavesHandlerInv
  <2> QED
    BY <2>7, <2>8, <2>9, <2>10, <2>11, <1>3, <1>4 DEF ExposeInv, Globals, SideKept
<1> QED
  BY <1>5, <1>6 DEF SavesAs

(* A save that succeeds or finds another generation.                       *)
LEMMA HandlerSaveInv ==
  ASSUME ExposeInv, HandlerSave PROVE ExposeInv'
<1>1. faults' \in 0..MaxFaults /\ torn' \in BOOLEAN /\ torn' = torn
  BY DEF HandlerSave, ExposeInv, ExposeType
<1>2. CASE gw.gen = h.r.gen
  BY <1>1, <1>2, SavesInv DEF HandlerSave, SavesAs, local
<1>3. CASE gw.gen # h.r.gen
  BY <1>1, <1>3, SavesInv DEF HandlerSave, SavesAs, local
<1> QED
  BY <1>2, <1>3

(* A save that reports an error, with or without effect.                   *)
LEMMA HandlerSaveFailsInv ==
  ASSUME ExposeInv, HandlerSaveFails PROVE ExposeInv'
<1>t. ExposeType /\ torn \in BOOLEAN
  BY DEF ExposeInv, ExposeType
<1>1. faults' \in 0..MaxFaults
  BY <1>t, FailsType DEF HandlerSaveFails
<1>2. torn' = (torn \/ gw' # gw)
  BY DEF HandlerSaveFails
<1>3. torn' \in BOOLEAN
  BY <1>2
<1>4. CASE gw' = gw
  <2>1. torn' = torn
    BY <1>2, <1>4, <1>t
  <2>2. SavesAs("rollback")
    BY <2>1, <1>1, <1>3, <1>4 DEF HandlerSaveFails, SavesAs, local
  <2> QED
    BY <2>2, SavesInv
<1>5. CASE gw' # gw
  <2>1. gw' = Put(h.r.e, Goal(h.r)) /\ torn'
    BY <1>2, <1>5 DEF HandlerSaveFails
  <2>2. SavesAs("rollback")
    BY <2>1, <1>1, <1>3, <1>5 DEF HandlerSaveFails, SavesAs, local
  <2> QED
    BY <2>2, SavesInv
<1> QED
  BY <1>4, <1>5

-----------------------------------------------------------------------------
(* Planning *)

(* A command that starts on a node where none is at work.                  *)
Starts(p, j, x) ==
  /\ j \in Jobs /\ JobShape(j) /\ j.pc = "planned" /\ j.e = x
  /\ j.base = node[HostOf[p]] /\ j.gen = gw.gen
  /\ proc' = [proc EXCEPT ![p] = j]
  /\ \A q \in Procs : HostOf[q] = HostOf[p] => ~Works(q)
  /\ Owner[x] = HostOf[p]

(* The command that a plan starts.                                         *)
LEMMA StartShape ==
  ASSUME ExposeType, Serial, NEW p \in Procs, NEW x \in Ids, NEW cmd \in {"create", "defer", "remove"},
         MayStart(p), Start(p, cmd, x), Owner[x] = HostOf[p]
  PROVE  \E j \in Jobs : Starts(p, j, x) /\ j.cmd = cmd
<1> DEFINE j == [Idle EXCEPT !.pc = "planned", !.cmd = cmd, !.e = x,
                             !.base = node[HostOf[p]], !.gen = gw.gen]
<1>1. Idle \in [pc : {"idle"}, cmd : {"none"}, e : {None}, base : {None}, gen : {0}, saved : BOOLEAN]
  BY DEF Idle
<1>2. HostOf[p] \in Nodes /\ node[HostOf[p]] \in NodeStates /\ gw.gen \in Nat
  BY WorkType, GatewayType
<1>3. j \in Jobs
  BY <1>1, <1>2 DEF Jobs, Early
<1>4. j.pc = "planned" /\ j.cmd = cmd /\ j.e = x /\ j.base = node[HostOf[p]] /\ j.gen = gw.gen
  BY <1>1
<1>5. proc' = [proc EXCEPT ![p] = j]
  BY DEF Start
<1> HIDE DEF j
<1>6. JobShape(j)
  BY <1>4 DEF JobShape, Early, Gone
<1>7. \A q \in Procs : HostOf[q] = HostOf[p] => ~Works(q)
  BY DEF MayStart, Works
<1> QED
  BY <1>3, <1>4, <1>5, <1>6, <1>7 DEF Starts

(* It sees the node as it is and is alone there.                           *)
LEMMA StartSide ==
  ASSUME ExposeType, Alone, NEW p \in Procs, NEW x \in Ids, NEW j, Starts(p, j, x),
         UNCHANGED <<node, conf>>, port'[x] # 0, \A e \in Ids : e # x => port'[e] = port[e]
  PROVE  /\ SideKept({x}) /\ (Mapped(x) => Mapped(x)')
         /\ proc'[p] = j /\ Works(p)'
         /\ \A q \in Procs : Works(q)' /\ proc'[q].e = x => q = p
<1>1. proc'[p] = j /\ \A q \in Procs : q # p => proc'[q] = proc[q]
  BY DEF ExposeType, Starts
<1>2. Works(p)' /\ \A q \in Procs : q # p => (Works(q)' <=> Works(q))
  BY <1>1, JobFacts DEF Works, Starts
<1>3. \A q \in Procs : HostOf[q] = HostOf[p] => (Works(q)' <=> q = p)
  BY <1>2 DEF Starts
<1>4. ASSUME NEW q \in Procs, Works(q)', q # p PROVE proc[q].e # x /\ Owner[proc[q].e] = HostOf[q] /\ port[proc[q].e] # 0 /\ proc[q].e \in Ids
  BY <1>2, <1>3, <1>4, WorkType DEF Alone, Starts
<1>5. Alone'
  <2>1. \A q1, q2 \in Procs : Works(q1)' /\ Works(q2)' /\ HostOf[q1] = HostOf[q2] => q1 = q2
    BY <1>2, <1>3 DEF Alone
  <2>2. ASSUME NEW q \in Procs, Works(q)' PROVE Owner[proc'[q].e] = HostOf[q] /\ port'[proc'[q].e] # 0
    <3>1. CASE q = p
      BY <3>1, <1>1 DEF Starts
    <3>2. CASE q # p
      BY <3>2, <2>2, <1>1, <1>4
    <3> QED
      BY <3>1, <3>2
  <2> QED
    BY <2>1, <2>2 DEF Alone
<1>6. \A e \in Ids : \A q \in On(e)' : \/ q = p /\ Owner[e] = HostOf[p]
                                       \/ q \in On(e) /\ proc'[q] = proc[q]
  BY <1>1, <1>2 DEF On
<1>7. \A e \in Ids : Seen(e)' \subseteq Seen(e)
  <2> TAKE e \in Ids
  <2>1. \A q \in On(e)' : proc'[q].base.ex[e] \in Seen(e)
    <3> TAKE q \in On(e)'
    <3>1. CASE q = p /\ Owner[e] = HostOf[p]
      BY <3>1, <1>1, SeenHas DEF Starts
    <3>2. CASE q \in On(e) /\ proc'[q] = proc[q]
      BY <3>2, SeenHas
    <3> QED
      BY <3>1, <3>2, <1>6
  <2>2. node'[Owner[e]].ex[e] \in Seen(e)
    BY SeenHas
  <2> QED
    BY <2>1, <2>2 DEF Seen
<1>8. \A e \in Ids : Mapped(e) => Mapped(e)'
  <2> SUFFICES ASSUME NEW e \in Ids, Mapped(e) PROVE Mapped(e)'
    OBVIOUS
  <2>1. node'[Owner[e]].ex[e] \in Live /\ e \in conf'[Owner[e]].map
    BY DEF Mapped
  <2>2. ASSUME NEW q \in On(e)'
        PROVE  proc'[q].base.ex[e] \in Live \/ (proc'[q].e = e /\ proc'[q].pc \in Public)
    <3>1. CASE q = p /\ Owner[e] = HostOf[p]
      BY <3>1, <2>1, <1>1 DEF Starts
    <3>2. CASE q \in On(e) /\ proc'[q] = proc[q]
      BY <3>2 DEF Mapped
    <3> QED
      BY <3>1, <3>2, <1>6
  <2> QED
    BY <2>1, <2>2 DEF Mapped
<1>9. \A e \in Ids \ {x} : \A q \in Procs : Works(q)' /\ proc'[q].e = e => proc'[q] = proc[q]
  BY <1>1 DEF Starts
<1>10. \A q \in Procs : Works(q)' /\ proc'[q].e = x => q = p
  BY <1>1, <1>4
<1> QED
  BY <1>1, <1>2, <1>5, <1>7, <1>8, <1>9, <1>10 DEF SideKept

(* A removal is planned.                                                   *)
LEMMA PlanRemoveInv ==
  ASSUME ExposeInv, Serial, NEW p \in Procs, NEW x \in Ids, PlanRemove(p, x) PROVE ExposeInv'
<1>t. ExposeType /\ Alone /\ ExposeOK(x)
  BY DEF ExposeInv
<1>a. /\ MayStart(p) /\ h = NoHandler /\ Owner[x] = HostOf[p] /\ Start(p, "remove", x)
      /\ gw.ex[x] # "absent" /\ node[HostOf[p]].ex[x] = gw.ex[x]
      /\ UNCHANGED <<node, conf, port, reg, gw, nginx, h, late, acked, torn, faults>>
  BY DEF PlanRemove, local, gateway
<1>1. PICK j \in Jobs : Starts(p, j, x) /\ j.cmd = "remove"
  BY <1>t, <1>a, StartShape
<1>2. port[x] # 0
  BY <1>a, <1>t DEF ExposeOK, Unplanned, Fresh
<1>3. /\ SideKept({x}) /\ (Mapped(x) => Mapped(x)')
      /\ proc'[p] = j /\ Works(p)'
      /\ \A q \in Procs : Works(q)' /\ proc'[q].e = x => q = p
  BY <1>1, <1>2, <1>a, <1>t, StartSide
<1>4. Quiet /\ acked' \subseteq acked /\ gw.gen <= gw'.gen
  BY <1>a, <1>t, GatewayType DEF Quiet
<1>5. GwKeeps({})
  BY <1>4, <1>a, <1>t, QuietKeeps
<1>6. Stays(x) /\ LateStays(x) /\ ConfStays(x)
  <2>1. x \in Ids \ {} /\ Seen(x)' \subseteq Seen(x)
    BY <1>3 DEF SideKept
  <2> QED
    BY <2>1, <1>3, <1>5, <1>t, GwStays, Zenon
<1>7. LateJobs(x)
  <2>1. \A r \in late' : r.e = x => r.act \notin {"reserve", "defer"}
    BY <1>a, <1>t DEF ExposeOK, LateOK, Reserving, Fresh
  <2>2. \A q \in Procs : ~Creates(q, x)'
    BY <1>1, <1>3 DEF Creates
  <2> QED
    BY <2>1, <2>2 DEF LateJobs
<1>8. JobOK(p)'
  <2>1. /\ proc'[p].pc = "planned" /\ proc'[p].cmd = "remove" /\ proc'[p].e = x
        /\ proc'[p].base = node[HostOf[p]]
    BY <1>1, <1>3 DEF Starts
  <2>2. RemoveOK(p)'
    BY <2>1, <1>a DEF RemoveOK, Gone
  <2> QED
    BY <2>1, <2>2, Zenon DEF JobOK
<1>9. ExposeOK(x)'
  <2>1. \A q \in Procs : Works(q)' /\ proc'[q].e = x => JobOK(q)'
    BY <1>3, <1>8
  <2> QED
    BY <2>1, <1>6, <1>7, <1>t, StayExpose
<1>10. ExposeType'
  <2>1. /\ proc' \in [Procs -> Jobs \cup {Idle}]
        /\ \A q \in Procs : proc'[q] # Idle => JobShape(proc'[q])
    BY <1>1, <1>t, MoveType DEF Starts
  <2> QED
    BY <2>1, <1>a, <1>t DEF ExposeType
<1>11. HandlerInv'
  BY <1>a DEF HandlerInv, Handling
<1>12. \A r \in late' : r \in late \/ r.e \in {x}
  BY <1>a
<1>13. \A y \in Ids : y \in {x} => ExposeOK(y)'
  BY <1>9
<1> QED
  BY <1>3, <1>4, <1>10, <1>11, <1>12, <1>13, <1>a, QuietStep

(* A creation is planned: the allocator gives it a port that nobody uses.  *)
LEMMA PlanCreateInv ==
  ASSUME ExposeInv, Serial, NEW p \in Procs, NEW cmd \in {"create", "defer"}, NEW x \in Ids,
         PlanCreate(p, cmd, x)
  PROVE  ExposeInv'
<1>t. ExposeType /\ Alone /\ ExposeOK(x) /\ ServedInv /\ LinkedInv /\ PortInv
  BY DEF ExposeInv, Globals
<1>a. /\ MayStart(p) /\ h = NoHandler /\ Owner[x] = HostOf[p] /\ Start(p, cmd, x)
      /\ port[x] = 0 /\ FreePorts # {} /\ port' = [port EXCEPT ![x] = Allocate]
      /\ UNCHANGED <<node, conf, reg, gw, nginx, h, late, acked, torn, faults>>
  BY DEF PlanCreate, gateway
<1>1. PICK j \in Jobs : Starts(p, j, x) /\ j.cmd = cmd
  BY <1>t, <1>a, StartShape
<1>2. PICK a \in Ports : a = Allocate /\ a \in FreePorts /\ a # 0
  <2>1. FreePorts \in SUBSET Nat /\ FreePorts \subseteq Ports
    BY ExposeAssumptions DEF FreePorts
  <2>2. Allocate \in FreePorts
    BY <2>1, <1>a, MinIn DEF Allocate
  <2> QED
    BY <2>1, <2>2, ExposeAssumptions
<1>3. /\ port' \in [Ids -> Ports \cup {0}] /\ port'[x] = a
      /\ \A e \in Ids : e # x => port'[e] = port[e]
  BY <1>2, <1>a, <1>t DEF ExposeType
<1>4. /\ SideKept({x}) /\ proc'[p] = j /\ Works(p)'
      /\ \A q \in Procs : Works(q)' /\ proc'[q].e = x => q = p
  BY <1>1, <1>2, <1>3, <1>a, <1>t, StartSide
<1>5. Fresh(x) /\ \A r \in late : r.e # x
  BY <1>a, <1>t DEF ExposeOK, Unplanned
<1>6. x \notin reg /\ x \notin Present(gw.ex) /\ reg \subseteq Ids
  BY <1>5, <1>t DEF Fresh, Present, ExposeType
<1>7. Quiet
  BY <1>a DEF Quiet
<1>8. /\ Routes' = Routes /\ (\A e \in Ids : Firm(e) => Firm(e)')
      /\ ServedInv' /\ LinkedInv' /\ ~Handling'
  BY <1>7, <1>t, <1>a, QuietRoutes DEF Handling
<1>9. \A e \in Ids : e # x /\ FreshPort(e) => FreshPort(e)'
  BY <1>3, <1>6, <1>a DEF FreshPort, Present
<1>10. FreshPort(x)'
  <2>1. \A y \in reg \cup Present(gw.ex) : port[y] # a
    BY <1>2 DEF FreePorts, Foreign
  <2> QED
    BY <2>1, <1>3, <1>6, <1>a DEF FreshPort, Present
<1>11. ASSUME NEW e \in Ids, e # x PROVE ExposeOK(e)'
  <2>1. gw.gen \in Nat
    BY <1>t, GatewayType
  <2>2. Seen(e)' \subseteq Seen(e) /\ (Mapped(e) => Mapped(e)')
    BY <1>4, <1>11 DEF SideKept
  <2>3. Stays(e)
    BY <2>1, <2>2, <1>3, <1>8, <1>9, <1>11, <1>a DEF Stays
  <2>4. LateStays(e) /\ ConfStays(e)
    BY <1>a DEF LateStays, ConfStays
  <2>5. JobsStay(e)
    BY <1>4, <1>11, <1>a DEF SideKept, JobsStay
  <2> QED
    BY <2>3, <2>4, <2>5, <1>t, KeepExpose DEF Keeps, ExposeInv
<1>12. ExposeOK(x)'
  <2>1. Fresh(x)'
    <3>1. Seen(x)' \subseteq {"absent"} /\ \E y : y \in Seen(x)'
      BY <1>4, <1>5, SeenHasNext DEF SideKept, Fresh
    <3>2. Seen(x)' = {"absent"}
      BY <3>1
    <3> QED
      BY <3>2, <1>5, <1>8, <1>a DEF Fresh
  <2>2. NotYet(x)' /\ Reserving(x, gw.gen)'
    <3>1. gw'.gen <= gw'.gen
      BY <1>a, <1>t, GatewayType
    <3>2. NotYet(x)'
      BY <2>1, <1>5, <1>8, <1>a DEF NotYet, Fresh
    <3> QED
      BY <3>1, <3>2, <2>1, <1>10 DEF Reserving
  <2>3. ASSUME NEW q \in Procs, Works(q)', proc'[q].e = x PROVE JobOK(q)'
    <3>1. proc'[q].pc = "planned" /\ proc'[q].cmd # "remove" /\ proc'[q].gen = gw'.gen
      BY <2>3, <1>1, <1>4, <1>a DEF Starts
    <3>2. NotYet(proc[q].e)' /\ Reserving(proc[q].e, proc[q].gen)'
      BY <2>2, <2>3, <3>1 DEF NotYet, Reserving
    <3>3. CreateOK(q)'
      BY <3>1, <3>2 DEF CreateOK
    <3> QED
      BY <3>1, <3>3, Zenon DEF JobOK
  <2>4. Routed(x)' /\ Unplanned(x)' /\ DisabledOK(x)'
    BY <2>1, <1>2, <1>3 DEF Routed, Unplanned, DisabledOK, Fresh
  <2>5. AckedOK(x)'
    BY <1>5, <1>a, <1>t DEF AckedOK, ExposeOK, Firm, Fresh
  <2> QED
    BY <2>3, <2>4, <2>5, <1>5, <1>a DEF ExposeOK
<1>13. ExposeType'
  <2>1. /\ proc' \in [Procs -> Jobs \cup {Idle}]
        /\ \A q \in Procs : proc'[q] # Idle => JobShape(proc'[q])
    BY <1>1, <1>t, MoveType DEF Starts
  <2> QED
    BY <2>1, <1>3, <1>a, <1>t DEF ExposeType
<1>14. HandlerInv'
  BY <1>8 DEF HandlerInv
<1>15. PortInv'
  <2>1. \A e \in Present(gw.ex)' \cup reg' : e \in Ids /\ port'[e] = port[e]
    BY <1>3, <1>6, <1>a DEF Present
  <2>2. Present(gw.ex)' = Present(gw.ex) /\ Enabled(gw.ex)' = Enabled(gw.ex) /\ reg' = reg
    BY <1>a DEF Present, Enabled
  <2> QED
    BY <2>1, <2>2, <1>t DEF PortInv, Valid
<1> QED
  BY <1>4, <1>8, <1>11, <1>12, <1>13, <1>14, <1>15 DEF ExposeInv, Globals, SideKept

-----------------------------------------------------------------------------
(* Steps of a command on its own node *)

(* A command that goes on, or ends, with a change of its node's record and *)
(* tunnel that follows the state it has planned from for all other exposes.*)
NodeTouch(p, x, j) ==
  /\ Works(p) /\ proc[p].e = x /\ proc[p].pc \notin Asking
  /\ proc' = [proc EXCEPT ![p] = j]
  /\ j = Idle \/ (j.e = x /\ j.cmd = proc[p].cmd)
  /\ UNCHANGED <<gw, port, nginx, h, late, torn>>
  /\ reg' \subseteq reg /\ acked' \subseteq acked \cup {x}
  /\ \A n \in Nodes \ {HostOf[p]} : node'[n] = node[n] /\ conf'[n] = conf[n]
  /\ \A e \in Ids \ {x} : LET n == HostOf[p]  known == {node[n].ex[e], proc[p].base.ex[e]} IN
       /\ node'[n].ex[e] \in known /\ (j # Idle => j.base.ex[e] \in known)
       /\ e \in conf'[n].map => e \in conf[n].map \/ proc[p].base.ex[e] \in Live
       /\ e \in conf[n].map /\ proc[p].base.ex[e] \in Live => e \in conf'[n].map

(* What such a step does to the commands.                                  *)
LEMMA TouchProcs ==
  ASSUME ExposeType, Alone, NEW p \in Procs, NEW x \in Ids, NEW j, NodeTouch(p, x, j)
  PROVE  /\ Alone' /\ Quiet /\ proc'[p] = j
         /\ \A q \in Procs : q # p => proc'[q] = proc[q]
         /\ \A q \in Procs : Works(q)' => /\ Works(q) /\ proc'[q].e = proc[q].e
                                          /\ proc'[q].cmd = proc[q].cmd
         /\ \A q \in Procs : Works(q)' /\ proc'[q].e = x => q = p
         /\ \A e \in Ids : On(e)' \subseteq On(e)
         /\ \A e \in Ids : Owner[e] = HostOf[p] => \A q \in On(e) : q = p
<1>1. proc'[p] = j /\ \A q \in Procs : q # p => proc'[q] = proc[q]
  BY DEF NodeTouch, ExposeType
<1>2. \A q \in Procs : Works(q)' => /\ Works(q) /\ proc'[q].e = proc[q].e
                                    /\ proc'[q].cmd = proc[q].cmd
  BY <1>1 DEF NodeTouch, Works
<1>3. port' = port /\ Works(p) /\ proc[p].e = x
  BY DEF NodeTouch
<1>4. Alone'
  BY <1>2, <1>3 DEF Alone
<1>5. \A q \in Procs : Works(q)' /\ proc'[q].e = x => q = p
  BY <1>2, <1>3, AloneOn
<1>6. \A e \in Ids : On(e)' \subseteq On(e)
  BY <1>2 DEF On
<1>7. \A e \in Ids : Owner[e] = HostOf[p] => \A q \in On(e) : q = p
  BY <1>3 DEF On, Alone
<1>8. Quiet
  BY DEF NodeTouch, Quiet
<1> QED
  BY <1>1, <1>2, <1>4, <1>5, <1>6, <1>7, <1>8

(* It keeps what holds of the exposes it is not for.                       *)
LEMMA TouchOthers ==
  ASSUME ExposeInv, NEW p \in Procs, NEW x \in Ids, NEW j, NodeTouch(p, x, j),
         NEW e \in Ids, e # x
  PROVE  ExposeOK(e)'
<1>t. ExposeType /\ Alone /\ ExposeOK(e)
  BY DEF ExposeInv
<1>p. /\ Quiet /\ proc'[p] = j
      /\ \A q \in Procs : q # p => proc'[q] = proc[q]
      /\ \A q \in Procs : Works(q)' => /\ Works(q) /\ proc'[q].e = proc[q].e
                                       /\ proc'[q].cmd = proc[q].cmd
      /\ On(e)' \subseteq On(e)
      /\ Owner[e] = HostOf[p] => \A q \in On(e) : q = p
      /\ Works(p) /\ proc[p].e = x
  <2>1. Works(p) /\ proc[p].e = x
    BY DEF NodeTouch
  <2> QED
    BY <2>1, <1>t, TouchProcs
<1>n. Owner[e] \in Nodes /\ HostOf[p] \in Nodes /\ \A q \in Procs : HostOf[q] \in Nodes
  BY ExposeAssumptions
<1>o. Owner[e] # HostOf[p] => node'[Owner[e]] = node[Owner[e]] /\ conf'[Owner[e]] = conf[Owner[e]]
  BY <1>n DEF NodeTouch
<1>h. /\ node'[HostOf[p]].ex[e] \in {node[HostOf[p]].ex[e], proc[p].base.ex[e]}
      /\ j # Idle => j.base.ex[e] \in {node[HostOf[p]].ex[e], proc[p].base.ex[e]}
      /\ e \in conf'[HostOf[p]].map => e \in conf[HostOf[p]].map \/ proc[p].base.ex[e] \in Live
      /\ e \in conf[HostOf[p]].map /\ proc[p].base.ex[e] \in Live => e \in conf'[HostOf[p]].map
  BY DEF NodeTouch
<1>q. Owner[e] = HostOf[p] => p \in On(e)
  BY <1>p DEF On
<1>j. \A q \in On(e)' : q = p => j # Idle
  BY <1>p DEF On, Works
<1>x. \A q \in On(e) : q # p => Owner[e] # HostOf[p] /\ proc'[q] = proc[q]
  BY <1>p DEF On
<1>r. \A q \in On(e) : q = p => Owner[e] = HostOf[p]
  BY DEF On
<1>1. Seen(e)' \subseteq Seen(e)
  <2>1. node'[Owner[e]].ex[e] \in Seen(e)
    <3>1. CASE Owner[e] = HostOf[p]
      BY <3>1, <1>h, <1>q, SeenHas
    <3>2. CASE Owner[e] # HostOf[p]
      BY <3>2, <1>o, SeenHas
    <3> QED
      BY <3>1, <3>2
  <2>2. ASSUME NEW q \in On(e)' PROVE proc'[q].base.ex[e] \in Seen(e)
    <3>1. q \in On(e)
      BY <1>p
    <3>2. CASE q = p
      BY <3>1, <3>2, <1>h, <1>p, <1>r, <1>j, SeenHas
    <3>3. CASE q # p
      BY <3>1, <3>3, <1>x, SeenHas
    <3> QED
      BY <3>2, <3>3
  <2> QED
    BY <2>1, <2>2 DEF Seen
<1>2. ASSUME Mapped(e) PROVE Mapped(e)'
  <2>1. /\ node[Owner[e]].ex[e] \in Live /\ e \in conf[Owner[e]].map
        /\ \A q \in On(e) : proc[q].base.ex[e] \in Live \/ (proc[q].e = e /\ proc[q].pc \in Public)
    BY <1>2 DEF Mapped
  <2>2. Owner[e] = HostOf[p] => proc[p].base.ex[e] \in Live
    BY <2>1, <1>q, <1>p
  <2>3. node'[Owner[e]].ex[e] \in Live /\ e \in conf'[Owner[e]].map
    BY <2>1, <2>2, <1>o, <1>h
  <2>4. ASSUME NEW q \in On(e)'
        PROVE  proc'[q].base.ex[e] \in Live \/ (proc'[q].e = e /\ proc'[q].pc \in Public)
    <3>1. q \in On(e)
      BY <1>p
    <3>2. CASE q = p
      BY <3>1, <3>2, <2>1, <2>2, <1>h, <1>p, <1>r, <1>j
    <3>3. CASE q # p
      BY <3>1, <3>3, <2>1, <1>x
    <3> QED
      BY <3>2, <3>3
  <2> QED
    BY <2>3, <2>4 DEF Mapped
<1>3. ConfStays(e)
  <2>1. p \in On(e) /\ proc[p].base.ex[e] \in Live => Seen(e) \cap Live # {}
    BY SeenHas
  <2> QED
    BY <2>1, <1>o, <1>h, <1>q DEF ConfStays
<1>4. JobsStay(e)
  <2> SUFFICES ASSUME NEW q \in Procs, Works(q)', proc'[q].e = e
               PROVE  proc'[q] = proc[q] /\ node'[HostOf[q]].ex = node[HostOf[q]].ex
    BY DEF JobsStay
  <2>1. Works(q) /\ proc[q].e = e /\ q # p
    BY <1>p
  <2>2. HostOf[q] # HostOf[p]
    BY <2>1, <1>p, <1>t DEF Alone
  <2> QED
    BY <2>1, <2>2, <1>p, <1>n DEF NodeTouch
<1>5. Stays(e)
  <2>1. Routes' = Routes /\ (Firm(e) => Firm(e)')
    BY <1>t, <1>p, QuietRoutes
  <2>2. gw.gen \in Nat /\ gw' = gw /\ gw.gen <= gw'.gen /\ port' = port
    BY <1>t, GatewayType DEF NodeTouch
  <2>3. FreshPort(e) => FreshPort(e)'
    BY DEF FreshPort, Present, NodeTouch
  <2>4. Handling' /\ h'.r.e = e => Handling /\ h.r = h'.r
    BY DEF Handling, NodeTouch
  <2>5. (e \in reg' => e \in reg) /\ (e \in acked' => e \in acked)
    BY DEF NodeTouch
  <2> QED
    BY <2>1, <2>2, <2>3, <2>4, <2>5, <1>1, <1>2 DEF Stays
<1>6. LateStays(e)
  BY DEF LateStays, NodeTouch
<1> QED
  BY <1>3, <1>4, <1>5, <1>6, <1>t, KeepExpose DEF Keeps

(* What is left to see of it: its own expose.                              *)
LEMMA TouchInv ==
  ASSUME ExposeInv, NEW p \in Procs, NEW x \in Ids, NEW j, NodeTouch(p, x, j),
         ExposeType', ExposeOK(x)'
  PROVE  ExposeInv'
<1>t. ExposeType /\ Alone /\ HandlerInv /\ ServedInv /\ LinkedInv /\ PortInv
  BY DEF ExposeInv, Globals
<1>p. /\ Alone' /\ Quiet
      /\ \A q \in Procs : q # p => proc'[q] = proc[q]
      /\ \A q \in Procs : Works(q)' => /\ Works(q) /\ proc'[q].e = proc[q].e
                                       /\ proc'[q].cmd = proc[q].cmd
  BY <1>t, TouchProcs
<1>1. ServedInv' /\ LinkedInv'
  BY <1>t, <1>p, QuietRoutes
<1>2. PortInv'
  BY <1>t, QuietPorts DEF NodeTouch
<1>3. HandlerInv'
  <2>1. ASSUME Handling
        PROVE  /\ port'[h.r.e] # 0
               /\ h'.p \in Procs => proc'[h'.p] = proc[h'.p]
               /\ \A q \in Procs : Creates(q, h.r.e)' => h'.p = q
    <3>1. h' = h /\ port' = port /\ proc[p].pc \notin Asking
      BY DEF NodeTouch
    <3>2. h.p # p /\ port[h.r.e] # 0
      BY <3>1, <2>1, <1>t DEF HandlerInv
    <3>3. ASSUME NEW q \in Procs, Creates(q, h.r.e)' PROVE h'.p = q
      <4>1. Creates(q, h.r.e)
        BY <3>1, <3>3, <1>p DEF Creates
      <4> QED
        BY <4>1, <3>1, <2>1, <1>t DEF HandlerInv
    <3> QED
      BY <3>1, <3>2, <3>3, <1>p
  <2> QED
    BY <2>1, <1>t, <1>p, QuietHandlerInv, Zenon
<1>4. \A e \in Ids : ExposeOK(e)'
  BY TouchOthers
<1> QED
  BY <1>1, <1>2, <1>3, <1>4, <1>p DEF ExposeInv, Globals

(* A step of a creation before its publication.                            *)
LEMMA OwnCreator ==
  ASSUME ExposeInv, NEW p \in Procs, NEW x \in Ids, NEW j, NodeTouch(p, x, j),
         proc[p].cmd # "remove", proc[p].pc \in Early \ {"unsaving"}, acked' = acked,
         Seen(x)' \subseteq Seen(x) \cup {"pending"},
         j # Idle => /\ j.pc \in Early \ {"planned"}
                     /\ j.pc = "saved" => node'[HostOf[p]].ex[x] = "pending"
  PROVE  ExposeOK(x)'
<1>t. ExposeType /\ Alone /\ ExposeOK(x)
  BY DEF ExposeInv
<1>p. /\ Quiet /\ proc'[p] = j /\ \A q \in Procs : Works(q)' /\ proc'[q].e = x => q = p
  BY <1>t, TouchProcs
<1>a. Works(p) /\ proc[p].e = x /\ UNCHANGED <<gw, port, nginx, h, late, torn>>
      /\ (j = Idle \/ j.cmd = proc[p].cmd)
  BY DEF NodeTouch
<1>1. Creates(p, x) /\ proc[p].pc # "unsaving" /\ JobOK(p)
  BY <1>a, <1>t DEF Creates, ExposeOK
<1>2. NotYet(x)
  BY <1>1, <1>a DEF JobOK, CreateOK
<1>3. Routes' = Routes /\ x \notin Routes /\ x \notin Routes'
  BY <1>2, <1>t, <1>p, QuietRoutes DEF NotYet
<1>4. \A r \in late' : r.e # x
  BY <1>1, <1>t, <1>a, CreatorLate
<1>5. x \notin acked'
  BY <1>3, <1>t DEF ExposeOK, AckedOK, Firm, Routes
<1>6. port'[x] # 0
  BY <1>a, <1>t DEF Alone
<1>7. Handling' /\ h'.r.e = x => h'.r.act # "publish"
  BY <1>2, <1>a DEF NotYet, Handling
<1>8. "disabled" \in Seen(x)' => Withdrawn(x)'
  <2>1. "disabled" \in Seen(x)' => "disabled" \in Seen(x)
    OBVIOUS
  <2>2. Withdrawn(x) => Withdrawn(x)'
    BY <1>3, <1>a DEF Withdrawn
  <2> QED
    BY <2>1, <2>2, <1>t DEF ExposeOK, DisabledOK
<1>9. ASSUME NEW q \in Procs, Works(q)', proc'[q].e = x
      PROVE  /\ proc'[q].cmd # "remove" /\ proc'[q].pc \in Early \ {"planned"}
             /\ proc'[q].pc = "saved" => node'[HostOf[q]].ex[x] = "pending"
  <2>1. q = p /\ proc'[q] = j /\ j # Idle
    BY <1>9, <1>p DEF Works
  <2> QED
    BY <2>1, <1>a
<1>10. EarlyStep(x)
  BY <1>3, <1>4, <1>5, <1>6, <1>7, <1>8, <1>9 DEF EarlyStep
<1> QED
  BY <1>10, OwnEarly

(* A step of a removal whose route is gone.                                *)
LEMMA OwnRemover ==
  ASSUME ExposeInv, NEW p \in Procs, NEW x \in Ids, NEW j, NodeTouch(p, x, j),
         proc[p].cmd = "remove", proc[p].pc \in Gone, acked' = acked,
         Seen(x)' \subseteq Seen(x) \cup {"disabled", "absent"},
         x \in conf'[Owner[x]].map => x \in conf[Owner[x]].map,
         j # Idle => \/ j.pc = "draining" /\ Seen(x)' = {"disabled"}
                     \/ j.pc = "finalizing" /\ Retired(x)'
  PROVE  ExposeOK(x)'
<1>t. ExposeType /\ Alone /\ ExposeOK(x)
  BY DEF ExposeInv
<1>p. /\ Quiet /\ proc'[p] = j /\ \A q \in Procs : Works(q)' /\ proc'[q].e = x => q = p
  BY <1>t, TouchProcs
<1>a. Works(p) /\ proc[p].e = x /\ UNCHANGED <<gw, port, nginx, h, late, torn>>
      /\ (j = Idle \/ (j.cmd = proc[p].cmd /\ j.e = x))
  BY DEF NodeTouch
<1>1. Withdrawn(x)
  BY <1>a, <1>t DEF ExposeOK, JobOK, RemoveOK
<1>2. Routes' = Routes /\ x \notin Routes'
  BY <1>1, <1>t, <1>p, QuietRoutes DEF Withdrawn
<1>3. Withdrawn(x)' /\ port'[x] # 0
  BY <1>1, <1>2, <1>a, <1>t DEF Withdrawn, Alone
<1>4. x \notin acked'
  BY <1>1, <1>t DEF ExposeOK, AckedOK, Firm, Withdrawn, Routes
<1>5. Routed(x)' /\ AckedOK(x)' /\ DisabledOK(x)' /\ Unplanned(x)'
  BY <1>2, <1>3, <1>4, Zenon DEF Routed, AckedOK, DisabledOK, Unplanned
<1>6. ASSUME NEW r \in late', r.e = x PROVE LateOK(r)'
  <2>1. r \in late /\ LateOK(r)
    BY <1>6, <1>a, <1>t DEF ExposeOK
  <2>2. r.act \notin {"reserve", "defer"}
    BY <2>1, <1>6, <1>a DEF LateOK
  <2>3. \A q \in Procs : ~Creates(q, x)'
    BY <1>p, <1>a DEF Creates, Works
  <2>4. NotYet(x) => NotYet(x)'
    BY <1>2, <1>a DEF NotYet, Handling
  <2>5. Retired(x) => Retired(x)'
    <3>1. Retired(x) => Seen(x)' \cap Live = {} /\ x \notin conf'[Owner[x]].map
      BY DEF Retired, Live
    <3> QED
      BY <3>1, <1>3 DEF Retired
  <2>6. gw'.ex[x] # "pending"
    BY <1>3 DEF Withdrawn
  <2>7. /\ r.act = "abort" => NotYet(r.e)'
        /\ r.act = "finalize" => Retired(r.e)'
        /\ r.act = "unpublish" => r.was # "absent"
    BY <2>1, <2>4, <2>5, <1>6, Zenon DEF LateOK
  <2> QED
    BY <2>2, <2>3, <2>6, <2>7, <1>3, <1>6, Zenon DEF LateOK
<1>7. ASSUME NEW q \in Procs, Works(q)', proc'[q].e = x PROVE JobOK(q)'
  <2>1. q = p /\ proc'[q] = j /\ j # Idle
    BY <1>7, <1>p DEF Works
  <2>2. /\ proc'[q].cmd = "remove" /\ proc'[q].pc \in {"draining", "finalizing"}
        /\ proc'[q].pc = "draining" => Seen(x)' = {"disabled"}
        /\ proc'[q].pc = "finalizing" => Retired(x)'
    BY <2>1, <1>a
  <2>3. RemoveOK(q)'
    BY <2>2, <1>3, <1>7 DEF RemoveOK
  <2> QED
    BY <2>2, <2>3, Zenon DEF JobOK
<1> QED
  BY <1>5, <1>6, <1>7, Zenon DEF ExposeOK

(* The last save of a creation, or the one that undoes its record.         *)
LEMMA OwnLast ==
  ASSUME ExposeInv, NEW p \in Procs, NEW x \in Ids, NodeTouch(p, x, Idle),
         proc[p].cmd # "remove", proc[p].pc \in {"published", "unsaving"},
         conf' = conf, x \in acked' => x \in acked \/ node'[HostOf[p]].ex[x] = "ready",
         proc[p].pc = "unsaving" => acked' = acked,
         node'[HostOf[p]].ex[x] \in
           {node[HostOf[p]].ex[x], IF proc[p].pc = "published" THEN "ready" ELSE "absent"}
  PROVE  ExposeOK(x)'
<1>t. ExposeType /\ Alone /\ ExposeOK(x) /\ HandlerInv
  BY DEF ExposeInv, Globals
<1>a. Works(p) /\ proc[p].e = x /\ UNCHANGED <<gw, port, nginx, h, late, torn>>
      /\ proc[p].pc \notin Asking
  BY DEF NodeTouch
<1>b. Owner[x] = HostOf[p] /\ port'[x] # 0
  BY <1>a, <1>t DEF Alone
<1>p. /\ Quiet /\ proc'[p] = Idle /\ \A q \in Procs : Works(q)' /\ proc'[q].e = x => q = p
      /\ On(x)' \subseteq On(x) /\ \A q \in On(x) : q = p
  BY <1>t, <1>b, TouchProcs
<1>1. On(x)' = {} /\ \A q \in Procs : Works(q)' => proc'[q].e # x
  BY <1>p DEF On, Works
<1>2. Seen(x)' = {node'[HostOf[p]].ex[x]}
  BY <1>1, <1>b DEF Seen
<1>3. node[HostOf[p]].ex[x] \in Seen(x)
  BY <1>b, SeenHas
<1>4. Routes' = Routes /\ (Firm(x) => Firm(x)')
  BY <1>t, <1>p, QuietRoutes
<1>5. Creates(p, x) /\ CreateOK(p)
  BY <1>a, <1>t DEF Creates, ExposeOK, JobOK
<1>6. DisabledOK(x)' /\ Unplanned(x)'
  <2>1. "disabled" \in Seen(x)' => "disabled" \in Seen(x)
    BY <1>2, <1>3
  <2>2. Withdrawn(x) => Withdrawn(x)'
    BY <1>4, <1>a DEF Withdrawn
  <2> QED
    BY <2>1, <2>2, <1>b, <1>t DEF ExposeOK, DisabledOK, Unplanned
<1>7. CASE proc[p].pc = "published"
  <2>1. Firm(x) /\ x \in Routes /\ gw.ex[x] = "ready"
    BY <1>5, <1>7, <1>a DEF CreateOK, Firm, Routes
  <2>2. \A r \in late' : r.e # x
    BY <1>5, <1>7, <1>t, <1>a, CreatorLate
  <2>3. Mapped(x)'
    <3>1. Mapped(x)
      BY <2>1, <1>t DEF ExposeOK, Routed
    <3>2. node'[Owner[x]].ex[x] \in Live /\ x \in conf'[Owner[x]].map
      BY <3>1, <1>7, <1>b DEF Mapped, Live
    <3> QED
      BY <3>2, <1>1 DEF Mapped
  <2>4. Handling' => h'.r.e # x
    <3>1. Handling /\ h.r.e = x => h.p = p
      BY <1>5, <1>t DEF HandlerInv
    <3>2. Handling => h.p # p
      BY <1>a, <1>t DEF HandlerInv
    <3> QED
      BY <3>1, <3>2, <1>a DEF Handling
  <2>5. AckedOK(x)'
    <3>1. x \in acked => Seen(x) = {"ready"}
      BY <1>t DEF ExposeOK, AckedOK
    <3>2. x \in acked' => Seen(x)' = {"ready"}
      BY <3>1, <1>2, <1>3, <1>7
    <3> QED
      BY <3>2, <2>1, <2>4, <1>4, Zenon DEF AckedOK
  <2>6. Routed(x)'
    BY <2>1, <2>3, <1>a DEF Routed
  <2> QED
    BY <2>2, <2>5, <2>6, <1>1, <1>6, Zenon DEF ExposeOK
<1>8. CASE proc[p].pc = "unsaving"
  <2>1. NotYet(x) /\ x \notin Routes
    BY <1>5, <1>8, <1>a DEF CreateOK, Early, NotYet
  <2>2. NotYet(x)'
    BY <2>1, <1>4, <1>a DEF NotYet, Handling
  <2>3. x \notin acked'
    BY <2>1, <1>8, <1>t DEF ExposeOK, AckedOK, Firm, Routes
  <2>4. ASSUME NEW r \in late', r.e = x PROVE LateOK(r)'
    <3>1. LateOK(r)
      BY <2>4, <1>a, <1>t DEF ExposeOK
    <3>2. r.act = "abort"
      BY <3>1, <2>4, <1>5 DEF LateOK
    <3>3. NotYet(r.e)' /\ \A q \in Procs : ~Creates(q, r.e)'
      BY <2>2, <2>4, <1>1 DEF Creates
    <3> QED
      BY <3>2, <3>3, <2>4, <1>b DEF LateOK
  <2>5. Routed(x)' /\ AckedOK(x)'
    BY <2>1, <2>3, <1>4 DEF Routed, AckedOK
  <2> QED
    BY <2>4, <2>5, <1>1, <1>6, Zenon DEF ExposeOK
<1> QED
  BY <1>7, <1>8

-----------------------------------------------------------------------------
(* The tunnel *)

(* A command that goes to another step.                                    *)
LEMMA MovedTo ==
  ASSUME ExposeType, NEW p \in Procs, Works(p), NEW c \in Early \cup Public \cup Gone, To(p, c)
  PROVE  \E j \in Jobs : /\ proc' = [proc EXCEPT ![p] = j] /\ Proceeds(p, j) /\ j.pc = c
                         /\ j.saved = proc[p].saved
<1>1. proc[p] \in Jobs
  BY WorkType
<1> DEFINE j == [proc[p] EXCEPT !.pc = c]
<1>2. /\ j \in Jobs /\ j.pc = c /\ j.e = proc[p].e /\ j.cmd = proc[p].cmd
      /\ j.base = proc[p].base /\ j.saved = proc[p].saved
  BY <1>1 DEF Jobs
<1>3. proc' = [proc EXCEPT ![p] = j]
  BY DEF To, ExposeType
<1> HIDE DEF j
<1> QED
  BY <1>2, <1>3 DEF Proceeds

(* Which commands change the tunnel, and what they make of it.             *)
LEMMA MappingShape ==
  ASSUME ExposeType, NEW p \in Procs, proc[p].pc \in Mapping, NEW x \in Ids, x = proc[p].e
  PROVE  /\ Works(p) /\ proc[p].pc \notin Asking
         /\ proc[p].cmd = "remove" <=> proc[p].pc = "draining"
         /\ proc[p].cmd # "remove" => proc[p].cmd = "create" /\ proc[p].pc \in Early \ {"unsaving"}
         /\ \A e \in Ids \ {x} : e \in Wanted(p) <=> proc[p].base.ex[e] \in Live
         /\ proc[p].pc # "reserved" => (x \in Wanted(p) <=> proc[p].base.ex[x] \in Live)
         /\ Wanted(p) \subseteq Ids
<1>1. Works(p) /\ proc[p].pc \notin Asking
  BY JobFacts DEF Works, Mapping, Asking
<1>2. proc[p] \in Jobs /\ JobShape(proc[p]) /\ proc[p].base.ex \in [Ids -> States]
  BY <1>1, WorkType
<1>3. proc[p].cmd \in {"create", "defer", "remove"}
  BY <1>2 DEF Jobs
<1>4. /\ proc[p].cmd = "remove" <=> proc[p].pc = "draining"
      /\ proc[p].cmd # "remove" => proc[p].cmd = "create" /\ proc[p].pc \in Early \ {"unsaving"}
  BY <1>2, <1>3 DEF JobShape, Mapping, Early, Public, Gone
<1>5. CASE proc[p].pc = "reserved"
  <2>1. Wanted(p) = Enabled(Pending(p))
    BY <1>5 DEF Wanted, Topology
  <2>2. \A e \in Ids \ {x} : Pending(p)[e] = proc[p].base.ex[e]
    BY <1>2 DEF Pending
  <2> QED
    BY <1>1, <1>4, <1>5, <2>1, <2>2 DEF Enabled, Live
<1>6. CASE proc[p].pc # "reserved"
  <2>1. Wanted(p) = Enabled(proc[p].base.ex)
    BY <1>6 DEF Wanted, Topology, Mapping
  <2> QED
    BY <1>1, <1>4, <1>6, <2>1 DEF Enabled, Live
<1> QED
  BY <1>5, <1>6

(* A command that keeps what it has planned from sees no other record.     *)
LEMMA SideSeen ==
  ASSUME ExposeType, NEW p \in Procs, Works(p), NEW x \in Ids, NEW j, j = Idle \/ Proceeds(p, j),
         proc' = [proc EXCEPT ![p] = j], node' = node
  PROVE  Seen(x)' \subseteq Seen(x)
<1>1. proc'[p] = j /\ \A q \in Procs : q # p => proc'[q] = proc[q]
  BY DEF ExposeType
<1>2. \A q \in On(x)' : q \in On(x) /\ proc'[q].base = proc[q].base
  BY <1>1 DEF On, Works, Proceeds
<1>3. \A q \in On(x)' : q \in On(x) /\ proc'[q].base.ex[x] = proc[q].base.ex[x]
  BY <1>2
<1> QED
  BY <1>3 DEF Seen

(* The tunnel is made anew, left as it is, or something in between; and    *)
(* the command goes on accordingly.                                        *)
TunnelStep(p, j) ==
  /\ proc[p].pc \in Mapping /\ proc' = [proc EXCEPT ![p] = j]
  /\ UNCHANGED <<node, port, gw, nginx, h, late, acked, torn>>
  /\ faults' \in 0..MaxFaults /\ reg' \subseteq reg
  /\ conf' \in [Nodes -> [map : SUBSET Ids, left : BOOLEAN]]
  /\ \A n \in Nodes \ {HostOf[p]} : conf'[n] = conf[n]
  /\ conf'[HostOf[p]].map \in {conf[HostOf[p]].map, Wanted(p)}
  /\ \/ j = Idle
     \/ /\ Proceeds(p, j)
        /\ \/ j.pc = "mapped" /\ proc[p].pc = "reserved"
           \/ j.pc = "aborting" /\ proc[p].pc # "draining"
           \/ /\ j.pc = "finalizing" /\ proc[p].pc = "draining"
              /\ conf'[HostOf[p]].map = Wanted(p)

(* Neither the mappings of other exposes nor the order of withdrawal and   *)
(* unmapping suffer.                                                       *)
LEMMA TunnelStepInv ==
  ASSUME ExposeInv, NEW p \in Procs, NEW j, TunnelStep(p, j) PROVE ExposeInv'
<1>t. ExposeType /\ Alone
  BY DEF ExposeInv
<1>a. /\ proc[p].pc \in Mapping /\ proc' = [proc EXCEPT ![p] = j]
      /\ UNCHANGED <<node, port, gw, nginx, h, late, acked, torn>>
      /\ conf'[HostOf[p]].map \in {conf[HostOf[p]].map, Wanted(p)}
      /\ j = Idle \/ Proceeds(p, j)
  BY DEF TunnelStep
<1>0. Works(p)
  BY <1>a, JobFacts DEF Works, Mapping
<1>x. PICK x \in Ids : x = proc[p].e
  BY <1>0, <1>t, WorkType
<1>1. /\ proc[p].pc \notin Asking
      /\ proc[p].cmd = "remove" <=> proc[p].pc = "draining"
      /\ proc[p].cmd # "remove" => proc[p].cmd = "create" /\ proc[p].pc \in Early \ {"unsaving"}
      /\ \A e \in Ids \ {x} : e \in Wanted(p) <=> proc[p].base.ex[e] \in Live
      /\ proc[p].pc # "reserved" => (x \in Wanted(p) <=> proc[p].base.ex[x] \in Live)
  BY <1>t, <1>a, <1>x, MappingShape
<1>h. Owner[x] = HostOf[p] /\ HostOf[p] \in Nodes /\ ExposeOK(x)
  BY <1>t, <1>0, <1>x, WorkType DEF Alone, ExposeInv
<1>2. NodeTouch(p, x, j)
  <2>1. /\ j = Idle \/ (j.e = x /\ j.cmd = proc[p].cmd)
        /\ j # Idle => j.base = proc[p].base
    BY <1>a, <1>x DEF Proceeds
  <2>2. \A n \in Nodes \ {HostOf[p]} : node'[n] = node[n] /\ conf'[n] = conf[n]
    BY DEF TunnelStep
  <2>3. ASSUME NEW e \in Ids \ {x}
        PROVE  /\ node'[HostOf[p]].ex[e] \in {node[HostOf[p]].ex[e], proc[p].base.ex[e]}
               /\ j # Idle => j.base.ex[e] \in {node[HostOf[p]].ex[e], proc[p].base.ex[e]}
               /\ e \in conf'[HostOf[p]].map => e \in conf[HostOf[p]].map \/ proc[p].base.ex[e] \in Live
               /\ e \in conf[HostOf[p]].map /\ proc[p].base.ex[e] \in Live => e \in conf'[HostOf[p]].map
    BY <2>1, <1>1, <1>a
  <2>4. reg' \subseteq reg /\ acked' \subseteq acked \cup {x}
    BY DEF TunnelStep
  <2> QED
    BY <2>1, <2>2, <2>3, <2>4, <1>0, <1>1, <1>a, <1>x DEF NodeTouch
<1>3. Seen(x)' \subseteq Seen(x)
  BY <1>t, <1>0, <1>a, <1>x, SideSeen
<1>4. ExposeType'
  <2>1. j = Idle \/ (j \in Jobs /\ JobShape(j))
    <3>1. ASSUME j # Idle PROVE j \in Jobs /\ JobShape(j)
      <4>1. j \in Jobs /\ j.cmd = proc[p].cmd /\ proc[p].cmd \in {"create", "remove"}
        BY <3>1, <1>1, <1>a DEF Proceeds
      <4>2. IF proc[p].cmd = "remove" THEN j.pc = "finalizing" ELSE j.pc \in {"mapped", "aborting"}
        BY <3>1, <1>1 DEF TunnelStep
      <4> QED
        BY <4>1, <4>2 DEF JobShape, Early, Gone
    <3> QED
      BY <3>1
  <2>2. /\ proc' \in [Procs -> Jobs \cup {Idle}]
        /\ \A q \in Procs : proc'[q] # Idle => JobShape(proc'[q])
    BY <2>1, <1>a, <1>t, MoveType
  <2>3. /\ faults' \in 0..MaxFaults /\ reg' \subseteq Ids
        /\ conf' \in [Nodes -> [map : SUBSET Ids, left : BOOLEAN]]
    BY <1>t DEF TunnelStep, ExposeType
  <2> QED
    BY <2>2, <2>3, <1>a, <1>t DEF ExposeType
<1>5. CASE proc[p].cmd # "remove"
  <2>1. j # Idle => /\ j.pc \in Early \ {"planned"}
                    /\ j.pc = "saved" => node'[HostOf[p]].ex[x] = "pending"
    BY <1>1, <1>5 DEF TunnelStep, Early
  <2>2. ExposeOK(x)'
    <3>1. acked' = acked /\ Seen(x)' \subseteq Seen(x) \cup {"pending"}
      BY <1>3, <1>a
    <3> QED
      BY <3>1, <2>1, <1>1, <1>2, <1>5, OwnCreator
  <2> QED
    BY <2>2, <1>2, <1>4, TouchInv
<1>6. CASE proc[p].cmd = "remove"
  <2>1. Withdrawn(x) /\ Seen(x) = {"disabled"} /\ proc[p].pc \in Gone
    BY <1>0, <1>1, <1>6, <1>h, <1>x DEF ExposeOK, JobOK, RemoveOK, Gone
  <2>2. x \notin Wanted(p)
    <3>1. proc[p].base.ex[x] \in Seen(x)
      BY <1>0, <1>h, SeenHas DEF On
    <3> QED
      BY <3>1, <2>1, <1>1, <1>6 DEF Live
  <2>3. x \in conf'[Owner[x]].map => x \in conf[Owner[x]].map
    BY <2>2, <1>a, <1>h
  <2>4. Withdrawn(x)'
    <3>1. Quiet
      BY <1>a DEF Quiet
    <3>2. Routes' = Routes
      BY <3>1, <1>t, QuietRoutes
    <3> QED
      BY <3>2, <2>1, <1>a DEF Withdrawn
  <2>5. j # Idle => j.pc = "finalizing" /\ Retired(x)'
    <3>1. j # Idle => j.pc = "finalizing" /\ conf'[HostOf[p]].map = Wanted(p)
      BY <1>1, <1>6 DEF TunnelStep
    <3>2. Seen(x)' \cap Live = {}
      BY <1>3, <2>1 DEF Live
    <3> QED
      BY <3>1, <3>2, <2>2, <2>4, <1>h DEF Retired
  <2>6. acked' = acked /\ Seen(x)' \subseteq Seen(x) \cup {"disabled", "absent"}
    BY <1>3, <1>a
  <2>7. ExposeOK(x)'
    BY <2>1, <2>3, <2>5, <2>6, <1>2, <1>6, OwnRemover
  <2> QED
    BY <2>7, <1>2, <1>4, TouchInv
<1> QED
  BY <1>5, <1>6

(* What a change of the tunnel leaves, whether it succeeds or not.         *)
LEMMA Installed ==
  ASSUME ExposeType, NEW n \in Nodes, NEW ids \in SUBSET Ids,
         Install(n, ids) \/ InstallTorn(n, ids) \/ UNCHANGED <<conf, reg>>
  PROVE  /\ reg' \subseteq reg
         /\ conf' \in [Nodes -> [map : SUBSET Ids, left : BOOLEAN]]
         /\ \A m \in Nodes \ {n} : conf'[m] = conf[m]
         /\ conf'[n].map \in {conf[n].map, ids}
         /\ Install(n, ids) => conf'[n].map = ids
<1>t. conf \in [Nodes -> [map : SUBSET Ids, left : BOOLEAN]]
  BY DEF ExposeType
<1>1. CASE Install(n, ids)
  BY <1>1, <1>t DEF Install
<1>2. CASE UNCHANGED <<conf, reg>>
  BY <1>2, <1>t DEF Install
<1>3. CASE InstallTorn(n, ids) /\ ~UNCHANGED <<conf, reg>>
  <2>1. PICK m \in {conf[n].map, ids} :
          /\ conf' = [conf EXCEPT ![n] = [map |-> m, left |-> TRUE]]
          /\ reg' = {x \in reg : Owner[x] = n => x \in m}
    BY <1>3 DEF InstallTorn
  <2>2. m \in SUBSET Ids
    BY <1>t
  <2>3. conf'[n] = [map |-> m, left |-> TRUE] /\ \A k \in Nodes \ {n} : conf'[k] = conf[k]
    BY <2>1, <1>t
  <2>4. conf' \in [Nodes -> [map : SUBSET Ids, left : BOOLEAN]]
    BY <2>1, <2>2, <1>t
  <2>5. ~Install(n, ids) \/ conf'[n].map = ids
    BY <1>t DEF Install
  <2> QED
    BY <2>1, <2>3, <2>4, <2>5
<1> QED
  BY <1>1, <1>2, <1>3

(* The tunnel is changed, or refuses because of a snapshot left behind.    *)
LEMMA ApplyTunnelInv ==
  ASSUME ExposeInv, NEW p \in Procs, ApplyTunnel(p) PROVE ExposeInv'
<1>t. ExposeType
  BY DEF ExposeInv
<1>a. /\ proc[p].pc \in Mapping
      /\ IF Refused(p) THEN UNCHANGED <<conf, reg>> ELSE Install(HostOf[p], Wanted(p))
      /\ AfterTunnel(p, ~Refused(p))
      /\ UNCHANGED <<node, port, gw, nginx, h, late, acked, torn, faults>>
  BY DEF ApplyTunnel, gateway
<1>0. Works(p) /\ HostOf[p] \in Nodes
  BY <1>a, <1>t, WorkType, JobFacts DEF Works, Mapping
<1>1. Wanted(p) \subseteq Ids
  <2>1. PICK x \in Ids : x = proc[p].e
    BY <1>0, <1>t, WorkType
  <2> QED
    BY <2>1, <1>a, <1>t, MappingShape
<1>2. /\ reg' \subseteq reg
      /\ conf' \in [Nodes -> [map : SUBSET Ids, left : BOOLEAN]]
      /\ \A m \in Nodes \ {HostOf[p]} : conf'[m] = conf[m]
      /\ conf'[HostOf[p]].map \in {conf[HostOf[p]].map, Wanted(p)}
      /\ ~Refused(p) => conf'[HostOf[p]].map = Wanted(p)
  BY <1>0, <1>1, <1>a, <1>t, Installed
<1>3. faults' \in 0..MaxFaults
  BY <1>a, <1>t DEF ExposeType
<1>4. \/ To(p, "mapped") /\ proc[p].pc = "reserved"
      \/ To(p, "finalizing") /\ proc[p].pc = "draining" /\ ~Refused(p)
      \/ End(p)
      \/ To(p, "aborting") /\ proc[p].pc # "draining"
  BY <1>a DEF AfterTunnel
<1>5. \E j : TunnelStep(p, j)
  <2>0. {"mapped", "finalizing", "aborting"} \subseteq Early \cup Public \cup Gone
    BY DEF Early, Gone
  <2>1. CASE To(p, "mapped") /\ proc[p].pc = "reserved"
    <3>1. PICK j \in Jobs : proc' = [proc EXCEPT ![p] = j] /\ Proceeds(p, j) /\ j.pc = "mapped"
      BY <2>0, <2>1, <1>0, <1>t, MovedTo
    <3> QED
      BY <3>1, <2>1, <1>2, <1>3, <1>a DEF TunnelStep
  <2>2. CASE To(p, "finalizing") /\ proc[p].pc = "draining" /\ ~Refused(p)
    <3>1. PICK j \in Jobs : proc' = [proc EXCEPT ![p] = j] /\ Proceeds(p, j) /\ j.pc = "finalizing"
      BY <2>0, <2>2, <1>0, <1>t, MovedTo
    <3> QED
      BY <3>1, <2>2, <1>2, <1>3, <1>a DEF TunnelStep
  <2>3. CASE End(p)
    BY <2>3, <1>2, <1>3, <1>a DEF TunnelStep, End
  <2>4. CASE To(p, "aborting") /\ proc[p].pc # "draining"
    <3>1. PICK j \in Jobs : proc' = [proc EXCEPT ![p] = j] /\ Proceeds(p, j) /\ j.pc = "aborting"
      BY <2>0, <2>4, <1>0, <1>t, MovedTo
    <3> QED
      BY <3>1, <2>4, <1>2, <1>3, <1>a DEF TunnelStep
  <2> QED
    BY <2>1, <2>2, <2>3, <2>4, <1>4
<1> QED
  BY <1>5, TunnelStepInv

(* Its change fails, and perhaps the restoration too.                      *)
LEMMA ApplyTunnelFailsInv ==
  ASSUME ExposeInv, NEW p \in Procs, ApplyTunnelFails(p) PROVE ExposeInv'
<1>t. ExposeType
  BY DEF ExposeInv
<1>a. /\ proc[p].pc \in Mapping /\ InstallTorn(HostOf[p], Wanted(p)) /\ AfterTunnel(p, FALSE)
      /\ Fails("tunnel") /\ UNCHANGED <<node, port, gw, nginx, h, late, acked, torn>>
  BY DEF ApplyTunnelFails, gateway
<1>0. Works(p) /\ HostOf[p] \in Nodes
  BY <1>a, <1>t, WorkType, JobFacts DEF Works, Mapping
<1>1. Wanted(p) \subseteq Ids
  <2>1. PICK x \in Ids : x = proc[p].e
    BY <1>0, <1>t, WorkType
  <2> QED
    BY <2>1, <1>a, <1>t, MappingShape
<1>2. /\ reg' \subseteq reg
      /\ conf' \in [Nodes -> [map : SUBSET Ids, left : BOOLEAN]]
      /\ \A m \in Nodes \ {HostOf[p]} : conf'[m] = conf[m]
      /\ conf'[HostOf[p]].map \in {conf[HostOf[p]].map, Wanted(p)}
  BY <1>0, <1>1, <1>a, <1>t, Installed
<1>3. faults' \in 0..MaxFaults
  BY <1>a, <1>t, FailsType
<1>4. End(p) \/ (To(p, "aborting") /\ proc[p].pc # "draining")
  BY <1>a DEF AfterTunnel
<1>5. \E j : TunnelStep(p, j)
  <2>1. CASE End(p)
    BY <2>1, <1>2, <1>3, <1>a DEF TunnelStep, End
  <2>2. CASE To(p, "aborting") /\ proc[p].pc # "draining"
    <3>0. "aborting" \in Early \cup Public \cup Gone
      BY DEF Early
    <3>1. PICK j \in Jobs : proc' = [proc EXCEPT ![p] = j] /\ Proceeds(p, j) /\ j.pc = "aborting"
      BY <3>0, <2>2, <1>0, <1>t, MovedTo
    <3> QED
      BY <3>1, <2>2, <1>2, <1>3, <1>a DEF TunnelStep
  <2> QED
    BY <2>1, <2>2, <1>4
<1> QED
  BY <1>5, TunnelStepInv

(* A command is killed, perhaps in the middle of a change of the tunnel.   *)
LEMMA KilledInv ==
  ASSUME ExposeInv, NEW p \in Procs, Kill(p) PROVE ExposeInv'
<1>1. CASE UNCHANGED <<conf, reg>>
  BY <1>1, KillInv
<1>2. CASE ~UNCHANGED <<conf, reg>>
  <2>t. ExposeType /\ HandlerInv
    BY DEF ExposeInv, Globals
  <2>a. /\ proc[p].pc \in Mapping /\ InstallTorn(HostOf[p], Wanted(p)) /\ Fails("kill")
        /\ proc' = [proc EXCEPT ![p] = Idle] /\ UNCHANGED <<node, port, gw, nginx, acked, torn>>
        /\ h' = IF h.p = p THEN [h EXCEPT !.p = None] ELSE h
        /\ late' = IF proc[p].pc \in Asking /\ h.p # p THEN late \cup {RequestOf(p)} ELSE late
    BY <1>2 DEF Kill, End
  <2>0. Works(p) /\ HostOf[p] \in Nodes
    BY <2>a, <2>t, WorkType, JobFacts DEF Works, Mapping
  <2>1. proc[p].pc \notin Asking /\ Wanted(p) \subseteq Ids
    <3>1. PICK x \in Ids : x = proc[p].e
      BY <2>0, <2>t, WorkType
    <3> QED
      BY <3>1, <2>a, <2>t, MappingShape
  <2>2. h.p # p
    <3>1. Handling => h.p # p
      BY <2>1, <2>t DEF HandlerInv
    <3> QED
      BY <3>1, <2>t, HandlerType, WorkType
  <2>3. /\ reg' \subseteq reg
        /\ conf' \in [Nodes -> [map : SUBSET Ids, left : BOOLEAN]]
        /\ \A m \in Nodes \ {HostOf[p]} : conf'[m] = conf[m]
        /\ conf'[HostOf[p]].map \in {conf[HostOf[p]].map, Wanted(p)}
    BY <2>0, <2>1, <2>a, <2>t, Installed
  <2>4. faults' \in 0..MaxFaults
    BY <2>a, <2>t, FailsType
  <2>5. TunnelStep(p, Idle)
    BY <2>1, <2>2, <2>3, <2>4, <2>a DEF TunnelStep
  <2> QED
    BY <2>5, TunnelStepInv
<1> QED
  BY <1>1, <1>2

-----------------------------------------------------------------------------
(* The saves of the node's state, and the look at the mapping *)

Target(pc) ==
  CASE pc = "mapped" -> "pending" [] pc = "published" -> "ready"
    [] pc = "unpublished" -> "disabled" [] OTHER -> "absent"

(* Which commands save, and what.                                          *)
LEMMA StoresShape ==
  ASSUME ExposeType, NEW p \in Procs, proc[p].pc \in Stores, NEW x \in Ids, x = proc[p].e
  PROVE  /\ Works(p) /\ proc[p].pc \notin Asking
         /\ IF proc[p].cmd = "remove" THEN proc[p].pc \in {"unpublished", "released"}
              ELSE proc[p].cmd = "create" /\ proc[p].pc \in {"mapped", "published", "unsaving"}
         /\ Saved(p) \in NodeStates /\ Saved(p).ex[x] = Target(proc[p].pc)
         /\ \A e \in Ids \ {x} : Saved(p).ex[e] = proc[p].base.ex[e]
<1>1. Works(p) /\ proc[p].pc \notin Asking
  BY JobFacts DEF Works, Stores, Asking
<1>2. /\ proc[p] \in Jobs /\ JobShape(proc[p]) /\ proc[p].base.ex \in [Ids -> States]
      /\ proc[p].base \in NodeStates
  BY <1>1, WorkType
<1>3. /\ proc[p].cmd \in {"create", "defer", "remove"} /\ proc[p].gen \in Nat
      /\ proc[p].base.gen \in Nat
  BY <1>2 DEF Jobs, NodeStates
<1>4. IF proc[p].cmd = "remove" THEN proc[p].pc \in {"unpublished", "released"}
        ELSE proc[p].cmd = "create" /\ proc[p].pc \in {"mapped", "published", "unsaving"}
  BY <1>2, <1>3 DEF JobShape, Stores, Early, Public, Gone
<1>5. \E k \in {1, 2} : Saved(p) = AfterSaves(p, k, Target(proc[p].pc))
  BY <1>4 DEF Saved, RemoveSaved, CreateSaved, Target
<1>6. ASSUME NEW k \in {1, 2}, NEW s \in States
      PROVE  /\ AfterSaves(p, k, s) \in NodeStates /\ AfterSaves(p, k, s).ex[x] = s
             /\ \A e \in Ids \ {x} : AfterSaves(p, k, s).ex[e] = proc[p].base.ex[e]
  <2> DEFINE f == [proc[p].base.ex EXCEPT ![proc[p].e] = s]
  <2>1. f \in [Ids -> States] /\ f[x] = s /\ \A e \in Ids \ {x} : f[e] = proc[p].base.ex[e]
    BY <1>2
  <2>2. AfterSaves(p, k, s) = [gen |-> proc[p].base.gen + k, last |-> proc[p].gen, ex |-> f]
    BY DEF AfterSaves
  <2> HIDE DEF f
  <2>3. proc[p].base.gen + k \in Nat
    BY <1>3
  <2> QED
    BY <2>1, <2>2, <2>3, <1>3 DEF NodeStates
<1>7. Target(proc[p].pc) \in States
  BY DEF Target, States
<1> QED
  BY <1>1, <1>4, <1>5, <1>6, <1>7

(* A save that takes effect or not, and how the command goes on.           *)
StoreStep(p, new, j) ==
  /\ proc[p].pc \in Stores /\ new \in {node[HostOf[p]], Saved(p)}
  /\ node' = [node EXCEPT ![HostOf[p]] = new] /\ proc' = [proc EXCEPT ![p] = j]
  /\ UNCHANGED <<port, conf, reg, gw, nginx, h, late, torn>> /\ faults' \in 0..MaxFaults
  /\ \/ acked' = acked
     \/ acked' = acked \cup {proc[p].e} /\ proc[p].pc = "published" /\ new = Saved(p)
  /\ \/ j = Idle
     \/ proc[p].pc = "mapped" /\ Proceeds(p, j) /\ j.pc = "unmapping"
     \/ proc[p].pc = "mapped" /\ Proceeds(p, j) /\ j.pc = "saved" /\ new = Saved(p)
     \/ /\ proc[p].pc = "unpublished" /\ j.pc = "draining" /\ (new = Saved(p) \/ Skips(p))
        /\ j \in Jobs /\ j.e = proc[p].e /\ j.cmd = proc[p].cmd /\ j.base = new

(* No save touches the records of other exposes, and none brings a         *)
(* withdrawn expose back.                                                  *)
LEMMA StoreStepInv ==
  ASSUME ExposeInv, NEW p \in Procs, NEW new, NEW j, StoreStep(p, new, j) PROVE ExposeInv'
<1>t. ExposeType /\ Alone
  BY DEF ExposeInv
<1>a. /\ proc[p].pc \in Stores /\ proc' = [proc EXCEPT ![p] = j]
      /\ UNCHANGED <<port, conf, reg, gw, nginx, h, late, torn>> /\ faults' \in 0..MaxFaults
      /\ node' = [node EXCEPT ![HostOf[p]] = new]
  BY DEF StoreStep
<1>0. Works(p)
  BY <1>a, JobFacts DEF Works, Stores
<1>x. PICK x \in Ids : x = proc[p].e
  BY <1>0, <1>t, WorkType
<1>1. /\ proc[p].pc \notin Asking
      /\ IF proc[p].cmd = "remove" THEN proc[p].pc \in {"unpublished", "released"}
           ELSE proc[p].cmd = "create" /\ proc[p].pc \in {"mapped", "published", "unsaving"}
      /\ Saved(p) \in NodeStates /\ Saved(p).ex[x] = Target(proc[p].pc)
      /\ \A e \in Ids \ {x} : Saved(p).ex[e] = proc[p].base.ex[e]
  BY <1>t, <1>a, <1>x, StoresShape
<1>h. Owner[x] = HostOf[p] /\ HostOf[p] \in Nodes /\ ExposeOK(x)
  BY <1>t, <1>0, <1>x, WorkType DEF Alone, ExposeInv
<1>2. /\ new \in NodeStates /\ new \in {node[HostOf[p]], Saved(p)}
      /\ node'[HostOf[p]] = new /\ \A n \in Nodes \ {HostOf[p]} : node'[n] = node[n]
      /\ node' \in [Nodes -> NodeStates]
  <2>1. new \in {node[HostOf[p]], Saved(p)}
    BY DEF StoreStep
  <2>2. new \in NodeStates /\ node \in [Nodes -> NodeStates]
    BY <2>1, <1>1, <1>t, <1>h, GatewayType DEF ExposeType
  <2> QED
    BY <2>1, <2>2, <1>a, <1>h
<1>3. j # Idle => /\ j \in Jobs /\ j.e = x /\ j.cmd = proc[p].cmd
                  /\ j.base = proc[p].base \/ j.base = new
  BY <1>x DEF StoreStep, Proceeds
<1>4. /\ acked' \subseteq acked \cup {x}
      /\ acked' = acked \/ (proc[p].pc = "published" /\ new = Saved(p))
  BY <1>x DEF StoreStep
<1>5. NodeTouch(p, x, j)
  <2>3. ASSUME NEW e \in Ids \ {x}
        PROVE  /\ node'[HostOf[p]].ex[e] \in {node[HostOf[p]].ex[e], proc[p].base.ex[e]}
               /\ j # Idle => j.base.ex[e] \in {node[HostOf[p]].ex[e], proc[p].base.ex[e]}
    BY <1>1, <1>2, <1>3
  <2> QED
    BY <2>3, <1>0, <1>1, <1>2, <1>3, <1>4, <1>a, <1>x DEF NodeTouch
<1>p. /\ proc'[p] = j /\ On(x)' \subseteq On(x) /\ \A q \in On(x) : q = p
  BY <1>5, <1>h, <1>t, TouchProcs
<1>6. /\ node'[Owner[x]].ex[x] = new.ex[x] /\ \A q \in On(x)' : q = p /\ j # Idle /\ proc'[q] = j
  BY <1>p, <1>2, <1>h DEF On, Works
<1>7. Seen(x)' \subseteq Seen(x) \cup {Target(proc[p].pc)}
  <2>1. new.ex[x] \in Seen(x) \cup {Target(proc[p].pc)}
    BY <1>1, <1>2, <1>h, SeenHas
  <2>2. p \in On(x)
    BY <1>0, <1>h DEF On
  <2>3. proc[p].base.ex[x] \in Seen(x)
    BY <2>2, SeenHas
  <2>4. \A q \in On(x)' : proc'[q].base.ex[x] \in Seen(x) \cup {Target(proc[p].pc)}
    BY <2>1, <2>3, <1>3, <1>6
  <2> QED
    BY <2>1, <2>4, <1>6 DEF Seen
<1>8. ExposeType'
  <2>1. j = Idle \/ (j \in Jobs /\ JobShape(j))
    <3>1. ASSUME j # Idle PROVE JobShape(j)
      <4>1. j.cmd = proc[p].cmd /\ proc[p].cmd \in {"create", "remove"}
        BY <3>1, <1>1, <1>3
      <4>2. IF proc[p].cmd = "remove" THEN j.pc = "draining" ELSE j.pc \in {"unmapping", "saved"}
        BY <3>1, <1>1 DEF StoreStep
      <4> QED
        BY <4>1, <4>2 DEF JobShape, Early, Gone
    <3> QED
      BY <3>1, <1>3
  <2>2. /\ proc' \in [Procs -> Jobs \cup {Idle}]
        /\ \A q \in Procs : proc'[q] # Idle => JobShape(proc'[q])
    BY <2>1, <1>a, <1>t, MoveType
  <2>3. acked' \subseteq Ids
    BY <1>4, <1>t DEF ExposeType
  <2> QED
    BY <2>2, <2>3, <1>2, <1>a, <1>t DEF ExposeType
<1>9. CASE proc[p].pc = "mapped"
  <2>1. /\ proc[p].cmd # "remove" /\ proc[p].pc \in Early \ {"unsaving"} /\ acked' = acked
        /\ Seen(x)' \subseteq Seen(x) \cup {"pending"}
    BY <1>1, <1>4, <1>7, <1>9 DEF Early, Target
  <2>2. j # Idle => /\ j.pc \in Early \ {"planned"}
                    /\ j.pc = "saved" => node'[HostOf[p]].ex[x] = "pending"
    BY <1>1, <1>2, <1>9 DEF StoreStep, Early, Target
  <2>3. ExposeOK(x)'
    BY <2>1, <2>2, <1>5, OwnCreator
  <2> QED
    BY <2>3, <1>5, <1>8, TouchInv
<1>10. CASE proc[p].pc \in {"published", "unsaving"}
  <2>1. j = Idle /\ proc[p].cmd # "remove" /\ conf' = conf
    BY <1>1, <1>10, <1>a DEF StoreStep
  <2>2. /\ x \in acked' => x \in acked \/ node'[HostOf[p]].ex[x] = "ready"
        /\ proc[p].pc = "unsaving" => acked' = acked
    BY <1>1, <1>2, <1>4 DEF Target
  <2>3. node'[HostOf[p]].ex[x] \in
           {node[HostOf[p]].ex[x], IF proc[p].pc = "published" THEN "ready" ELSE "absent"}
    BY <1>1, <1>2, <1>10 DEF Target
  <2>4. ExposeOK(x)'
    BY <2>1, <2>2, <2>3, <1>5, <1>10, OwnLast
  <2> QED
    BY <2>4, <1>5, <1>8, TouchInv
<1>11. CASE proc[p].pc \in {"unpublished", "released"}
  <2>1. /\ proc[p].cmd = "remove" /\ proc[p].pc \in Gone /\ acked' = acked
        /\ Seen(x)' \subseteq Seen(x) \cup {"disabled", "absent"}
        /\ x \in conf'[Owner[x]].map => x \in conf[Owner[x]].map
    BY <1>1, <1>4, <1>7, <1>11, <1>a DEF Gone, Target
  <2>2. ASSUME j # Idle PROVE j.pc = "draining" /\ Seen(x)' = {"disabled"}
    <3>1. /\ j.pc = "draining" /\ proc[p].pc = "unpublished" /\ j.base = new
          /\ new = Saved(p) \/ Skips(p)
      BY <2>2, <1>11 DEF StoreStep
    <3>2. RemoveOK(p)
      BY <2>1, <1>0, <1>h, <1>x DEF ExposeOK, JobOK
    <3>3. node[HostOf[p]].ex = proc[p].base.ex
      BY <3>1, <3>2 DEF RemoveOK
    <3>4. new.ex[x] = "disabled"
      <4>1. CASE new = Saved(p)
        BY <4>1, <3>1, <1>1 DEF Target
      <4>2. CASE new # Saved(p)
        BY <4>2, <3>1, <3>3, <1>2, <1>x DEF Skips
      <4> QED
        BY <4>1, <4>2
    <3>5. \A q \in On(x)' : proc'[q].base.ex[x] = "disabled"
      BY <3>1, <3>4, <1>6
    <3> QED
      BY <3>1, <3>4, <3>5, <1>6 DEF Seen
  <2>3. ExposeOK(x)'
    BY <2>1, <2>2, <1>5, OwnRemover
  <2> QED
    BY <2>3, <1>5, <1>8, TouchInv
<1> QED
  BY <1>1, <1>9, <1>10, <1>11

(* A save that succeeds or finds another generation.                       *)
LEMMA SaveNodeInv ==
  ASSUME ExposeInv, NEW p \in Procs, SaveNode(p) PROVE ExposeInv'
<1>t. ExposeType
  BY DEF ExposeInv
<1> DEFINE n == HostOf[p]
           ok == Skips(p) \/ node[n].gen + 1 = Saved(p).gen
           new == IF ok /\ ~Skips(p) THEN Saved(p) ELSE node[n]
<1>a. /\ proc[p].pc \in Stores /\ node' = [node EXCEPT ![HostOf[p]] = new]
      /\ acked' = IF ok /\ proc[p].pc = "published" THEN acked \cup {proc[p].e} ELSE acked
      /\ UNCHANGED <<port, conf, reg, gw, nginx, h, late, torn, faults>>
  BY DEF SaveNode
<1>b. \/ ok /\ proc[p].pc = "mapped" /\ proc' = [proc EXCEPT ![p].pc = "saved", ![p].saved = TRUE]
      \/ proc[p].pc = "mapped" /\ To(p, "unmapping")
      \/ /\ ok /\ proc[p].pc = "unpublished"
         /\ proc' = [proc EXCEPT ![p].pc = "draining", ![p].base = new]
      \/ proc' = [proc EXCEPT ![p] = Idle]
  BY DEF SaveNode, End
<1>c. Skips(p) => proc[p].pc = "unpublished"
  BY DEF Skips
<1>d. /\ new \in {node[HostOf[p]], Saved(p)}
      /\ ok => new = Saved(p) \/ Skips(p)
  OBVIOUS
<1> HIDE DEF ok, new
<1>0. Works(p)
  BY <1>a, JobFacts DEF Works, Stores
<1>x. PICK x \in Ids : x = proc[p].e
  BY <1>0, <1>t, WorkType
<1>1. proc[p] \in Jobs /\ HostOf[p] \in Nodes /\ proc \in [Procs -> Jobs \cup {Idle}]
  BY <1>0, <1>t, WorkType DEF ExposeType
<1>2. new \in NodeStates
  BY <1>d, <1>1, <1>a, <1>t, <1>x, StoresShape, GatewayType
<1>3. faults' \in 0..MaxFaults
  BY <1>a, <1>t DEF ExposeType
<1>4. \/ acked' = acked
      \/ acked' = acked \cup {proc[p].e} /\ proc[p].pc = "published" /\ new = Saved(p)
  BY <1>a, <1>c, <1>d
<1>5. \E j : StoreStep(p, new, j)
  <2>1. CASE ok /\ proc[p].pc = "mapped" /\ proc' = [proc EXCEPT ![p].pc = "saved", ![p].saved = TRUE]
    <3> DEFINE j == [proc[p] EXCEPT !.pc = "saved", !.saved = TRUE]
    <3>1. /\ j \in Jobs /\ j.pc = "saved" /\ j.e = proc[p].e /\ j.cmd = proc[p].cmd
          /\ j.base = proc[p].base
      BY <1>1 DEF Jobs, Early
    <3>2. proc' = [proc EXCEPT ![p] = j]
      BY <2>1, <1>1
    <3> HIDE DEF j
    <3>3. Proceeds(p, j)
      BY <3>1 DEF Proceeds
    <3>4. StoreStep(p, new, j)
      BY <3>1, <3>2, <3>3, <2>1, <1>3, <1>4, <1>a, <1>c, <1>d DEF StoreStep
    <3> QED
      BY <3>4
  <2>2. CASE proc[p].pc = "mapped" /\ To(p, "unmapping")
    <3>0. "unmapping" \in Early \cup Public \cup Gone
      BY DEF Early
    <3>1. PICK j \in Jobs : proc' = [proc EXCEPT ![p] = j] /\ Proceeds(p, j) /\ j.pc = "unmapping"
      BY <3>0, <2>2, <1>0, <1>t, MovedTo
    <3> QED
      BY <3>1, <2>2, <1>3, <1>4, <1>a, <1>d DEF StoreStep
  <2>3. CASE /\ ok /\ proc[p].pc = "unpublished"
             /\ proc' = [proc EXCEPT ![p].pc = "draining", ![p].base = new]
    <3> DEFINE j == [proc[p] EXCEPT !.pc = "draining", !.base = new]
    <3>1. /\ j \in Jobs /\ j.pc = "draining" /\ j.e = proc[p].e /\ j.cmd = proc[p].cmd
          /\ j.base = new
      BY <1>1, <1>2 DEF Jobs, Gone
    <3>2. proc' = [proc EXCEPT ![p] = j]
      BY <2>3, <1>1
    <3> HIDE DEF j
    <3>3. StoreStep(p, new, j)
      BY <3>1, <3>2, <2>3, <1>3, <1>4, <1>a, <1>d DEF StoreStep
    <3> QED
      BY <3>3
  <2>4. CASE proc' = [proc EXCEPT ![p] = Idle]
    <3>1. StoreStep(p, new, Idle)
      BY <2>4, <1>3, <1>4, <1>a, <1>d DEF StoreStep
    <3> QED
      BY <3>1
  <2> QED
    BY <2>1, <2>2, <2>3, <2>4, <1>b
<1> QED
  BY <1>5, StoreStepInv

(* A save that reports an error, with or without effect.                   *)
LEMMA SaveNodeFailsInv ==
  ASSUME ExposeInv, NEW p \in Procs, SaveNodeFails(p) PROVE ExposeInv'
<1>t. ExposeType
  BY DEF ExposeInv
<1>a. /\ proc[p].pc \in Stores /\ Fails("save")
      /\ UNCHANGED <<port, conf, reg, gw, nginx, h, late, acked, torn>>
      /\ IF proc[p].pc = "mapped" THEN To(p, "unmapping") ELSE proc' = [proc EXCEPT ![p] = Idle]
  BY DEF SaveNodeFails, gateway, End
<1>0. Works(p) /\ faults' \in 0..MaxFaults
  BY <1>a, <1>t, FailsType, JobFacts DEF Works, Stores
<1>1. PICK new \in {node[HostOf[p]], Saved(p)} : node' = [node EXCEPT ![HostOf[p]] = new]
  <2>1. \/ node' = node
        \/ node' = [node EXCEPT ![HostOf[p]] = Saved(p)]
    BY DEF SaveNodeFails
  <2>2. node = [node EXCEPT ![HostOf[p]] = node[HostOf[p]]]
    BY <1>t DEF ExposeType
  <2> QED
    BY <2>1, <2>2
<1>2. \E j : StoreStep(p, new, j)
  <2>1. CASE proc[p].pc = "mapped"
    <3>0. "unmapping" \in Early \cup Public \cup Gone
      BY DEF Early
    <3>1. PICK j \in Jobs : proc' = [proc EXCEPT ![p] = j] /\ Proceeds(p, j) /\ j.pc = "unmapping"
      BY <3>0, <2>1, <1>a, <1>0, <1>t, MovedTo
    <3> QED
      BY <3>1, <2>1, <1>0, <1>1, <1>a DEF StoreStep
  <2>2. CASE proc[p].pc # "mapped"
    <3>1. StoreStep(p, new, Idle)
      BY <2>2, <1>0, <1>1, <1>a DEF StoreStep
    <3> QED
      BY <3>1
  <2> QED
    BY <2>1, <2>2
<1> QED
  BY <1>2, StoreStepInv

(* The mapping runs and the publication is asked for, or it does not and   *)
(* the creation is undone.                                                 *)
LEMMA ObserveInv ==
  ASSUME ExposeInv, NEW p \in Procs, Observe(p) PROVE ExposeInv'
<1>t. ExposeType /\ Alone
  BY DEF ExposeInv
<1>a. /\ proc[p].cmd = "create" /\ proc[p].pc = "saved"
      /\ To(p, IF ReadyToPublish(p) THEN "publishing" ELSE "unmapping")
      /\ UNCHANGED <<node, port, conf, reg, gw, nginx, h, late, acked, torn, faults>>
  BY DEF Observe, At, local, gateway
<1>0. Works(p) /\ proc[p].pc \notin Asking
  BY <1>a, JobFacts DEF Works, Asking
<1>x. PICK x \in Ids : x = proc[p].e
  BY <1>0, <1>t, WorkType
<1>1. PICK c \in {"publishing", "unmapping"} : To(p, c) /\ (c = "publishing" => ReadyToPublish(p))
  BY <1>a
<1>2. PICK j \in Jobs : proc' = [proc EXCEPT ![p] = j] /\ Proceeds(p, j) /\ j.pc = c
  <2>1. c \in Early \cup Public \cup Gone
    BY DEF Early, Public
  <2> QED
    BY <2>1, <1>0, <1>1, <1>t, MovedTo
<1>h. /\ Owner[x] = HostOf[p] /\ HostOf[p] \in Nodes /\ ExposeOK(x) /\ j # Idle
      /\ proc[p].base.ex \in [Ids -> States]
  BY <1>t, <1>0, <1>x, WorkType, JobFacts DEF Alone, ExposeInv
<1>3. NodeTouch(p, x, j)
  BY <1>0, <1>2, <1>a, <1>x DEF NodeTouch, Proceeds
<1>4. ExposeType'
  <2>1. JobShape(j)
    BY <1>2, <1>a DEF JobShape, Proceeds, Early, Public
  <2>2. /\ proc' \in [Procs -> Jobs \cup {Idle}]
        /\ \A q \in Procs : proc'[q] # Idle => JobShape(proc'[q])
    BY <2>1, <1>2, <1>t, MoveType
  <2> QED
    BY <2>2, <1>a, <1>t DEF ExposeType
<1>5. Seen(x)' \subseteq Seen(x)
  BY <1>t, <1>0, <1>2, <1>a, SideSeen
<1>6. CASE c = "unmapping"
  <2>1. /\ proc[p].cmd # "remove" /\ proc[p].pc \in Early \ {"unsaving"} /\ acked' = acked
        /\ Seen(x)' \subseteq Seen(x) \cup {"pending"}
        /\ j.pc \in Early \ {"planned"} /\ j.pc # "saved"
    BY <1>2, <1>5, <1>6, <1>a DEF Early
  <2>2. ExposeOK(x)'
    BY <2>1, <1>3, OwnCreator
  <2> QED
    BY <2>2, <1>3, <1>4, TouchInv
<1>7. CASE c = "publishing"
  <2>p. /\ Quiet /\ proc'[p] = j /\ On(x)' \subseteq On(x) /\ (\A q \in On(x) : q = p)
        /\ \A q \in Procs : Works(q)' /\ proc'[q].e = x => q = p
    BY <1>3, <1>h, <1>t, TouchProcs
  <2>1. Creates(p, x) /\ CreateOK(p) /\ NotYet(x) /\ node[HostOf[p]].ex[x] = "pending"
    BY <1>0, <1>a, <1>h, <1>x DEF Creates, ExposeOK, JobOK, CreateOK, Early
  <2>2. Routes' = Routes /\ x \notin Routes'
    BY <2>1, <2>p, <1>t, QuietRoutes DEF NotYet
  <2>3. \A r \in late' : r.e # x
    BY <2>1, <1>a, <1>h, CreatorLate
  <2>4. Mapped(x)'
    <3>1. x \in conf[HostOf[p]].map
      <4>1. Pending(p)[x] = "pending"
        BY <1>x, <1>h DEF Pending
      <4> QED
        BY <4>1, <1>1, <1>7 DEF ReadyToPublish, Topology, Enabled
    <3>2. node'[Owner[x]].ex[x] \in Live /\ x \in conf'[Owner[x]].map
      BY <3>1, <2>1, <1>a, <1>h DEF Live
    <3>3. \A q \in On(x)' : proc'[q].e = x /\ proc'[q].pc \in Public
      BY <2>p, <1>2, <1>7, <1>x DEF Proceeds, Public
    <3> QED
      BY <3>2, <3>3 DEF Mapped
  <2>5. ASSUME NEW q \in Procs, Works(q)', proc'[q].e = x PROVE JobOK(q)'
    <3>1. proc'[q].pc = "publishing" /\ proc'[q].cmd # "remove"
      BY <2>5, <2>p, <1>2, <1>7, <1>a DEF Proceeds
    <3>2. CreateOK(q)'
      BY <3>1, <2>4, <2>5 DEF CreateOK, Early
    <3> QED
      BY <3>1, <3>2, Zenon DEF JobOK
  <2>6. x \notin acked'
    BY <2>1, <1>a, <1>h DEF ExposeOK, AckedOK, Firm, Routes, NotYet
  <2>7. DisabledOK(x)'
    <3>1. Withdrawn(x) => Withdrawn(x)'
      BY <2>2, <1>a DEF Withdrawn
    <3> QED
      BY <3>1, <1>5, <1>h DEF ExposeOK, DisabledOK
  <2>8. Routed(x)' /\ AckedOK(x)' /\ Unplanned(x)'
    BY <2>2, <2>6, <1>0, <1>a, <1>t, <1>x DEF Routed, AckedOK, Unplanned, Alone
  <2>9. ExposeOK(x)'
    BY <2>3, <2>5, <2>7, <2>8, Zenon DEF ExposeOK
  <2> QED
    BY <2>9, <1>3, <1>4, TouchInv
<1> QED
  BY <1>6, <1>7

-----------------------------------------------------------------------------
(* frps, and other commands that change a node's state *)

(* A step that changes no command, no record of an expose and no file.     *)
LEMMA StillInv ==
  ASSUME ExposeInv, ExposeType', PortInv',
         UNCHANGED <<port, gw, nginx, h, late, proc, acked, torn, conf>>,
         \A n \in Nodes : node'[n].ex = node[n].ex,
         \A e \in reg' : e \in reg \/ gw.ex[e] \in Live
  PROVE  ExposeInv'
<1>t. ExposeType /\ Alone /\ HandlerInv /\ ServedInv /\ LinkedInv
  BY DEF ExposeInv, Globals
<1>n. (\A e \in Ids : Owner[e] \in Nodes) /\ (\A q \in Procs : HostOf[q] \in Nodes)
  BY ExposeAssumptions
<1>1. Quiet
  BY DEF Quiet
<1>2. ServedInv' /\ LinkedInv' /\ Routes' = Routes /\ \A e \in Ids : Firm(e) => Firm(e)'
  BY <1>1, <1>t, QuietRoutes
<1>3. HandlerInv'
  <2>1. \A q \in Procs : Creates(q, h.r.e)' => Creates(q, h.r.e)
    BY DEF Creates, Works
  <2>2. Handling => /\ port'[h.r.e] # 0
                    /\ h'.p \in Procs => proc'[h'.p] = proc[h'.p]
                    /\ \A q \in Procs : Creates(q, h.r.e)' => h'.p = q
    BY <2>1, <1>t DEF HandlerInv
  <2> QED
    BY <2>2, <1>1, <1>t, QuietHandlerInv, Zenon
<1>4. Alone'
  BY <1>t DEF Alone, Works
<1>5. ASSUME NEW e \in Ids PROVE ExposeOK(e)'
  <2>1. On(e)' = On(e) /\ node'[Owner[e]].ex[e] = node[Owner[e]].ex[e]
    BY <1>n DEF On, Works
  <2>2. Seen(e)' = Seen(e)
    BY <2>1 DEF Seen
  <2>3. Mapped(e) => Mapped(e)'
    BY <2>1 DEF Mapped
  <2>4. gw.gen \in Nat /\ gw.gen <= gw'.gen
    BY <1>t, GatewayType
  <2>5. FreshPort(e) => FreshPort(e)'
    <3>1. \A y \in reg' : y \in reg \/ y \in Present(gw.ex)
      BY <1>t DEF Present, Live, ExposeType
    <3> QED
      BY <3>1 DEF FreshPort, Present
  <2>6. Handling' /\ h'.r.e = e => Handling /\ h.r = h'.r
    BY DEF Handling
  <2>7. Stays(e)
    BY <2>2, <2>3, <2>4, <2>5, <2>6, <1>2 DEF Stays
  <2>8. LateStays(e) /\ ConfStays(e)
    BY DEF LateStays, ConfStays
  <2>9. JobsStay(e)
    BY <1>n DEF JobsStay
  <2> QED
    BY <2>7, <2>8, <2>9, <1>t, KeepExpose DEF Keeps, ExposeInv
<1> QED
  BY <1>2, <1>3, <1>4, <1>5 DEF ExposeInv, Globals

(* Another command changes the node's state.                               *)
LEMMA NodeWriteInv ==
  ASSUME ExposeInv, NEW n \in Nodes, NodeWrite(n) PROVE ExposeInv'
<1>t. ExposeType /\ PortInv
  BY DEF ExposeInv, Globals
<1>a. /\ UNCHANGED <<port, conf, reg, gw, nginx, h, late, proc, acked, torn, faults>>
      /\ node' = [node EXCEPT ![n].gen = @ + 1]
  BY DEF NodeWrite, gateway
<1>1. node' \in [Nodes -> NodeStates] /\ \A m \in Nodes : node'[m].ex = node[m].ex
  <2>1. node \in [Nodes -> NodeStates] /\ node[n] \in NodeStates
    BY <1>t DEF ExposeType
  <2> DEFINE s == [node[n] EXCEPT !.gen = @ + 1]
  <2>2. s \in NodeStates /\ s.ex = node[n].ex
    BY <2>1 DEF NodeStates
  <2>3. node' = [node EXCEPT ![n] = s]
    BY <2>1, <1>a
  <2> HIDE DEF s
  <2> QED
    BY <2>1, <2>2, <2>3
<1>2. ExposeType'
  BY <1>1, <1>a, <1>t DEF ExposeType
<1>3. PortInv' /\ \A e \in reg' : e \in reg \/ gw.ex[e] \in Live
  BY <1>a, <1>t, QuietPorts
<1> QED
  BY <1>1, <1>2, <1>3, <1>a, StillInv

(* A node's tunnel is cut.                                                 *)
LEMMA DisconnectInv ==
  ASSUME ExposeInv, NEW n \in Nodes, Disconnect(n) PROVE ExposeInv'
<1>t. ExposeType /\ PortInv
  BY DEF ExposeInv, Globals
<1>a. /\ UNCHANGED <<node, port, conf, gw, nginx, h, late, proc, acked, torn, faults>>
      /\ reg' \subseteq reg
  BY DEF Disconnect, gateway, local
<1>2. ExposeType'
  BY <1>a, <1>t DEF ExposeType
<1>3. PortInv' /\ \A e \in reg' : e \in reg \/ gw.ex[e] \in Live
  BY <1>a, <1>t, QuietPorts
<1> QED
  BY <1>2, <1>3, <1>a, StillInv

(* frps accepts a mapping: of a live record, on a port that no other       *)
(* record owns.                                                            *)
LEMMA RegisterInv ==
  ASSUME ExposeInv, NEW y \in Ids, Register(y) PROVE ExposeInv'
<1>t. ExposeType /\ PortInv
  BY DEF ExposeInv, Globals
<1>a. /\ UNCHANGED <<node, port, conf, gw, nginx, h, late, proc, acked, torn, faults>>
      /\ reg' = reg \cup {y} /\ gw.ex[y] \in Live
  BY DEF Register, gateway, local, Authorized, Live
<1>2. ExposeType'
  BY <1>a, <1>t DEF ExposeType
<1>3. PortInv'
  <2>1. y \in Present(gw.ex)
    BY <1>a DEF Present, Live
  <2>2. \A e \in Present(gw.ex) : port[y] = port[e] => y = e
    BY <2>1, <1>t DEF PortInv, Valid
  <2>3. Present(gw.ex)' = Present(gw.ex) /\ Valid(gw.ex)'
    BY <1>a, <1>t DEF Present, PortInv, Valid, Enabled
  <2> QED
    BY <2>2, <2>3, <1>a, <1>t DEF PortInv
<1>4. \A e \in reg' : e \in reg \/ gw.ex[e] \in Live
  BY <1>a
<1> QED
  BY <1>2, <1>3, <1>4, <1>a, StillInv

-----------------------------------------------------------------------------
(* The invariant *)

(* What is published when a run starts has a port of its own.              *)
LEMMA InitPorts ==
  ASSUME Init
  PROVE  /\ port \in [Ids -> Ports \cup {0}]
         /\ \A e \in Ids : port[e] # 0 <=> e \in Published
         /\ \A x, y \in Published : x # y => port[x] # port[y]
<1> DEFINE P(f) == /\ \A e \in Ids : f[e] # 0 <=> e \in Published
                   /\ \A x, y \in Published : x # y => f[x] # f[y]
<1>1. PICK g \in [Published -> Ports] : \A x, y \in Published : x # y => g[x] # g[y]
  BY ExposeAssumptions
<1> DEFINE f == [e \in Ids |-> IF e \in Published THEN g[e] ELSE 0]
<1>2. f \in [Ids -> Ports \cup {0}]
  OBVIOUS
<1>3. \A e \in Published : e \in Ids /\ f[e] = g[e] /\ g[e] # 0
  BY ExposeAssumptions
<1>4. P(f)
  BY <1>1, <1>3
<1>5. port = CHOOSE k \in [Ids -> Ports \cup {0}] : P(k)
  BY DEF Init
<1> HIDE DEF P, f
<1>6. port \in [Ids -> Ports \cup {0}] /\ P(port)
  BY <1>2, <1>4, <1>5
<1> QED
  BY <1>6 DEF P

(* It holds at the start.                                                  *)
LEMMA InitExpose == ASSUME Init PROVE ExposeInv
<1>s. {"ready", "absent"} \subseteq States
  BY DEF States
<1>g. /\ gw \in GatewayStates /\ gw.gen = 1
      /\ \A e \in Ids : gw.ex[e] = IF e \in Published THEN "ready" ELSE "absent"
  BY <1>s DEF Init, GatewayStates
<1>n. /\ node \in [Nodes -> NodeStates]
      /\ \A n \in Nodes, e \in Ids :
           node[n].ex[e] = IF e \in Published /\ Owner[e] = n THEN "ready" ELSE "absent"
  <2> DEFINE s(n) == [gen |-> 1, last |-> 1,
                      ex |-> [e \in Ids |-> IF e \in Published /\ Owner[e] = n THEN "ready" ELSE "absent"]]
  <2>1. ASSUME NEW n \in Nodes
        PROVE  s(n) \in NodeStates /\ \A e \in Ids :
                 s(n).ex[e] = IF e \in Published /\ Owner[e] = n THEN "ready" ELSE "absent"
    BY <1>s DEF NodeStates
  <2>2. node = [n \in Nodes |-> s(n)]
    BY DEF Init
  <2> HIDE DEF s
  <2> QED
    BY <2>1, <2>2
<1>c. /\ conf \in [Nodes -> [map : SUBSET Ids, left : BOOLEAN]]
      /\ \A n \in Nodes, e \in Ids : e \in conf[n].map <=> e \in Published /\ Owner[e] = n
  <2>1. conf = [n \in Nodes |-> [map |-> Enabled(node[n].ex), left |-> FALSE]]
    BY DEF Init, Topology
  <2>2. \A n \in Nodes : Enabled(node[n].ex) \subseteq Ids
    BY DEF Enabled
  <2>3. \A n \in Nodes, e \in Ids : e \in Enabled(node[n].ex) <=> e \in Published /\ Owner[e] = n
    BY <1>n DEF Enabled
  <2> QED
    BY <2>1, <2>2, <2>3
<1>p. /\ port \in [Ids -> Ports \cup {0}]
      /\ \A e \in Ids : port[e] # 0 <=> e \in Published
      /\ \A x, y \in Published : x # y => port[x] # port[y]
  BY InitPorts
<1>x. /\ nginx \in NginxType /\ nginx.run = Published /\ nginx.cur.routes = Published
  BY ExposeAssumptions DEF Init, NginxType, Generations
<1>r. /\ reg = Published /\ h = NoHandler /\ late = {} /\ acked = Published /\ torn = FALSE
      /\ faults = 0 /\ proc = [p \in Procs |-> Idle] /\ Published \subseteq Ids
      /\ \A e \in Ids : Owner[e] \in Nodes
  BY ExposeAssumptions DEF Init
<1>w. /\ ~Handling /\ ~Undoable /\ \A p \in Procs : ~Works(p)
  BY <1>r DEF Handling, Undoable, Works
<1>y. Ready(gw.ex) = Published /\ Present(gw.ex) = Published
  BY <1>g, <1>r DEF Ready, Present
<1>z. Routes = Published
  BY <1>x, <1>y, <1>w DEF Routes
<1>1. ExposeType
  <2>1. faults \in 0..MaxFaults
    BY <1>r, ExposeAssumptions
  <2>2. proc \in [Procs -> Jobs \cup {Idle}] /\ \A p \in Procs : proc[p] = Idle
    BY <1>r
  <2> QED
    BY <2>1, <2>2, <1>g, <1>n, <1>c, <1>p, <1>x, <1>r DEF ExposeType
<1>2. Alone /\ HandlerInv
  BY <1>w DEF Alone, HandlerInv
<1>3. ServedInv /\ LinkedInv
  BY <1>w, <1>x, <1>y DEF ServedInv, LinkedInv
<1>4. PortInv
  BY <1>p, <1>r, <1>y, ExposeAssumptions DEF PortInv, Valid
<1>5. ASSUME NEW e \in Ids PROVE ExposeOK(e)
  <2>1. On(e) = {} /\ Seen(e) = {node[Owner[e]].ex[e]}
    BY <1>w DEF On, Seen
  <2>2. Seen(e) = {IF e \in Published THEN "ready" ELSE "absent"}
    BY <2>1, <1>n, <1>r
  <2>3. Routed(e)
    BY <2>1, <1>z, <1>g, <1>n, <1>c, <1>r DEF Routed, Mapped, Live
  <2>4. Unplanned(e)
    BY <2>2, <1>p, <1>z, <1>g, <1>r, <1>w DEF Unplanned, Fresh
  <2>5. AckedOK(e)
    BY <2>2, <1>x, <1>g, <1>r, <1>w DEF AckedOK, Firm
  <2>6. DisabledOK(e)
    BY <2>2 DEF DisabledOK
  <2> QED
    BY <2>3, <2>4, <2>5, <2>6, <1>r, <1>w DEF ExposeOK
<1> QED
  BY <1>1, <1>2, <1>3, <1>4, <1>5 DEF ExposeInv, Globals

(* Every step of the commands, the controller and the tunnels keeps it.    *)
LEMMA NextExpose == ASSUME Serial, ExposeInv, [Next]_vars PROVE ExposeInv'
<1>1. CASE Controller
  BY <1>1, ActivateInv, RefuseInv, HandlerSaveInv, HandlerRollbackInv, HandlerCommitInv DEF Controller
<1>2. CASE ControllerFault
  BY <1>2, ActivateFailsInv, HandlerSaveFailsInv, HandlerRollbackFailsInv, HandlerCommitFailsInv,
     ControllerRestartsInv DEF ControllerFault
<1>3. CASE Environment
  BY <1>3, HandleLateInv, LoseLateInv, RegisterInv, DisconnectInv, NodeWriteInv, OtherWriteInv
     DEF Environment
<1>4. ASSUME NEW p \in Procs, Plan(p) PROVE ExposeInv'
  BY <1>4, PlanRemoveInv, PlanCreateInv DEF Plan
<1>5. ASSUME NEW p \in Procs, Step(p) PROVE ExposeInv'
  BY <1>5, HandleCallInv, PlanStaleInv, ApplyTunnelInv, SaveNodeInv, ObserveInv DEF Step
<1>6. ASSUME NEW p \in Procs, Fault(p) PROVE ExposeInv'
  BY <1>6, CallFailsInv, ApplyTunnelFailsInv, SaveNodeFailsInv, KilledInv DEF Fault
<1>7. CASE UNCHANGED vars
  <2>1. UNCHANGED <<gw, node, port, conf, reg, nginx, h, late, proc, acked, torn, faults>>
    BY <1>7 DEF vars
  <2>2. ExposeType' /\ PortInv'
    BY <2>1 DEF ExposeInv, Globals, ExposeType, PortInv, Valid, Present, Enabled
  <2> QED
    BY <2>1, <2>2, StillInv
<1> QED
  BY <1>1, <1>2, <1>3, <1>4, <1>5, <1>6, <1>7 DEF Next

(* It implies the two invariants.                                          *)
LEMMA ExposeSound == ExposeInv => RoutesSound /\ AckedStaysServed
<1> SUFFICES ASSUME ExposeInv PROVE RoutesSound /\ AckedStaysServed
  OBVIOUS
<1>t. ExposeType /\ PortInv /\ ServedInv
  BY DEF ExposeInv, Globals
<1>1. TypeOK
  <2>1. h.step \in {"none", "save", "rollback", "commit"}
    BY <1>t, HandlerType
  <2>2. \A n \in Nodes : conf[n].map \subseteq Ids /\ conf[n].left \in BOOLEAN
    BY <1>t DEF ExposeType
  <2> QED
    BY <2>1, <2>2, <1>t, GatewayType DEF TypeOK, ExposeType, States
<1>2. ASSUME NEW e \in nginx.run
      PROVE  e \in Ids /\ e \in Present(gw.ex) /\ e \in conf[Owner[e]].map
  <2>1. e \in Ids /\ e \in Routes
    BY <1>t, GatewayType DEF Routes
  <2>2. gw.ex[e] # "absent" /\ Mapped(e)
    BY <2>1 DEF ExposeInv, ExposeOK, Routed
  <2> QED
    BY <2>1, <2>2 DEF Present, Mapped
<1>3. RouteServesOwner
  BY <1>2, <1>t DEF RouteServesOwner, PortInv
<1>4. PublishedIsMapped
  BY <1>2 DEF PublishedIsMapped
<1>5. ServedMatchesState
  BY <1>t DEF ServedMatchesState, ServedInv, Undoable, Handling
<1>6. AckedStaysServed
  <2> SUFFICES ASSUME NEW e \in acked
               PROVE  /\ gw.ex[e] = "ready" /\ node[Owner[e]].ex[e] = "ready"
                      /\ e \in nginx.run /\ e \in conf[Owner[e]].map
    BY DEF AckedStaysServed
  <2>1. e \in Ids
    BY <1>t DEF ExposeType
  <2>2. Firm(e) /\ Seen(e) = {"ready"}
    BY <2>1 DEF ExposeInv, ExposeOK, AckedOK
  <2>3. node[Owner[e]].ex[e] = "ready"
    BY <2>1, <2>2, SeenHas
  <2> QED
    BY <2>2, <2>3, <1>2 DEF Firm
<1> QED
  BY <1>1, <1>3, <1>4, <1>5, <1>6 DEF RoutesSound

(* A record goes from disabled to absent only in FinalizeRemoval.          *)
LEMMA ReleasedRetired ==
  ASSUME ExposeInv, [Next]_vars, NEW e \in Ids, gw.ex[e] = "disabled", gw'.ex[e] = "absent"
  PROVE  Retired(e)
<1>t. ExposeType /\ gw.ex \in [Ids -> States] /\ ExposeOK(e) /\ HandlerInv
  BY GatewayType DEF ExposeInv, Globals
<1>1. ASSUME NEW r \in RequestType, gw' = IF Applies(r) THEN Applied(r) ELSE gw
      PROVE  r.act = "finalize" /\ r.e = e
  <2>1. Applies(r) /\ gw' = Applied(r)
    BY <1>1
  <2>2. r.e = e
    BY <2>1, <1>t DEF Applied, Put
  <2> QED
    BY <2>1, <2>2, <1>t DEF Applied, Put, Applies, Reservable, Abortable, Releasable
<1>2. CASE \E r \in late : HandleLate(r)
  <2>1. PICK r \in late : HandleLate(r)
    BY <1>2
  <2>2. r \in RequestType
    BY <1>t DEF ExposeType
  <2>3. r.act = "finalize" /\ r.e = e
    BY <2>1, <2>2, <1>1 DEF HandleLate
  <2> QED
    BY <2>3, <1>t DEF ExposeOK, LateOK
<1>3. CASE \E p \in Procs : HandleCall(p)
  <2>1. PICK p \in Procs : HandleCall(p)
    BY <1>3
  <2>2. proc[p].pc \in Asking /\ Works(p)
    BY <2>1, JobFacts DEF HandleCall, Works, Asking
  <2>3. RequestOf(p) \in RequestType
    BY <2>2, <1>t, RequestShape
  <2>4. RequestOf(p).act = "finalize" /\ RequestOf(p).e = e
    BY <2>1, <2>3, <1>1 DEF HandleCall
  <2>5. proc[p].pc = "finalizing" /\ proc[p].e = e
    BY <2>2, <2>4, <1>t, RequestShape
  <2>6. proc[p].cmd = "remove"
    <3>1. JobShape(proc[p]) /\ proc[p].cmd \in {"create", "defer", "remove"}
      BY <2>2, <1>t, WorkType DEF Jobs
    <3> QED
      BY <3>1, <2>5 DEF JobShape, Early, Public
  <2> QED
    BY <2>2, <2>5, <2>6, <1>t DEF ExposeOK, JobOK, RemoveOK
<1>4. CASE HandlerSave \/ HandlerSaveFails
  <2>1. Handling
    BY <1>4, JobFacts DEF HandlerSave, HandlerSaveFails, Handling
  <2>2. h.r.e \in Ids
    BY <2>1, <1>t, HandlerType
  <2>3. gw' = gw \/ gw' = Put(h.r.e, Goal(h.r))
    BY <1>4 DEF HandlerSave, HandlerSaveFails
  <2>4. Goal(h.r) \in {"ready", "disabled"}
    BY DEF Goal
  <2> QED
    BY <2>2, <2>3, <2>4, <1>t DEF Put
<1>5. CASE gw'.ex = gw.ex
  BY <1>5
<1>6. \/ \E r \in late : HandleLate(r)
      \/ \E p \in Procs : HandleCall(p)
      \/ HandlerSave \/ HandlerSaveFails
      \/ gw'.ex = gw.ex
  <2>1. CASE Controller
    BY <2>1 DEF Controller, Activate, Refuse, HandlerRollback, HandlerCommit
  <2>2. CASE ControllerFault
    BY <2>2 DEF ControllerFault, ActivateFails, HandlerRollbackFails, HandlerCommitFails, ControllerRestarts
  <2>3. CASE Environment
    <3>1. OtherWrite => gw'.ex = gw.ex
      BY <1>t DEF OtherWrite, ExposeType, GatewayStates
    <3> QED
      BY <2>3, <3>1 DEF Environment, LoseLate, Register, Disconnect, NodeWrite, gateway
  <2>4. CASE \E p \in Procs : Plan(p) \/ Step(p) \/ Fault(p)
    BY <2>4 DEF Plan, Step, Fault, PlanCreate, PlanRemove, PlanStale, ApplyTunnel, SaveNode, Observe,
                CallFails, ApplyTunnelFails, SaveNodeFails, Kill, gateway
  <2>5. CASE UNCHANGED vars
    BY <2>5 DEF vars
  <2> QED
    BY <2>1, <2>2, <2>3, <2>4, <2>5 DEF Next
<1> QED
  BY <1>2, <1>3, <1>4, <1>5, <1>6

-----------------------------------------------------------------------------
(* The theorems.  All of them assume that an operator runs one expose      *)
(* command at a time on a node; requests whose callers have given up,      *)
(* failures of every kind and other writers of both states are included.   *)

(* Public routes lead to mappings of the node they were published for, no  *)
(* two exposes share a port, no two active ones a path, and between        *)
(* publications nginx serves what the gateway's state says is published    *)
(* unless a reported failure has torn them apart.                          *)
THEOREM RoutesAreSound == Serial => (Spec => []RoutesSound)
<1> SUFFICES ASSUME Serial PROVE Spec => []RoutesSound
  OBVIOUS
<1>1. Init => ExposeInv
  BY InitExpose
<1>2. ExposeInv /\ [Next]_vars => ExposeInv'
  BY NextExpose
<1>3. ExposeInv => RoutesSound
  BY ExposeSound
<1> QED
  BY <1>1, <1>2, <1>3, PTL DEF Spec

(* What `expose create` reported as published stays on record, mapped and  *)
(* served until its own removal begins, whatever becomes of other exposes, *)
(* other commands and requests still under way.                            *)
THEOREM AckedIsServed == Serial => (Spec => []AckedStaysServed)
<1> SUFFICES ASSUME Serial PROVE Spec => []AckedStaysServed
  OBVIOUS
<1>1. Init => ExposeInv
  BY InitExpose
<1>2. ExposeInv /\ [Next]_vars => ExposeInv'
  BY NextExpose
<1>3. ExposeInv => AckedStaysServed
  BY ExposeSound
<1> QED
  BY <1>1, <1>2, <1>3, PTL DEF Spec

(* FinalizeRemoval releases a port only when nginx no longer serves the    *)
(* route and the node no longer maps the expose, also when it is a request *)
(* of a command that was abandoned long ago.                               *)
THEOREM ReleasedPortsAreUnused == Serial => (Spec => ReleasedIsUnused)
<1> SUFFICES ASSUME Serial PROVE Spec => ReleasedIsUnused
  OBVIOUS
<1>1. Init => ExposeInv
  BY InitExpose
<1>2. ExposeInv /\ [Next]_vars => ExposeInv'
  BY NextExpose
<1>3. ExposeInv /\ [Next]_vars =>
        [\A e \in Ids : gw.ex[e] = "disabled" /\ gw'.ex[e] = "absent" =>
           e \notin nginx.run /\ e \notin conf[Owner[e]].map]_vars
  BY ReleasedRetired DEF Retired, Withdrawn, Routes
<1> QED
  BY <1>1, <1>2, <1>3, PTL DEF Spec, ReleasedIsUnused

=============================================================================
