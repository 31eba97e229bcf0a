----------------------------- MODULE Controller -----------------------------
(***************************************************************************)
(* The gateway controller's mutation paths over the state store, and the   *)
(* other processes that touch the same state.                              *)
(*                                                                         *)
(*   internal/controller/process.go        local (Unix socket) mutations   *)
(*   internal/controller/mutation.go       node RPC mutations, idempotency *)
(*   internal/controller/mutation_lock.go  the cross-process flock         *)
(*   internal/model/idempotency.go         the bounded request history     *)
(*   internal/cli/committed_gateway_repair.go   repair in a CLI process    *)
(*   internal/routing/client.go            `client add` in a CLI process   *)
(*                                                                         *)
(* Two locks exist and no path is behind both but the local mutations:     *)
(* mutationMu orders the goroutines of the daemon, the flock orders local  *)
(* mutations and the bootstrap repair of a CLI process.  The client        *)
(* commands of the CLI take neither.                                       *)
(***************************************************************************)
EXTENDS StateStore

CONSTANTS
  Locals,        \* daemon goroutines serving the Unix socket
  Rpcs,          \* daemon goroutines serving node RPCs
  Clis,          \* `vpnctl client add` processes
  Repairs,       \* `vpnctl repair` processes on the bootstrap path
  Requests,      \* node request IDs
  LocalChanges,  \* changes of local mutations, each with a runtime part
  CliChanges,    \* changes the client commands make
  Genesis,       \* what gateway init wrote
  Nobody,        \* "no holder"
  MaxRecords,    \* IdempotencyMaxRecords
  FaultKinds     \* the failures a run injects besides those of Save

AllFaults == {"daemon", "answer", "cli", "power", "runtime"}

ASSUME ControllerAssumptions ==
  /\ Writers = Locals \cup Rpcs \cup Clis
  /\ Changes = Requests \cup LocalChanges \cup CliChanges \cup {Genesis}
  /\ Locals \cap Rpcs = {} /\ (Locals \cup Rpcs) \cap (Clis \cup Repairs) = {}
  /\ Clis \cap Repairs = {} /\ Nobody \notin Writers \cup Repairs
  /\ Requests \cap LocalChanges = {} /\ (Requests \cup LocalChanges) \cap CliChanges = {}
  /\ Genesis \notin Requests \cup LocalChanges \cup CliChanges
  /\ MaxRecords \in Nat \ {0}
  /\ FaultKinds \subseteq AllFaults

VARIABLES
  mutex,      \* holder of Controller.mutationMu
  flock,      \* holder of gateway-mutation.lock
  hnd,        \* where each handler is, with its request and loaded state
  rt,         \* local changes that are active in the runtime
  drift,      \* the runtime may differ from the state and somebody was told
              \*   (or nobody is left to be told, after a crash)
  expect,     \* expected_state_generation the node sent; 0 is "not issued"
  confirmed,  \* requests whose node has been told "ok"
  refused,    \* requests whose node has been told of a conflict
  secrets     \* clients whose credentials are in the secret store

locks == <<mutex, flock>>
node  == <<expect, confirmed, refused>>
vars  == <<cur, prev, onDisk, call, acked, faults,
           mutex, flock, hnd, rt, drift, expect, confirmed, refused, secrets>>

Handlers == Writers \cup Repairs
HandlerPCs == {"idle", "flock", "apply", "saving", "rollback", "repair"}
Idle == [pc |-> "idle", change |-> Genesis, base |-> <<>>, expected |-> 0]

Fails(kind) == kind \in FaultKinds /\ Fault

HndAt(w, pc) == hnd[w].pc = pc
Become(w, pc) == hnd' = [hnd EXCEPT ![w].pc = pc]

Finish(w) == hnd' = [hnd EXCEPT ![w] = Idle]
Release(w) ==
  /\ mutex' = IF mutex = w THEN Nobody ELSE mutex
  /\ flock' = IF flock = w THEN Nobody ELSE flock

Hang(w) == call' = [call EXCEPT ![w] = NoCall]

-----------------------------------------------------------------------------
(* Local mutations: mutateResponse and applyPreparedMutation               *)

(* A CLI planned the change at some generation (0: any) and sends it; the  *)
(* goroutine gets the mutex.                                               *)
LocalLock(w, c, expected) ==
  /\ HndAt(w, "idle") /\ mutex = Nobody
  /\ c \notin ToSet(cur)
  /\ mutex' = w
  /\ hnd' = [hnd EXCEPT ![w] =
       [pc |-> "flock", change |-> c, base |-> <<>>, expected |-> expected]]
  /\ UNCHANGED <<storeVars, flock, rt, drift, node, secrets>>

(* mutation_busy: the flock is not waited for.                             *)
LocalBusy(w) ==
  /\ HndAt(w, "flock") /\ flock # Nobody
  /\ Finish(w) /\ Release(w)
  /\ UNCHANGED <<storeVars, rt, drift, node, secrets>>

LocalLoad(w) ==
  /\ HndAt(w, "flock") /\ flock = Nobody
  /\ hnd[w].expected \in {0, Generation(cur)}
  /\ flock' = w
  /\ hnd' = [hnd EXCEPT ![w].pc = "apply", ![w].base = cur]
  /\ UNCHANGED <<storeVars, mutex, rt, drift, node, secrets>>

(* Variant: the early return does not unlock.                              *)
LocalConflictKeepsLock(w) ==
  /\ HndAt(w, "flock") /\ flock = Nobody
  /\ hnd[w].expected \notin {0, Generation(cur)}
  /\ Finish(w)
  /\ UNCHANGED <<storeVars, locks, rt, drift, node, secrets>>

LocalConflict(w) ==
  /\ HndAt(w, "flock") /\ flock = Nobody
  /\ hnd[w].expected \notin {0, Generation(cur)}
  /\ Finish(w) /\ Release(w)
  /\ UNCHANGED <<storeVars, rt, drift, node, secrets>>

(* The runtime is activated first, then the state is committed.            *)
LocalApply(w) ==
  /\ HndAt(w, "apply")
  /\ rt' = rt \cup {hnd[w].change}
  /\ CallSave(w, hnd[w].base, hnd[w].change)
  /\ Become(w, "saving")
  /\ UNCHANGED <<files, acked, faults, locks, drift, node, secrets>>

(* runtime_apply_failed: Apply has restored what it touched.               *)
LocalApplyFails(w) ==
  /\ HndAt(w, "apply")
  /\ Fails("runtime")
  /\ Finish(w) /\ Release(w)
  /\ UNCHANGED <<files, call, acked, rt, drift, node, secrets>>

LocalSaved(w) ==
  /\ HndAt(w, "saving") /\ At(w, "ok") /\ w \in Locals
  /\ Hang(w) /\ Finish(w) /\ Release(w)
  /\ UNCHANGED <<files, acked, faults, rt, drift, node, secrets>>

(* Variant: every failed save is rolled back, without looking at the file. *)
LocalSaveFailedBlind(w) ==
  /\ HndAt(w, "saving") /\ w \in Locals
  /\ call[w].pc \in {"conflict", "error"}
  /\ Hang(w)
  /\ Become(w, "rollback") /\ UNCHANGED <<locks, drift>>
  /\ UNCHANGED <<files, acked, faults, rt, node, secrets>>

(* A failed save is looked up: the candidate is there and stays; the old   *)
(* state is there and the runtime is rolled back; or it is ambiguous, and  *)
(* the runtime is left on the candidate and the caller told so.            *)
LocalSaveFailed(w) ==
  /\ HndAt(w, "saving") /\ w \in Locals
  /\ call[w].pc \in {"conflict", "error"}
  /\ Hang(w)
  /\ \/ /\ cur = hnd[w].base
        /\ Become(w, "rollback") /\ UNCHANGED <<locks, drift>>
     \/ /\ cur # hnd[w].base
        /\ drift' = (drift \/ cur # call[w].cand)
        /\ Finish(w) /\ Release(w)
  /\ UNCHANGED <<files, acked, faults, rt, node, secrets>>

LocalRollback(w) ==
  /\ HndAt(w, "rollback")
  /\ \/ rt' = rt \ {hnd[w].change} /\ UNCHANGED <<faults, drift>>
     \/ Fails("runtime") /\ drift' = TRUE /\ UNCHANGED rt
  /\ Finish(w) /\ Release(w)
  /\ UNCHANGED <<files, call, acked, node, secrets>>

-----------------------------------------------------------------------------
(* Node RPC mutations: HandleRPC                                           *)

(* The node persists a request with the generation it knows and sends it.  *)
Issue(r, generation) ==
  /\ expect[r] = 0 /\ r \notin ToSet(cur)
  /\ expect' = [expect EXCEPT ![r] = generation]
  /\ UNCHANGED <<storeVars, locks, hnd, rt, drift, confirmed, refused, secrets>>

(* A node asks again, with the same request, until it has a definitive     *)
(* answer; a delayed duplicate may arrive even later.                      *)
Outstanding(r) == expect[r] > 0 /\ r \notin confirmed \cup refused

(* PruneIdempotencyRecords on the history in state: of the node's requests *)
(* the youngest MaxRecords, and of those the ones young enough.            *)
History(state, from) == {k \in from .. Len(state) : state[k] \in Requests}
Retained(state, n) ==
  {state[i] : i \in {j \in DOMAIN state : /\ state[j] \in Requests
                                        /\ Cardinality(History(state, j)) <= n}}
MayFind(r) == \E n \in 0 .. MaxRecords : r \in Retained(cur, n)
MayMiss(r) == \E n \in 0 .. MaxRecords : r \notin Retained(cur, n)

Serve(w, r) == HndAt(w, "idle") /\ mutex = Nobody /\ expect[r] > 0

Answer(w, told) ==
  /\ Finish(w) /\ Release(w)
  /\ UNCHANGED <<storeVars, rt, drift, expect, secrets>>
  /\ told

(* A retained record answers a retry.                                      *)
RpcReplay(w, r) ==
  /\ Serve(w, r) /\ MayFind(r)
  /\ Answer(w, confirmed' = confirmed \cup {r} /\ UNCHANGED refused)

(* Variant: an evicted request is dispatched whatever generation it names. *)
RpcDispatchEvicted(w, r) ==
  /\ Serve(w, r) /\ MayMiss(r)
  /\ mutex' = w
  /\ hnd' = [hnd EXCEPT ![w] =
       [pc |-> "saving", change |-> r, base |-> cur, expected |-> expect[r]]]
  /\ CallSave(w, cur, r)
  /\ UNCHANGED <<files, acked, faults, flock, rt, drift, node, secrets>>

(* Variant: load, dispatch and save are not one critical section.          *)
RpcDispatchUnlocked(w, r) ==
  /\ Serve(w, r) /\ MayMiss(r)
  /\ expect[r] = Generation(cur)
  /\ hnd' = [hnd EXCEPT ![w] =
       [pc |-> "saving", change |-> r, base |-> cur, expected |-> expect[r]]]
  /\ CallSave(w, cur, r)
  /\ UNCHANGED <<files, acked, faults, locks, rt, drift, node, secrets>>

(* Otherwise the expected generation decides.  The current one is          *)
(* dispatched: candidate, idempotency record and Save.                     *)
RpcDispatch(w, r) ==
  /\ Serve(w, r) /\ MayMiss(r)
  /\ expect[r] = Generation(cur)
  /\ mutex' = w
  /\ hnd' = [hnd EXCEPT ![w] =
       [pc |-> "saving", change |-> r, base |-> cur, expected |-> expect[r]]]
  /\ CallSave(w, cur, r)
  /\ UNCHANGED <<files, acked, faults, flock, rt, drift, node, secrets>>

(* Variant: a request that is not retained is taken for one that was done. *)
RpcReconcileAssumed(w, r) ==
  /\ Serve(w, r) /\ MayMiss(r)
  /\ expect[r] < Generation(cur)
  /\ Answer(w, confirmed' = confirmed \cup {r} /\ UNCHANGED refused)

(* An older one is reconciled (reconcileEvicted): the effect is looked up, *)
(* never replayed, and reported present, or absent or unprovable.          *)
RpcReconcile(w, r) ==
  /\ Serve(w, r) /\ MayMiss(r)
  /\ expect[r] < Generation(cur)
  /\ Answer(w, \/ r \in ToSet(cur) /\ confirmed' = confirmed \cup {r}
                                   /\ UNCHANGED refused
               \/ refused' = refused \cup {r} /\ UNCHANGED confirmed)

(* A newer one is a conflict.                                              *)
RpcAhead(w, r) ==
  /\ Serve(w, r) /\ MayMiss(r)
  /\ expect[r] > Generation(cur)
  /\ Answer(w, refused' = refused \cup {r} /\ UNCHANGED confirmed)

(* The save has ended.  A conflict is definitive; after any other error    *)
(* the node does not know, and asks again with the same request ID.        *)
RpcSaved(w) ==
  /\ HndAt(w, "saving") /\ w \in Rpcs
  /\ call[w].pc \in {"ok", "conflict", "error"}
  /\ confirmed' = IF At(w, "ok") THEN confirmed \cup {hnd[w].change} ELSE confirmed
  /\ refused' = IF At(w, "conflict") THEN refused \cup {hnd[w].change} ELSE refused
  /\ Hang(w) /\ Finish(w) /\ Release(w)
  /\ UNCHANGED <<files, acked, faults, rt, drift, expect, secrets>>

(* As RpcSaved, but the answer is lost on the way to the node.             *)
RpcAnswerLost(w) ==
  /\ HndAt(w, "saving") /\ w \in Rpcs
  /\ call[w].pc \in {"ok", "conflict"}
  /\ Fails("answer")
  /\ Hang(w) /\ Finish(w) /\ Release(w)
  /\ UNCHANGED <<files, acked, rt, drift, node, secrets>>

-----------------------------------------------------------------------------
(* Processes beside the daemon                                             *)

(* `client add` loads the state its plan was made for, stages the          *)
(* credentials of a new client ID and saves, under neither lock.           *)
CliLoad(w, c) ==
  /\ HndAt(w, "idle") /\ c \notin ToSet(cur) \cup secrets
  /\ secrets' = secrets \cup {c}
  /\ hnd' = [hnd EXCEPT ![w] =
       [pc |-> "saving", change |-> c, base |-> cur, expected |-> 0]]
  /\ CallSave(w, cur, c)
  /\ UNCHANGED <<files, acked, faults, locks, rt, drift, node>>

(* Variant: every failed save deletes the staged credentials.              *)
CliSavedBlind(w) ==
  /\ HndAt(w, "saving") /\ w \in Clis
  /\ call[w].pc \in {"ok", "conflict", "error"}
  /\ secrets' = IF At(w, "ok") THEN secrets ELSE secrets \ {hnd[w].change}
  /\ Hang(w) /\ Finish(w)
  /\ UNCHANGED <<files, acked, faults, locks, rt, drift, node>>

(* A failed save is looked up: the credentials go only if the client is    *)
(* not in the state.                                                       *)
CliSaved(w) ==
  /\ HndAt(w, "saving") /\ w \in Clis
  /\ call[w].pc \in {"ok", "conflict", "error"}
  /\ secrets' = IF At(w, "ok") \/ hnd[w].change \in ToSet(cur)
                THEN secrets ELSE secrets \ {hnd[w].change}
  /\ Hang(w) /\ Finish(w)
  /\ UNCHANGED <<files, acked, faults, locks, rt, drift, node>>

(* The bootstrap repair waits for the flock, checks that the state is the  *)
(* one it planned for, and activates the runtime of that state.            *)
RepairLock(w) ==
  /\ HndAt(w, "idle") /\ flock = Nobody
  /\ flock' = w
  /\ hnd' = [hnd EXCEPT ![w].pc = "repair", ![w].base = cur]
  /\ UNCHANGED <<storeVars, mutex, rt, drift, node, secrets>>

(* It reports success only if the state is still the same.                 *)
RepairDone(w) ==
  /\ HndAt(w, "repair")
  /\ Finish(w) /\ Release(w)
  /\ UNCHANGED <<storeVars, rt, drift, node, secrets>>

-----------------------------------------------------------------------------
(* Crashes                                                                 *)

Gone(ws) ==
  /\ call' = [w \in Writers |-> IF w \in ws THEN NoCall ELSE call[w]]
  /\ hnd' = [w \in Handlers |-> IF w \in ws THEN Idle ELSE hnd[w]]
  /\ mutex' = IF mutex \in ws THEN Nobody ELSE mutex
  /\ flock' = IF flock \in ws THEN Nobody ELSE flock

LocalInFlight == \E w \in Locals : hnd[w].pc \in {"apply", "saving", "rollback"}

(* A local mutation in flight leaves the runtime with or without its       *)
(* change, and its caller without an answer.                               *)
DaemonCrash ==
  /\ Fails("daemon")
  /\ Gone(Locals \cup Rpcs)
  /\ drift' = (drift \/ LocalInFlight)
  /\ rt' \in {rt, rt \cup {hnd[w].change : w \in {v \in Locals : HndAt(v, "apply")}}}
  /\ UNCHANGED <<files, acked, node, secrets>>

CliCrash(w) ==
  /\ ~HndAt(w, "idle")
  /\ Fails("cli")
  /\ Gone({w})
  /\ UNCHANGED <<files, acked, rt, drift, node, secrets>>

PowerLoss ==
  /\ Fails("power")
  /\ AfterPowerLoss
  /\ Gone(Handlers)
  /\ drift' = TRUE
  /\ UNCHANGED <<acked, rt, node, secrets>>

-----------------------------------------------------------------------------
Init ==
  /\ InitStore(<<Genesis>>)
  /\ mutex = Nobody /\ flock = Nobody
  /\ hnd = [w \in Handlers |-> Idle]
  /\ rt = {} /\ drift = FALSE
  /\ expect = [r \in Requests |-> 0]
  /\ confirmed = {} /\ refused = {} /\ secrets = {}

SavingStep(w) ==
  SaveStep(w) /\ UNCHANGED <<locks, hnd, rt, drift, node, secrets>>

LocalStep(w) ==
  \/ LocalBusy(w) \/ LocalLoad(w) \/ LocalConflict(w)
  \/ LocalApply(w) \/ LocalApplyFails(w)
  \/ LocalSaved(w) \/ LocalSaveFailed(w) \/ LocalRollback(w)

RpcServes(w, r) ==
  \/ RpcReplay(w, r) \/ RpcDispatch(w, r)
  \/ RpcReconcile(w, r) \/ RpcAhead(w, r)

Next ==
  \/ \E w \in Writers : SavingStep(w)
  \/ \E w \in Locals :
       \/ LocalStep(w)
       \/ \E c \in LocalChanges, g \in 0 .. Generation(cur) : LocalLock(w, c, g)
  \/ \E r \in Requests, g \in 1 .. Generation(cur) : Issue(r, g)
  \/ \E w \in Rpcs :
       \/ \E r \in Requests : RpcServes(w, r)
       \/ RpcSaved(w) \/ RpcAnswerLost(w)
  \/ \E w \in Clis : (\E c \in CliChanges : CliLoad(w, c)) \/ CliSaved(w)
  \/ \E w \in Repairs : RepairLock(w) \/ RepairDone(w)
  \/ \E w \in Clis \cup Repairs : CliCrash(w)
  \/ DaemonCrash \/ PowerLoss

Spec == Init /\ [][Next]_vars

(* Every process that has begun a step runs on; sync.Mutex serves waiters  *)
(* in turn once they have waited, and a node asks again until it has a     *)
(* definitive answer, so a request is served if it could be over and over. *)
Fairness ==
  /\ \A w \in Writers : WF_vars(SavingStep(w))
  /\ \A w \in Locals : WF_vars(LocalStep(w))
  /\ \A w \in Rpcs : WF_vars(RpcSaved(w))
  /\ \A r \in Requests : SF_vars(Outstanding(r) /\ \E w \in Rpcs : RpcServes(w, r))
  /\ \A w \in Clis : WF_vars(CliSaved(w))
  /\ \A w \in Repairs : WF_vars(RepairDone(w))

FairSpec == Spec /\ Fairness

-----------------------------------------------------------------------------
(* Properties                                                              *)

TypeOK ==
  /\ StoreTypeOK
  /\ mutex \in Locals \cup Rpcs \cup {Nobody}
  /\ flock \in Locals \cup Repairs \cup {Nobody}
  /\ hnd \in [Handlers -> [pc : HandlerPCs, change : Changes,
                           base : Seq(Changes), expected : Nat]]
  /\ rt \subseteq LocalChanges /\ drift \in BOOLEAN
  /\ expect \in [Requests -> Nat]
  /\ confirmed \subseteq Requests /\ refused \subseteq Requests
  /\ secrets \subseteq CliChanges

(* When no local mutation is in flight, the runtime runs exactly the local *)
(* changes of the committed state, unless a crash or a failed rollback has *)
(* been admitted: whatever the save answers, the look at the file decides  *)
(* rightly between keeping the runtime and rolling it back.                *)
RuntimeMatchesState ==
  ~drift /\ ~LocalInFlight => rt = ToSet(cur) \cap LocalChanges

(* The state of the daemon is well-formed and its runtime follows it.      *)
RuntimeSound == TypeOK /\ RuntimeMatchesState

(* However often a request arrives, before or after its record was pruned, *)
(* across crashes and power losses, its effect is in the state once.       *)
AtMostOnce ==
  \A r \in Requests : Cardinality({i \in DOMAIN cur : cur[i] = r}) <= 1

(* What a node has been told is done is in the state, and stays there.     *)
ConfirmedStays == confirmed \subseteq ToSet(cur)

(* A request whose node has been told of a conflict is not applied later,  *)
(* though duplicates of it may still arrive.                               *)
RefusedStaysOut ==
  [][\A r \in refused : r \in ToSet(cur') => r \in ToSet(cur)]_vars

(* Every client of the state has its credentials, whatever the save of     *)
(* `client add` answered.                                                  *)
ClientHasCredentials == ToSet(cur) \cap CliChanges \subseteq secrets

(* What holds beside one client command and a crash at any point.  The     *)
(* credentials do not outlast a failed save followed by a power loss.      *)
CrashSound == AtMostOnce /\ ClientHasCredentials

(* Every request a node keeps sending is answered definitively.            *)
RequestsSettle ==
  \A r \in Requests : expect[r] > 0 ~> r \in confirmed \cup refused
=============================================================================
