---------------------------- MODULE MCStateStore ----------------------------
(* Instances for TLC of the state store, with its refinement of            *)
(* AtomicRegister, of the commands that copy, replace and remove the       *)
(* gateway's data, and of the change of the handshake host.  The latter    *)
(* two use the store as the register it is shown to implement, so the      *)
(* machines share no variable: scope says which of them a behaviour is     *)
(* about.                                                                  *)
EXTENDS StoreCallers, GatewayData, HandshakeHost, TLC

VARIABLE scope

\* A machine that takes no step starts in one of its initial states.
MCInit ==
  /\ scope \in {"store", "data", "host"}
  /\ CallersInit /\ DataInit /\ HostInit
  /\ scope # "data" => binary /\ ids = Clients

MCNext ==
  /\ UNCHANGED scope
  /\ \/ scope = "store" /\ CallersNext /\ UNCHANGED <<dataVars, hostVars>>
     \/ scope = "data" /\ DataNext /\ UNCHANGED <<storeVars, hostVars>>
     \/ scope = "host" /\ HostNext /\ UNCHANGED <<storeVars, dataVars>>

MCSpec == MCInit /\ [][MCNext]_<<scope, storeVars, dataVars, hostVars>>

\* The processes of `vpnctl transport host` are interchangeable.
ProcSymmetry == Permutations(HostProcs)

Register == INSTANCE AtomicRegister WITH value <- cur

(* Under exclusive writers the four files and two renames behave like one  *)
(* atomic register.                                                        *)
ImplementsRegister == Register!Spec
=============================================================================
