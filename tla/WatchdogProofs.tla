--------------------------- MODULE WatchdogProofs ---------------------------
(* Proofs about the lockout watchdog, for any number of transactions, any  *)
(* window and any fault budget, with no assumption on the environment.     *)
EXTENDS Watchdog, TLAPS

(* An update of a function leaves its other arguments alone.               *)
LEMMA ExceptElsewhere ==
  ASSUME NEW f, NEW a \in DOMAIN f, NEW b \in DOMAIN f, a # b, NEW v
  PROVE  [f EXCEPT ![a] = v][b] = f[b]
OBVIOUS

(* A restore run ends with the marker, or fails.                           *)
LEMMA RunEnds ==
  ASSUME NEW t \in Txns, RestoreSysctlsAndMark(t)
  PROVE  /\ \/ /\ svc' = [svc EXCEPT ![t] = "idle"]
               /\ rolledBack' = [rolledBack EXCEPT ![t] = TRUE]
            \/ svc' = [svc EXCEPT ![t] = "failed"] /\ rolledBack' = rolledBack
         /\ svc[t] = "sysctls" /\ committed' = committed
         /\ durable' = durable /\ ipc' = ipc /\ cur' = cur
BY DEF RestoreSysctlsAndMark, installerVars

LEMMA RunMarks ==
  ASSUME TypeOK, NEW t \in Txns, RestoreSysctlsAndMark(t), NEW u \in Txns
  PROVE  /\ u # t => svc'[u] = svc[u] /\ rolledBack'[u] = rolledBack[u]
         /\ svc'[t] \in {"idle", "failed"}
         /\ svc'[t] = "idle" => rolledBack'[t]
         /\ rolledBack[t] => rolledBack'[t]
<1>1. svc \in [Txns -> ServicePCs] /\ rolledBack \in [Txns -> BOOLEAN]
  BY DEF TypeOK
<1>2. CASE /\ svc' = [svc EXCEPT ![t] = "idle"]
           /\ rolledBack' = [rolledBack EXCEPT ![t] = TRUE]
  BY <1>1, <1>2
<1>3. CASE svc' = [svc EXCEPT ![t] = "failed"] /\ rolledBack' = rolledBack
  BY <1>1, <1>3
<1> QED
  BY <1>2, <1>3, RunEnds

(* Every step keeps every variable in its type. *)
LEMMA TypeStep == TypeOK /\ [Next]_vars => TypeOK'
<1> USE WatchdogAssumptions DEF TypeOK, Networks, Planes, Configs, Kinds,
      InstallerPCs, ServicePCs, SessionSet, PriorNetwork
<1> SUFFICES ASSUME TypeOK, [Next]_vars PROVE TypeOK'
  OBVIOUS
<1> USE DEF Fault, NoFault, Note, Mishaps, clockVars, markerVars, systemdVars,
      installerVars, operatorVars
<1>1. ASSUME NEW k \in Kinds, NEW t \in Txns, Arm(k, t) PROVE TypeOK'
  BY <1>1 DEF Arm
<1>2. CASE CreateTransaction BY <1>2 DEF CreateTransaction
<1>3. CASE StartTimer BY <1>3 DEF StartTimer
<1>4. CASE ArmFails BY <1>4 DEF ArmFails
<1>5. CASE ActivateFirewall BY <1>5 DEF ActivateFirewall
<1>6. CASE Provision BY <1>6 DEF Provision, RepairSnapshotMatches
<1>7. CASE ActivateSysctls BY <1>7 DEF ActivateSysctls
<1>8. CASE VerifyAndPublish BY <1>8 DEF VerifyAndPublish
<1>9. CASE ReadBoundary BY <1>9 DEF ReadBoundary
<1>10. CASE MarkActivated
  <2>1. CASE ipc' = "fail"
    <3>1. UNCHANGED <<activated, actBoot, actAt>>
      BY <1>10, <2>1 DEF MarkActivated
    <3> QED BY <1>10, <2>1, <3>1 DEF MarkActivated
  <2>2. CASE ipc' # "fail"
    <3>1. /\ activated' = [activated EXCEPT ![cur] = TRUE]
          /\ actBoot' = [actBoot EXCEPT ![cur] = boot]
          /\ actAt' = [actAt EXCEPT ![cur] = bound]
          /\ ipc' = "finish"
      BY <1>10, <2>2 DEF MarkActivated
    <3> QED BY <1>10, <3>1 DEF MarkActivated
  <2> QED BY <2>1, <2>2
<1>11. CASE FinishInstall BY <1>11 DEF FinishInstall
<1>12. CASE StepFails BY <1>12 DEF StepFails
<1>13. CASE TriggerRollback
  BY <1>13 DEF TriggerRollback, ReadyAfterRollback
<1>14. CASE TriggerFails
  <2>1. /\ ipc' = "idle" /\ ready' \in BOOLEAN
        /\ UNCHANGED <<clockVars, net, blocks, mishaps, operatorVars, markerVars,
                       systemdVars, kind, cur, bound>>
    BY <1>14 DEF TriggerFails, ReadyAfterRollback
  <2>2. CASE Fault("systemctl") BY <2>1, <2>2
  <2>3. CASE NoFault BY <2>1, <2>3
  <2> QED BY <1>14, <2>2, <2>3 DEF TriggerFails
<1>15. CASE RollbackReturned BY <1>15 DEF RollbackReturned
<1>16. CASE StopTimerAfterRollback
  <2>1. CASE timerOn' = [timerOn EXCEPT ![cur] = FALSE] /\ NoFault
    BY <1>16, <2>1 DEF StopTimerAfterRollback
  <2>2. CASE UNCHANGED timerOn /\ Fault("systemctl")
    BY <1>16, <2>2 DEF StopTimerAfterRollback
  <2> QED BY <1>16, <2>1, <2>2 DEF StopTimerAfterRollback
<1>17. CASE CrashInstaller BY <1>17 DEF CrashInstaller
<1>18. ASSUME NEW t \in Txns, TimerElapses(t) PROVE TypeOK'
  BY <1>18 DEF TimerElapses
<1>19. ASSUME NEW t \in Txns, BeginRollback(t) PROVE TypeOK'
  BY <1>19 DEF BeginRollback
<1>20. ASSUME NEW t \in Txns, RestoreFirewall(t) PROVE TypeOK'
  <2>1. CASE NoFault /\ UNCHANGED <<svcErr, mishaps>>
             /\ net' = [net EXCEPT !["firewall"] = snapshot[t]["firewall"]]
    BY <1>20, <2>1 DEF RestoreFirewall
  <2>2. CASE Fault("restore") /\ UNCHANGED net /\ mishaps' = mishaps \cup {"half"}
             /\ svcErr' = [svcErr EXCEPT ![t] = TRUE]
    BY <1>20, <2>2 DEF RestoreFirewall
  <2> QED BY <1>20, <2>1, <2>2 DEF RestoreFirewall
<1>21. ASSUME NEW t \in Txns, RestoreSysctlsAndMark(t) PROVE TypeOK'
  <2>0. UNCHANGED <<clockVars, blocks, operatorVars, durable, created,
                    snapshot, activated, actBoot, actAt, committed, proof,
                    timerOn, due, svcErr, installerVars>>
    BY <1>21 DEF RestoreSysctlsAndMark
  <2>1. CASE svc'[t] = "idle"
    <3>1. /\ net' = [net EXCEPT !["sysctls"] = snapshot[t]["sysctls"]]
          /\ svc' = [svc EXCEPT ![t] = "idle"] /\ NoFault
          /\ rolledBack' = [rolledBack EXCEPT ![t] = TRUE]
          /\ UNCHANGED mishaps
      BY <1>21, <2>1 DEF RestoreSysctlsAndMark
    <3>2. net' \in Networks /\ faults' \in Nat /\ mishaps' \subseteq Mishaps
      BY <3>1
    <3>3. svc' \in [Txns -> ServicePCs] /\ rolledBack' \in [Txns -> BOOLEAN]
      BY <3>1
    <3> QED BY <2>0, <3>2, <3>3
  <2>2. CASE svc'[t] # "idle"
    <3>1. /\ svc' = [svc EXCEPT ![t] = "failed"] /\ UNCHANGED rolledBack
          /\ net' = net \/ net' = [net EXCEPT !["sysctls"] = snapshot[t]["sysctls"]]
          /\ faults' = faults \/ faults' = faults + 1
          /\ mishaps' = mishaps \/ mishaps' = mishaps \cup {"half"}
      BY <1>21, <2>2 DEF RestoreSysctlsAndMark
    <3>3. net' \in Networks
      BY <3>1
    <3>4. faults' \in Nat
      BY <1>21 DEF RestoreSysctlsAndMark
    <3>5. mishaps' \subseteq Mishaps
      <4>1. mishaps' = mishaps \/ mishaps' = mishaps \cup {"half"}
        BY <3>1
      <4> QED BY <4>1
    <3>2. svc' \in [Txns -> ServicePCs] /\ rolledBack' \in [Txns -> BOOLEAN]
      BY <3>1
    <3> QED BY <2>0, <3>2, <3>3, <3>4, <3>5
  <2> QED BY <2>1, <2>2
<1>22. ASSUME NEW t \in Txns, RestartService(t) PROVE TypeOK'
  BY <1>22 DEF RestartService
<1>23. ASSUME NEW t \in Txns, StopCommittedTimer(t) PROVE TypeOK'
  <2>1. CASE timerOn' = [timerOn EXCEPT ![t] = FALSE] /\ NoFault
    BY <1>23, <2>1 DEF StopCommittedTimer
  <2>2. CASE UNCHANGED timerOn /\ Fault("systemctl")
    <3>1. /\ unstopped' \subseteq Txns /\ faults' \in Nat
          /\ UNCHANGED <<clockVars, net, blocks, mishaps, sessions, markerVars,
                         systemdVars, installerVars>>
      BY <1>23, <2>2 DEF StopCommittedTimer
    <3> QED BY <3>1
  <2> QED BY <1>23, <2>1, <2>2 DEF StopCommittedTimer
<1>24. ASSUME NEW t \in Txns, NEW s \in sessions, Confirm(t, s)
       PROVE TypeOK'
  BY <1>24 DEF Confirm
<1>25. ASSUME NEW p \in Ports, Login(p) PROVE TypeOK'
  BY <1>25 DEF Login
<1>26. CASE Tick BY <1>26 DEF Tick
<1>27. CASE Reboot BY <1>27 DEF Reboot
<1>28. CASE UNCHANGED vars BY <1>28 DEF vars
<1> QED
  BY <1>1, <1>2, <1>3, <1>4, <1>5, <1>6, <1>7, <1>8, <1>9, <1>10, <1>11,
     <1>12, <1>13, <1>14, <1>15, <1>16, <1>17, <1>18, <1>19, <1>20, <1>21,
     <1>22, <1>23, <1>24, <1>25, <1>26, <1>27, <1>28 DEF Next

(* Every variable keeps its type.  The installer's transaction is defined  *)
(* whenever the installer runs, which is what makes cur a legal index.     *)
THEOREM TypeCorrect == Spec => []TypeOK
<1>1. Init => TypeOK
  <2> USE WatchdogAssumptions DEF TypeOK, Networks, Planes, Configs, Kinds,
        InstallerPCs, ServicePCs, SessionSet, PriorNetwork
  <2> SUFFICES ASSUME Init PROVE TypeOK
    OBVIOUS
  <2>1. /\ sessions \subseteq SessionSet /\ created \in Seq(Txns)
        /\ snapshot \in [Txns -> Networks] /\ net \in Networks
    BY DEF Init
  <2> QED BY <2>1 DEF Init
<1> QED BY <1>1, TypeStep, PTL DEF Spec

(* Only the rollback service and Confirm write terminal markers, and each  *)
(* does so under the transaction's lock.                                   *)
LEMMA MarkerStep ==
  ASSUME TypeOK, MarkerInv, [Next]_vars
  PROVE  MarkerInv'
<1> USE DEF TypeOK, MarkerInv, LockHeldUndecided, TerminalExclusive, Holding,
      ServicePCs, markerVars, systemdVars
<1>1. CASE UNCHANGED <<svc, committed, rolledBack>>
  BY <1>1
<1>2. CASE TriggerRollback
  BY <1>2 DEF TriggerRollback
<1>3. ASSUME NEW t \in Txns, TimerElapses(t) PROVE MarkerInv'
  BY <1>3 DEF TimerElapses
<1>4. ASSUME NEW t \in Txns, BeginRollback(t) PROVE MarkerInv'
  BY <1>4 DEF BeginRollback
<1>5. ASSUME NEW t \in Txns, RestoreFirewall(t) PROVE MarkerInv'
  BY <1>5 DEF RestoreFirewall
<1>6. ASSUME NEW t \in Txns, RestoreSysctlsAndMark(t) PROVE MarkerInv'
  <2>1. svc[t] = "sysctls" /\ committed' = committed
    BY <1>6, RunEnds
  <2> QED
    BY <1>6, <2>1, RunMarks
<1>7. ASSUME NEW t \in Txns, RestartService(t) PROVE MarkerInv'
  BY <1>7 DEF RestartService
<1>8. ASSUME NEW t \in Txns, NEW s \in sessions, Confirm(t, s)
      PROVE MarkerInv'
  BY <1>8 DEF Confirm, LockFree
<1>9. CASE Reboot
  BY <1>9 DEF Reboot
<1> QED
  BY <1>1, <1>2, <1>3, <1>4, <1>5, <1>6, <1>7, <1>8, <1>9
     DEF Next, vars, Arm, CreateTransaction, StartTimer, ArmFails,
         ActivateFirewall, ActivateSysctls,
         VerifyAndPublish, ReadBoundary, MarkActivated, FinishInstall, Provision,
         StepFails, TriggerFails, RollbackReturned, StopTimerAfterRollback,
         CrashInstaller, StopCommittedTimer, Login, Tick

(* committed.json and rolled-back.json never coexist, whatever the         *)
(* installer, systemd, the operator and the host do, in any order.         *)
THEOREM TerminalMarkersExclusive == Spec => []TerminalExclusive
<1>1. Init => MarkerInv
  BY DEF Init, MarkerInv, LockHeldUndecided, TerminalExclusive, Holding
<1>2. TypeOK /\ MarkerInv /\ [Next]_vars => MarkerInv'
  BY MarkerStep
<1>3. MarkerInv => TerminalExclusive
  BY DEF MarkerInv
<1> QED BY <1>1, <1>2, <1>3, TypeCorrect, PTL DEF Spec

(* A mishap is never forgotten.                                            *)
LEMMA MishapsGrow ==
  ASSUME TypeOK, [Next]_vars
  PROVE  mishaps \subseteq mishaps'
BY DEF Next, vars, Note, Arm, CreateTransaction, StartTimer, ArmFails, Provision,
         ActivateFirewall, ActivateSysctls, VerifyAndPublish, ReadBoundary,
         MarkActivated, FinishInstall, StepFails, TriggerRollback,
         TriggerFails, RollbackReturned, StopTimerAfterRollback,
         CrashInstaller, TimerElapses, BeginRollback, RestoreFirewall,
         RestoreSysctlsAndMark, RestartService, StopCommittedTimer, Confirm,
         Login, Tick, Reboot

(* As long as no two undecided transactions overlap, every step keeps the  *)
(* installer and its timer together.                                       *)
LEMMA SerialStep ==
  ASSUME TypeOK, TypeOK', SerialInv, MarkerInv', Serial', [Next]_vars
  PROVE  SerialInv'
<1> USE WatchdogAssumptions DEF TypeOK, SerialInv, MarkerInv,
      LockHeldUndecided, TerminalExclusive, Holding, Decided,
      Fresh, UnreadyFresh, StartFresh,
      BusyGuarded, OthersDecided, UnstoppedCommitted, StopDecided,
      Live, InstallerBusy, clockVars, markerVars, systemdVars,
      installerVars, operatorVars
<1>1. ASSUME NEW k \in Kinds, NEW t \in Txns, Arm(k, t) PROVE SerialInv'
  <2>2. UnreadyFresh' BY <1>1 DEF Arm
  <2>3. StartFresh' BY <1>1 DEF Arm
  <2>4. BusyGuarded' BY <1>1 DEF Arm
  <2>5. OthersDecided' BY <1>1 DEF Arm, Note, Serial
  <2>6. UnstoppedCommitted' BY <1>1 DEF Arm
  <2>7. StopDecided' BY <1>1 DEF Arm
  <2> QED BY <2>2, <2>3, <2>4, <2>5, <2>6, <2>7
<1>2. CASE CreateTransaction
  <2>2. UnreadyFresh' BY <1>2 DEF CreateTransaction
  <2>3. StartFresh' BY <1>2 DEF CreateTransaction
  <2>4. BusyGuarded' BY <1>2 DEF CreateTransaction
  <2>5. OthersDecided' BY <1>2 DEF CreateTransaction
  <2>6. UnstoppedCommitted' BY <1>2 DEF CreateTransaction
  <2>7. StopDecided' BY <1>2 DEF CreateTransaction
  <2> QED BY <2>2, <2>3, <2>4, <2>5, <2>6, <2>7
<1>3. CASE StartTimer BY <1>3 DEF StartTimer
<1>4. CASE ArmFails BY <1>4 DEF ArmFails
<1>5. CASE ActivateFirewall BY <1>5 DEF ActivateFirewall
<1>6. CASE Provision BY <1>6 DEF Provision, RepairSnapshotMatches
<1>7. CASE ActivateSysctls BY <1>7 DEF ActivateSysctls
<1>8. CASE VerifyAndPublish BY <1>8 DEF VerifyAndPublish
<1>9. CASE ReadBoundary BY <1>9 DEF ReadBoundary
<1>10. CASE MarkActivated
  <2>2. UnreadyFresh' BY <1>10 DEF MarkActivated, LockFree
  <2>3. StartFresh' BY <1>10 DEF MarkActivated, LockFree
  <2>4. BusyGuarded' BY <1>10 DEF MarkActivated, LockFree
  <2>5. OthersDecided' BY <1>10 DEF MarkActivated, LockFree
  <2>6. UnstoppedCommitted' BY <1>10 DEF MarkActivated, LockFree
  <2>7. StopDecided' BY <1>10 DEF MarkActivated, LockFree
  <2> QED BY <2>2, <2>3, <2>4, <2>5, <2>6, <2>7
<1>11. CASE FinishInstall BY <1>11 DEF FinishInstall
<1>12. CASE StepFails BY <1>12 DEF StepFails
<1>13. CASE TriggerRollback
  <2>2. UnreadyFresh' BY <1>13 DEF TriggerRollback
  <2>3. StartFresh' BY <1>13 DEF TriggerRollback
  <2>4. BusyGuarded' BY <1>13 DEF TriggerRollback
  <2>5. OthersDecided' BY <1>13 DEF TriggerRollback
  <2>6. UnstoppedCommitted' BY <1>13 DEF TriggerRollback
  <2>7. StopDecided' BY <1>13 DEF TriggerRollback
  <2> QED BY <2>2, <2>3, <2>4, <2>5, <2>6, <2>7
<1>14. CASE TriggerFails BY <1>14 DEF TriggerFails
<1>15. CASE RollbackReturned BY <1>15 DEF RollbackReturned
<1>16. CASE StopTimerAfterRollback BY <1>16 DEF StopTimerAfterRollback
<1>17. CASE CrashInstaller BY <1>17 DEF CrashInstaller
<1>18. CASE Tick BY <1>18 DEF Tick
<1>19. CASE Reboot BY <1>19 DEF Reboot
<1>20. ASSUME NEW t \in Txns, TimerElapses(t) PROVE SerialInv'
  <2>2. UnreadyFresh' BY <1>20 DEF TimerElapses
  <2>3. StartFresh' BY <1>20 DEF TimerElapses
  <2>4. BusyGuarded' BY <1>20 DEF TimerElapses
  <2>5. OthersDecided' BY <1>20 DEF TimerElapses
  <2>6. UnstoppedCommitted' BY <1>20 DEF TimerElapses
  <2>7. StopDecided' BY <1>20 DEF TimerElapses
  <2> QED BY <2>2, <2>3, <2>4, <2>5, <2>6, <2>7
<1>21. ASSUME NEW t \in Txns, BeginRollback(t) PROVE SerialInv'
  <2>2. UnreadyFresh' BY <1>21 DEF BeginRollback
  <2>3. StartFresh' BY <1>21 DEF BeginRollback
  <2>4. BusyGuarded' BY <1>21 DEF BeginRollback
  <2>5. OthersDecided' BY <1>21 DEF BeginRollback
  <2>6. UnstoppedCommitted' BY <1>21 DEF BeginRollback
  <2>7. StopDecided' BY <1>21 DEF BeginRollback
  <2> QED BY <2>2, <2>3, <2>4, <2>5, <2>6, <2>7
<1>22. ASSUME NEW t \in Txns, RestoreFirewall(t) PROVE SerialInv'
  <2>2. UnreadyFresh' BY <1>22 DEF RestoreFirewall
  <2>3. StartFresh' BY <1>22 DEF RestoreFirewall
  <2>4. BusyGuarded' BY <1>22 DEF RestoreFirewall
  <2>5. OthersDecided' BY <1>22 DEF RestoreFirewall
  <2>6. UnstoppedCommitted' BY <1>22 DEF RestoreFirewall
  <2>7. StopDecided' BY <1>22 DEF RestoreFirewall
  <2> QED BY <2>2, <2>3, <2>4, <2>5, <2>6, <2>7
<1>23. ASSUME NEW t \in Txns, RestoreSysctlsAndMark(t) PROVE SerialInv'
  <2>2. UnreadyFresh' BY <1>23 DEF RestoreSysctlsAndMark
  <2>3. StartFresh' BY <1>23 DEF RestoreSysctlsAndMark
  <2>4. BusyGuarded' BY <1>23 DEF RestoreSysctlsAndMark
  <2>5. OthersDecided' BY <1>23 DEF RestoreSysctlsAndMark
  <2>6. UnstoppedCommitted' BY <1>23 DEF RestoreSysctlsAndMark
  <2>7. StopDecided'
    <3>1. /\ committed' = committed /\ durable' = durable /\ ipc' = ipc /\ cur' = cur
          /\ ipc \in {"await", "stop"} => cur \in Txns
      BY <1>23, RunEnds
    <3>2. ipc \in {"await", "stop"} =>
            /\ (svc[cur] # "idle" \/ rolledBack[cur] => svc'[cur] # "idle" \/ rolledBack'[cur])
            /\ rolledBack[cur] => rolledBack'[cur]
      <4> SUFFICES ASSUME ipc \in {"await", "stop"}
                   PROVE  /\ (svc[cur] # "idle" \/ rolledBack[cur] =>
                               svc'[cur] # "idle" \/ rolledBack'[cur])
                          /\ rolledBack[cur] => rolledBack'[cur]
        OBVIOUS
      <4>1. cur \in Txns
        BY <3>1
      <4>2. /\ cur # t => svc'[cur] = svc[cur] /\ rolledBack'[cur] = rolledBack[cur]
            /\ svc'[t] = "idle" => rolledBack'[t]
            /\ rolledBack[t] => rolledBack'[t]
        BY <1>23, <4>1, RunMarks
      <4> QED
        BY <4>2, Zenon
    <3> QED
      BY <3>1, <3>2
  <2> QED BY <2>2, <2>3, <2>4, <2>5, <2>6, <2>7
<1>24. ASSUME NEW t \in Txns, RestartService(t) PROVE SerialInv'
  <2>2. UnreadyFresh' BY <1>24 DEF RestartService
  <2>3. StartFresh' BY <1>24 DEF RestartService
  <2>4. BusyGuarded' BY <1>24 DEF RestartService
  <2>5. OthersDecided' BY <1>24 DEF RestartService
  <2>6. UnstoppedCommitted' BY <1>24 DEF RestartService
  <2>7. StopDecided' BY <1>24 DEF RestartService
  <2> QED BY <2>2, <2>3, <2>4, <2>5, <2>6, <2>7
<1>25. ASSUME NEW t \in Txns, StopCommittedTimer(t) PROVE SerialInv'
  <2>2. UnreadyFresh' BY <1>25 DEF StopCommittedTimer
  <2>3. StartFresh' BY <1>25 DEF StopCommittedTimer
  <2>4. BusyGuarded'
    <3>1. CASE ~InstallerBusy
      BY <1>25, <3>1 DEF StopCommittedTimer
    <3>2. CASE InstallerBusy
      <4>1. t # cur
        BY <1>25, <3>2 DEF StopCommittedTimer
      <4>2. \/ timerOn' = timerOn
            \/ timerOn' = [timerOn EXCEPT ![t] = FALSE]
        BY <1>25 DEF StopCommittedTimer
      <4>3. DOMAIN timerOn = Txns /\ cur \in Txns
        BY <3>2
      <4>4. timerOn'[cur] = timerOn[cur]
        <5>1. CASE timerOn' = timerOn BY <5>1, Zenon
        <5>2. CASE timerOn' = [timerOn EXCEPT ![t] = FALSE]
          BY <4>1, <4>3, <5>2, ExceptElsewhere
        <5> QED BY <4>2, <5>1, <5>2
      <4> QED BY <1>25, <3>2, <4>4 DEF StopCommittedTimer
    <3> QED BY <3>1, <3>2
  <2>5. OthersDecided' BY <1>25 DEF StopCommittedTimer
  <2>6. UnstoppedCommitted' BY <1>25 DEF StopCommittedTimer
  <2>7. StopDecided' BY <1>25 DEF StopCommittedTimer
  <2> QED BY <2>2, <2>3, <2>4, <2>5, <2>6, <2>7
<1>26. ASSUME NEW t \in Txns, NEW s \in sessions, Confirm(t, s)
       PROVE SerialInv'
  <2>2. UnreadyFresh' BY <1>26 DEF Confirm, LockFree
  <2>3. StartFresh' BY <1>26 DEF Confirm, LockFree
  <2>4. BusyGuarded' BY <1>26 DEF Confirm, LockFree
  <2>5. OthersDecided' BY <1>26 DEF Confirm, LockFree
  <2>6. UnstoppedCommitted' BY <1>26 DEF Confirm, LockFree
  <2>7. StopDecided' BY <1>26 DEF Confirm, LockFree
  <2> QED BY <2>2, <2>3, <2>4, <2>5, <2>6, <2>7
<1>27. ASSUME NEW p \in Ports, Login(p) PROVE SerialInv'
  BY <1>27 DEF Login
<1>28. CASE UNCHANGED vars BY <1>28 DEF vars
<1> QED
  BY <1>1, <1>2, <1>3, <1>4, <1>5, <1>6, <1>7, <1>8, <1>9, <1>10, <1>11, <1>12, <1>13, <1>14, <1>15, <1>16, <1>17, <1>18, <1>19, <1>20, <1>21, <1>22, <1>23, <1>24, <1>25, <1>26, <1>27, <1>28 DEF Next

(* ... and as long as no installer is late either, every step keeps the    *)
(* way back to the prior network.                                          *)
LEMMA PriorStep ==
  ASSUME TypeOK, TypeOK', SerialInv, SerialInv', PriorInv, Calm, Calm', [Next]_vars
  PROVE  PriorInv'
<1> USE WatchdogAssumptions DEF TypeOK, SerialInv, PriorInv, MarkerInv,
      LockHeldUndecided, TerminalExclusive, Holding, Decided,
      NothingCommitted, Fresh, SnapshotsPrior, UnreadyFresh, StartFresh,
      BusyGuarded, OthersDecided, UnstoppedCommitted, StopDecided,
      FirewallRestored, CandidateGuarded, Live, InstallerBusy, PriorNetwork,
      Planes, Configs, Networks, clockVars, markerVars, systemdVars,
      installerVars, operatorVars
<1>1. ASSUME NEW k \in Kinds, NEW t \in Txns, Arm(k, t) PROVE PriorInv'
  <2>1. SnapshotsPrior'
    <3>1. CASE NothingCommitted
      <4>1. \A u \in Txns : ~(Live(u) /\ durable[u] = "ready" /\ ~rolledBack[u])
        BY <1>1, <3>1 DEF Arm, Note, Serial, Calm
      <4>2. net = PriorNetwork
        BY <3>1, <4>1
      <4>3. \A u \in Txns : snapshot[u] = PriorNetwork
        BY <3>1
      <4>4. snapshot' = [snapshot EXCEPT ![t] = net] /\ DOMAIN snapshot = Txns
        BY <1>1 DEF Arm
      <4> HIDE DEF PriorNetwork
      <4>5. \A u \in Txns : snapshot'[u] = PriorNetwork
        BY <4>2, <4>3, <4>4, Zenon
      <4> QED BY <4>5
    <3>2. CASE ~NothingCommitted
      BY <1>1, <3>2 DEF Arm
    <3> QED BY <3>1, <3>2
  <2>8. FirewallRestored' BY <1>1 DEF Arm, Note, Serial, Calm
  <2>9. CandidateGuarded' BY <1>1 DEF Arm, Note, Serial, Calm
  <2> QED BY <2>1, <2>8, <2>9
<1>2. CASE CreateTransaction
  <2>1. SnapshotsPrior' BY <1>2 DEF CreateTransaction
  <2>8. FirewallRestored' BY <1>2 DEF CreateTransaction
  <2>9. CandidateGuarded' BY <1>2 DEF CreateTransaction
  <2> QED BY <2>1, <2>8, <2>9
<1>3. CASE StartTimer BY <1>3 DEF StartTimer
<1>4. CASE ArmFails BY <1>4 DEF ArmFails
<1>5. CASE ActivateFirewall BY <1>5 DEF ActivateFirewall, Note, Calm
<1>6. CASE Provision BY <1>6 DEF Provision, RepairSnapshotMatches
<1>7. CASE ActivateSysctls BY <1>7 DEF ActivateSysctls, Note, Calm
<1>8. CASE VerifyAndPublish BY <1>8 DEF VerifyAndPublish
<1>9. CASE ReadBoundary BY <1>9 DEF ReadBoundary
<1>10. CASE MarkActivated
  <2>1. SnapshotsPrior' BY <1>10 DEF MarkActivated, LockFree
  <2>8. FirewallRestored' BY <1>10 DEF MarkActivated, LockFree
  <2>9. CandidateGuarded' BY <1>10 DEF MarkActivated, LockFree
  <2> QED BY <2>1, <2>8, <2>9
<1>11. CASE FinishInstall BY <1>11 DEF FinishInstall
<1>12. CASE StepFails BY <1>12 DEF StepFails
<1>13. CASE TriggerRollback
  <2>1. SnapshotsPrior' BY <1>13 DEF TriggerRollback
  <2>8. FirewallRestored' BY <1>13 DEF TriggerRollback
  <2>9. CandidateGuarded' BY <1>13 DEF TriggerRollback
  <2> QED BY <2>1, <2>8, <2>9
<1>14. CASE TriggerFails BY <1>14 DEF TriggerFails
<1>15. CASE RollbackReturned BY <1>15 DEF RollbackReturned
<1>16. CASE StopTimerAfterRollback BY <1>16 DEF StopTimerAfterRollback
<1>17. CASE CrashInstaller BY <1>17 DEF CrashInstaller
<1>18. CASE Tick BY <1>18 DEF Tick
<1>19. CASE Reboot BY <1>19 DEF Reboot
<1>20. ASSUME NEW t \in Txns, TimerElapses(t) PROVE PriorInv'
  <2>1. SnapshotsPrior' BY <1>20 DEF TimerElapses
  <2>8. FirewallRestored' BY <1>20 DEF TimerElapses
  <2>9. CandidateGuarded' BY <1>20 DEF TimerElapses
  <2> QED BY <2>1, <2>8, <2>9
<1>21. ASSUME NEW t \in Txns, BeginRollback(t) PROVE PriorInv'
  <2>1. SnapshotsPrior' BY <1>21 DEF BeginRollback
  <2>8. FirewallRestored' BY <1>21 DEF BeginRollback
  <2>9. CandidateGuarded' BY <1>21 DEF BeginRollback
  <2> QED BY <2>1, <2>8, <2>9
<1>22. ASSUME NEW t \in Txns, RestoreFirewall(t) PROVE PriorInv'
  <2>1. SnapshotsPrior' BY <1>22 DEF RestoreFirewall
  <2>8. FirewallRestored' BY <1>22 DEF RestoreFirewall
  <2>9. CandidateGuarded' BY <1>22 DEF RestoreFirewall
  <2> QED BY <2>1, <2>8, <2>9
<1>23. ASSUME NEW t \in Txns, RestoreSysctlsAndMark(t) PROVE PriorInv'
  <2>1. SnapshotsPrior' BY <1>23 DEF RestoreSysctlsAndMark
  <2>8. FirewallRestored'
    <3>1. net'["firewall"] = net["firewall"] /\ UNCHANGED <<svcErr, committed>>
      BY <1>23 DEF RestoreSysctlsAndMark
    <3>2. \A u \in Txns : svc'[u] = "sysctls" => svc[u] = "sysctls"
      BY <1>23 DEF RestoreSysctlsAndMark
    <3> QED BY <3>1, <3>2
  <2>9. CandidateGuarded' BY <1>23 DEF RestoreSysctlsAndMark
  <2> QED BY <2>1, <2>8, <2>9
<1>24. ASSUME NEW t \in Txns, RestartService(t) PROVE PriorInv'
  <2>1. SnapshotsPrior' BY <1>24 DEF RestartService
  <2>8. FirewallRestored' BY <1>24 DEF RestartService
  <2>9. CandidateGuarded' BY <1>24 DEF RestartService
  <2> QED BY <2>1, <2>8, <2>9
<1>25. ASSUME NEW t \in Txns, StopCommittedTimer(t) PROVE PriorInv'
  <2>1. SnapshotsPrior' BY <1>25 DEF StopCommittedTimer
  <2>8. FirewallRestored' BY <1>25 DEF StopCommittedTimer
  <2>9. CandidateGuarded' BY <1>25 DEF StopCommittedTimer
  <2> QED BY <2>1, <2>8, <2>9
<1>26. ASSUME NEW t \in Txns, NEW s \in sessions, Confirm(t, s)
       PROVE PriorInv'
  <2>1. SnapshotsPrior' BY <1>26 DEF Confirm, LockFree
  <2>8. FirewallRestored' BY <1>26 DEF Confirm, LockFree
  <2>9. CandidateGuarded' BY <1>26 DEF Confirm, LockFree
  <2> QED BY <2>1, <2>8, <2>9
<1>27. ASSUME NEW p \in Ports, Login(p) PROVE PriorInv'
  BY <1>27 DEF Login
<1>28. CASE UNCHANGED vars BY <1>28 DEF vars
<1> QED
  BY <1>1, <1>2, <1>3, <1>4, <1>5, <1>6, <1>7, <1>8, <1>9, <1>10, <1>11, <1>12, <1>13, <1>14, <1>15, <1>16, <1>17, <1>18, <1>19, <1>20, <1>21, <1>22, <1>23, <1>24, <1>25, <1>26, <1>27, <1>28 DEF Next

(* The invariant of the dead-man's switch.                                 *)
LEMMA GuardHolds == Spec => []GuardInv
<1>1. Init => GuardInv
  BY DEF Init, GuardInv, SerialInv, PriorInv, MarkerInv, LockHeldUndecided,
         TerminalExclusive, Holding, Decided, NothingCommitted, Fresh,
         SnapshotsPrior, UnreadyFresh, StartFresh, BusyGuarded, OthersDecided,
         UnstoppedCommitted, StopDecided, FirewallRestored, CandidateGuarded,
         Live, InstallerBusy
<1>2. TypeOK /\ TypeOK' /\ GuardInv /\ [Next]_vars => GuardInv'
  <2> SUFFICES ASSUME TypeOK, TypeOK', GuardInv, [Next]_vars
               PROVE  GuardInv'
    OBVIOUS
  <2>1. mishaps \subseteq mishaps'
    BY MishapsGrow
  <2>2. (Serial' => Serial) /\ (Calm' => Calm) /\ (Calm => Serial)
    BY <2>1 DEF Serial, Calm
  <2>3. (Calm => Serial)'
    BY DEF Serial, Calm
  <2>4. ASSUME Serial' PROVE SerialInv'
    <3>1. SerialInv
      BY <2>2, <2>4 DEF GuardInv
    <3>2. MarkerInv'
      BY <3>1, MarkerStep DEF SerialInv
    <3> QED BY <2>4, <3>1, <3>2, SerialStep
  <2>5. ASSUME Calm' PROVE PriorInv'
    <3>1. SerialInv /\ SerialInv' /\ PriorInv /\ Calm
      BY <2>2, <2>3, <2>4, <2>5 DEF GuardInv
    <3> QED BY <2>5, <3>1, PriorStep
  <2> QED BY <2>4, <2>5 DEF GuardInv
<1> QED BY <1>1, <1>2, TypeCorrect, PTL DEF Spec

(* The dead-man's switch works: in every reachable state an unconfirmed    *)
(* candidate network is covered by a live timer or rollback run that       *)
(* restores the network from before vpnctl, whatever crashes, reboots,     *)
(* timeouts, systemctl failures and failed restores happen, except that an *)
(* installer wrote the candidate after its own timer had elapsed or init   *)
(* was run beside an undecided transaction.                                *)
THEOREM DeadMansSwitch == Spec => []CandidateGuarded
<1>1. GuardInv => CandidateGuarded
  BY DEF GuardInv, PriorInv, CandidateGuarded
<1> QED BY <1>1, GuardHolds, PTL

-----------------------------------------------------------------------------
(* What a rollback restores and what a commit keeps                        *)

(* At most one undecided transaction is alive, and it is the last armed.   *)
Pending(t) ==
  ~Decided(t) /\ (Live(t) \/ (t = cur /\ ipc \in {"mkdir", "start"}))
OnePending == \A t \in Txns : Pending(t) => t = cur

(* A run between its two classes has restored the first, unless it failed. *)
HalfRestored ==
  \A t \in Txns : svc[t] = "sysctls" /\ ~svcErr[t] =>
    net["firewall"] = snapshot[t]["firewall"]
RestoreInv == (Serial => OnePending) /\ (Calm => HalfRestored)

(* Open: activated in this boot and undecided; Whole: no run is restoring. *)
Open(t)  == activated[t] /\ ~Decided(t) /\ actBoot[t] = boot
Whole(t) == svc[t] \in {"idle", "queued"}

NoFailedRestore == \A t \in Txns : svc[t] # "failed" /\ ~svcErr[t]
BootsPast   == \A t \in Txns : actBoot[t] <= boot
OpenLive    == \A t \in Txns : Open(t) => Live(t)
FailingLive == ipc \in {"finish", "fail", "await"} => Live(cur) \/ Decided(cur)
(* Nobody undoes what a busy installer has written so far, except the run  *)
(* of its own timer.                                                       *)
Untouched == Whole(cur) /\ ~rolledBack[cur]
BusyNetwork ==
  /\ ipc = "sysctls" /\ Untouched => net["firewall"] = "candidate"
  /\ ipc \in {"verify", "boundary", "mark"} /\ Untouched => net = CandidateNetwork
OpenNetwork == \A t \in Txns : Open(t) /\ Whole(t) => net = CandidateNetwork
(* A transaction armed over a committed network snapshots that network.    *)
SnapshotsKeepCommit ==
  \A t, u \in Txns : committed[t] /\ actBoot[t] = boot /\ Pending(u) =>
    snapshot[u] = CandidateNetwork
(* Sessions that began after an activation came in through its firewall.   *)
SessionsPast == \A s \in sessions : s.started <= now
MarkSessions ==
  ipc = "mark" /\ Untouched =>
    \A s \in sessions : s.started > bound => s.via = "candidate"
OpenSessions ==
  \A t \in Txns : Open(t) /\ Whole(t) =>
    \A s \in sessions : s.started > actAt[t] => s.via = "candidate"
FirstSnapshot ==
  /\ created = <<>> =>
       /\ net = PriorNetwork /\ ipc = "idle"
       /\ \A t \in Txns : durable[t] = "absent" /\ svc[t] = "idle" /\ ~timerOn[t]
  /\ created # <<>> => /\ durable[Head(created)] # "absent"
                       /\ snapshot[Head(created)] = PriorNetwork

NetInv ==
  /\ NoFailedRestore /\ BootsPast /\ OpenLive /\ FailingLive /\ BusyNetwork
  /\ OpenNetwork /\ SnapshotsKeepCommit /\ CommittedNetworkInForce
SessionInv ==
  SessionsPast /\ MarkSessions /\ OpenSessions /\ ConfirmedThroughCandidate

(* No two undecided transactions, and no failed restore, so far.           *)
Clean == Serial /\ "half" \notin mishaps
CommitInv == Clean => NetInv /\ SessionInv

(* Every step keeps at most one undecided transaction alive, so no other   *)
(* process touches what a run is restoring.                                *)
LEMMA OneStep ==
  ASSUME TypeOK, TypeOK', SerialInv, OnePending, Serial', [Next]_vars
  PROVE  OnePending'
<1> USE WatchdogAssumptions DEF TypeOK, SerialInv, MarkerInv, LockHeldUndecided,
      Holding, Decided, Fresh, UnreadyFresh, StartFresh, BusyGuarded,
      OthersDecided, UnstoppedCommitted, StopDecided, Live, InstallerBusy,
      OnePending, HalfRestored, Pending, Planes, Configs, Networks,
      clockVars, markerVars, systemdVars, installerVars, operatorVars
<1>1. ASSUME NEW k \in Kinds, NEW t \in Txns, Arm(k, t)
      PROVE  OnePending'
  <2>1. /\ svc' = svc /\ svcErr' = svcErr /\ net' = net /\ timerOn' = timerOn
        /\ UNCHANGED <<committed, rolledBack>> /\ cur' = t
        /\ durable[t] = "absent" /\ snapshot' = [snapshot EXCEPT ![t] = net]
    BY <1>1 DEF Arm
  <2>2. \A u \in Txns : Live(u) => Decided(u)
    BY <1>1 DEF Arm, Note, Serial
  <2>3. OnePending'
    BY <2>1, <2>2
  <2> QED
    BY <2>3
<1>2. CASE CreateTransaction
  BY <1>2 DEF CreateTransaction
<1>3. CASE StartTimer
  BY <1>3 DEF StartTimer
<1>4. CASE ArmFails
  BY <1>4 DEF ArmFails
<1>5. CASE Provision
  BY <1>5 DEF Provision
<1>6. CASE ActivateFirewall
  BY <1>6 DEF ActivateFirewall
<1>7. CASE ActivateSysctls
  BY <1>7 DEF ActivateSysctls
<1>8. CASE VerifyAndPublish
  BY <1>8 DEF VerifyAndPublish
<1>9. CASE ReadBoundary
  BY <1>9 DEF ReadBoundary
<1>10. CASE MarkActivated
  BY <1>10 DEF MarkActivated, LockFree
<1>11. CASE FinishInstall
  BY <1>11 DEF FinishInstall
<1>12. CASE StepFails
  BY <1>12 DEF StepFails
<1>13. CASE TriggerRollback
  BY <1>13 DEF TriggerRollback
<1>14. CASE TriggerFails
  BY <1>14 DEF TriggerFails
<1>15. CASE RollbackReturned
  BY <1>15 DEF RollbackReturned
<1>16. CASE StopTimerAfterRollback
  BY <1>16 DEF StopTimerAfterRollback
<1>17. CASE CrashInstaller
  BY <1>17 DEF CrashInstaller
<1>18. ASSUME NEW t \in Txns, TimerElapses(t)
      PROVE  OnePending'
  BY <1>18 DEF TimerElapses
<1>19. ASSUME NEW t \in Txns, BeginRollback(t)
      PROVE  OnePending'
  BY <1>19 DEF BeginRollback
<1>20. ASSUME NEW t \in Txns, RestoreFirewall(t)
      PROVE  OnePending'
  BY <1>20 DEF RestoreFirewall
<1>21. ASSUME NEW t \in Txns, RestoreSysctlsAndMark(t)
      PROVE  OnePending'
  <2>1. /\ net'["firewall"] = net["firewall"]
        /\ UNCHANGED <<svcErr, snapshot, committed, timerOn, cur, ipc>>
    BY <1>21 DEF RestoreSysctlsAndMark
  <2>2. /\ \A u \in Txns : svc'[u] # "idle" => svc[u] # "idle"
        /\ \A u \in Txns : svc'[u] = "sysctls" => svc[u] = "sysctls"
        /\ \A u \in Txns : rolledBack[u] => rolledBack'[u]
    BY <1>21 DEF RestoreSysctlsAndMark
  <2>3. OnePending'
    BY <2>1, <2>2
  <2> QED
    BY <2>3
<1>22. ASSUME NEW t \in Txns, RestartService(t)
      PROVE  OnePending'
  BY <1>22 DEF RestartService
<1>23. ASSUME NEW t \in Txns, StopCommittedTimer(t)
      PROVE  OnePending'
  BY <1>23 DEF StopCommittedTimer
<1>24. ASSUME NEW t \in Txns, NEW s \in sessions, Confirm(t, s)
      PROVE  OnePending'
  BY <1>24 DEF Confirm, LockFree, ProofAccepted
<1>25. ASSUME NEW p \in Ports, Login(p)
      PROVE  OnePending'
  BY <1>25 DEF Login
<1>26. CASE Tick
  BY <1>26 DEF Tick
<1>27. CASE Reboot
  BY <1>27 DEF Reboot
<1>28. CASE UNCHANGED vars
  BY <1>28 DEF vars
<1> QED
  BY <1>1, <1>2, <1>3, <1>4, <1>5, <1>6, <1>7, <1>8, <1>9, <1>10, <1>11, <1>12, <1>13, <1>14, <1>15, <1>16, <1>17, <1>18, <1>19, <1>20, <1>21, <1>22, <1>23, <1>24, <1>25, <1>26, <1>27, <1>28 DEF Next

(* Only a late installer writes the firewall back during a run.            *)
LEMMA HalfStep ==
  ASSUME TypeOK, TypeOK', SerialInv, OnePending, HalfRestored, Calm', [Next]_vars
  PROVE  HalfRestored'
<1> USE WatchdogAssumptions DEF TypeOK, SerialInv, MarkerInv, LockHeldUndecided,
      Holding, Decided, Fresh, UnreadyFresh, StartFresh, BusyGuarded,
      OthersDecided, UnstoppedCommitted, StopDecided, Live, InstallerBusy,
      OnePending, HalfRestored, Pending, Planes, Configs, Networks,
      clockVars, markerVars, systemdVars, installerVars, operatorVars
<1>1. ASSUME NEW k \in Kinds, NEW t \in Txns, Arm(k, t)
      PROVE  HalfRestored'
  <2>1. /\ svc' = svc /\ svcErr' = svcErr /\ net' = net /\ timerOn' = timerOn
        /\ UNCHANGED <<committed, rolledBack>> /\ cur' = t
        /\ durable[t] = "absent" /\ snapshot' = [snapshot EXCEPT ![t] = net]
    BY <1>1 DEF Arm
  <2>4. svc[t] = "idle"
    BY <2>1
  <2>5. \A u \in Txns : u # t => snapshot'[u] = snapshot[u]
    BY <2>1
  <2>6. HalfRestored'
    BY <2>1, <2>4, <2>5
  <2> QED
    BY <2>6
<1>2. CASE CreateTransaction
  BY <1>2 DEF CreateTransaction
<1>3. CASE StartTimer
  BY <1>3 DEF StartTimer
<1>4. CASE ArmFails
  BY <1>4 DEF ArmFails
<1>5. CASE Provision
  BY <1>5 DEF Provision
<1>6. CASE ActivateFirewall
  BY <1>6 DEF Note, Calm, ActivateFirewall
<1>7. CASE ActivateSysctls
  BY <1>7 DEF Note, Calm, ActivateSysctls
<1>8. CASE VerifyAndPublish
  BY <1>8 DEF VerifyAndPublish
<1>9. CASE ReadBoundary
  BY <1>9 DEF ReadBoundary
<1>10. CASE MarkActivated
  BY <1>10 DEF MarkActivated, LockFree
<1>11. CASE FinishInstall
  BY <1>11 DEF FinishInstall
<1>12. CASE StepFails
  BY <1>12 DEF StepFails
<1>13. CASE TriggerRollback
  BY <1>13 DEF TriggerRollback
<1>14. CASE TriggerFails
  BY <1>14 DEF TriggerFails
<1>15. CASE RollbackReturned
  BY <1>15 DEF RollbackReturned
<1>16. CASE StopTimerAfterRollback
  BY <1>16 DEF StopTimerAfterRollback
<1>17. CASE CrashInstaller
  BY <1>17 DEF CrashInstaller
<1>18. ASSUME NEW t \in Txns, TimerElapses(t)
      PROVE  HalfRestored'
  BY <1>18 DEF TimerElapses
<1>19. ASSUME NEW t \in Txns, BeginRollback(t)
      PROVE  HalfRestored'
  BY <1>19 DEF BeginRollback
<1>20. ASSUME NEW t \in Txns, RestoreFirewall(t)
      PROVE  HalfRestored'
  <2>1. /\ svc' = [svc EXCEPT ![t] = "sysctls"] /\ svc[t] = "firewall"
        /\ UNCHANGED snapshot
    BY <1>20 DEF RestoreFirewall
  <2>2. \A u \in Txns : svc[u] # "sysctls"
    BY <2>1
  <2>3. ASSUME ~svcErr'[t] PROVE net'["firewall"] = snapshot[t]["firewall"]
    <3>1. net' = [net EXCEPT !["firewall"] = snapshot[t]["firewall"]]
      BY <1>20, <2>3 DEF RestoreFirewall
    <3> QED
      BY <3>1
  <2> QED
    BY <2>1, <2>2, <2>3
<1>21. ASSUME NEW t \in Txns, RestoreSysctlsAndMark(t)
      PROVE  HalfRestored'
  <2>1. /\ net'["firewall"] = net["firewall"]
        /\ UNCHANGED <<svcErr, snapshot, committed, timerOn, cur, ipc>>
    BY <1>21 DEF RestoreSysctlsAndMark
  <2>2. /\ \A u \in Txns : svc'[u] # "idle" => svc[u] # "idle"
        /\ \A u \in Txns : svc'[u] = "sysctls" => svc[u] = "sysctls"
        /\ \A u \in Txns : rolledBack[u] => rolledBack'[u]
    BY <1>21 DEF RestoreSysctlsAndMark
  <2>4. HalfRestored'
    BY <2>1, <2>2
  <2> QED
    BY <2>4
<1>22. ASSUME NEW t \in Txns, RestartService(t)
      PROVE  HalfRestored'
  BY <1>22 DEF RestartService
<1>23. ASSUME NEW t \in Txns, StopCommittedTimer(t)
      PROVE  HalfRestored'
  BY <1>23 DEF StopCommittedTimer
<1>24. ASSUME NEW t \in Txns, NEW s \in sessions, Confirm(t, s)
      PROVE  HalfRestored'
  BY <1>24 DEF Confirm, LockFree, ProofAccepted
<1>25. ASSUME NEW p \in Ports, Login(p)
      PROVE  HalfRestored'
  BY <1>25 DEF Login
<1>26. CASE Tick
  BY <1>26 DEF Tick
<1>27. CASE Reboot
  BY <1>27 DEF Reboot
<1>28. CASE UNCHANGED vars
  BY <1>28 DEF vars
<1> QED
  BY <1>1, <1>2, <1>3, <1>4, <1>5, <1>6, <1>7, <1>8, <1>9, <1>10, <1>11, <1>12, <1>13, <1>14, <1>15, <1>16, <1>17, <1>18, <1>19, <1>20, <1>21, <1>22, <1>23, <1>24, <1>25, <1>26, <1>27, <1>28 DEF Next

LEMMA RestoreStep ==
  ASSUME TypeOK, TypeOK', GuardInv, RestoreInv, [Next]_vars
  PROVE  RestoreInv'
<1>1. mishaps \subseteq mishaps'
  BY MishapsGrow
<1>2. (Serial' => Serial) /\ (Calm' => Calm) /\ (Calm => Serial)
  BY <1>1 DEF Serial, Calm
<1>3. ASSUME Serial' PROVE OnePending'
  BY <1>2, <1>3, OneStep DEF GuardInv, RestoreInv
<1>4. ASSUME Calm' PROVE HalfRestored'
  BY <1>2, <1>4, HalfStep DEF GuardInv, RestoreInv
<1> QED
  BY <1>3, <1>4 DEF RestoreInv

(* A rolled-back marker is written only over the whole snapshot, unless an *)
(* installer was late or init was run beside an undecided transaction.     *)
THEOREM RollbackRestores == Spec => MarkerMeansRestored
<1>1. Init => RestoreInv
  BY DEF Init, RestoreInv, OnePending, HalfRestored, Pending, Live
<1>2. ASSUME TypeOK, RestoreInv, Calm', [Next]_vars, NEW t \in Txns,
             rolledBack'[t], ~rolledBack[t]
      PROVE  net' = snapshot[t]
  <2>1. RestoreSysctlsAndMark(t) /\ rolledBack' # rolledBack
    BY <1>2 DEF Next, vars, markerVars, Arm, CreateTransaction, StartTimer,
         ArmFails, Provision, ActivateFirewall, ActivateSysctls,
         VerifyAndPublish, ReadBoundary, MarkActivated, FinishInstall,
         StepFails, TriggerRollback, TriggerFails, RollbackReturned,
         StopTimerAfterRollback, CrashInstaller, TimerElapses, BeginRollback,
         RestoreFirewall, RestoreSysctlsAndMark, RestartService,
         StopCommittedTimer, Confirm, Login, Tick, Reboot, TypeOK
  <2>2. /\ svc[t] = "sysctls" /\ ~svcErr[t]
        /\ net' = [net EXCEPT !["sysctls"] = snapshot[t]["sysctls"]]
    BY <2>1 DEF RestoreSysctlsAndMark
  <2>3. net["firewall"] = snapshot[t]["firewall"]
    BY <1>2, <2>2, MishapsGrow DEF RestoreInv, HalfRestored, Calm, Serial
  <2>4. snapshot[t] \in Networks /\ net \in Networks
    BY <1>2 DEF TypeOK
  <2> QED
    BY <2>2, <2>3, <2>4 DEF Networks, Planes
<1>3. TypeOK /\ TypeOK' /\ GuardInv /\ RestoreInv /\ [Next]_vars => RestoreInv'
  BY RestoreStep
<1>4. TypeOK /\ RestoreInv /\ [Next]_vars =>
        [Calm' => \A t \in Txns :
           rolledBack'[t] /\ ~rolledBack[t] => net' = snapshot[t]]_vars
  BY <1>2
<1> QED
  BY <1>1, <1>3, <1>4, TypeCorrect, GuardHolds, PTL DEF Spec, MarkerMeansRestored


(* Rewriting a class of the candidate network with the candidate.          *)
LEMMA CandidateFacts ==
  ASSUME NEW n \in Networks
  PROVE  /\ n = CandidateNetwork =>
              /\ [n EXCEPT !["firewall"] = "candidate"] = CandidateNetwork
              /\ [n EXCEPT !["sysctls"] = "candidate"] = CandidateNetwork
         /\ n["firewall"] = "candidate" =>
              [n EXCEPT !["sysctls"] = "candidate"] = CandidateNetwork
         /\ [n EXCEPT !["firewall"] = "candidate"]["firewall"] = "candidate"
         /\ CandidateNetwork["firewall"] = "candidate"
         /\ CandidateNetwork["sysctls"] = "candidate"
BY DEF Networks, Planes, Configs, CandidateNetwork

(* Without a failed restore, the second step of one ends it and marks it.  *)
LEMMA RestoredAndMarked ==
  ASSUME NEW t \in Txns, NoFailedRestore, Clean', RestoreSysctlsAndMark(t)
  PROVE  /\ svc' = [svc EXCEPT ![t] = "idle"]
         /\ rolledBack' = [rolledBack EXCEPT ![t] = TRUE]
         /\ net' = [net EXCEPT !["sysctls"] = snapshot[t]["sysctls"]]
<1>1. "half" \notin mishaps'
  BY DEF Clean
<1>2. ~svcErr[t]
  BY DEF NoFailedRestore
<1> QED
  BY <1>1, <1>2 DEF RestoreSysctlsAndMark

(* Every step keeps the network a commit needs, if no restore fails.       *)
LEMMA NetStep ==
  ASSUME TypeOK, TypeOK', Clean', SerialInv, OnePending, OnePending', NetInv, [Next]_vars
  PROVE  NetInv'
<1> USE WatchdogAssumptions DEF TypeOK, SerialInv, MarkerInv, LockHeldUndecided,
      Holding, Decided, Fresh, UnreadyFresh, StartFresh, BusyGuarded,
      OthersDecided, UnstoppedCommitted, StopDecided, Live, InstallerBusy,
      OnePending, Pending, Planes, Configs, Networks, Open, Whole, Untouched,
      NetInv, NoFailedRestore, BootsPast, OpenLive, FailingLive, BusyNetwork,
      OpenNetwork, SnapshotsKeepCommit, CommittedNetworkInForce, Fault,
      clockVars, markerVars, systemdVars, installerVars, operatorVars
<1>1. ASSUME NEW k \in Kinds, NEW t \in Txns, Arm(k, t)
      PROVE  NetInv'
  <2>1. /\ UNCHANGED <<svc, svcErr, net, timerOn, committed, rolledBack,
                       activated, actBoot, boot>>
        /\ cur' = t /\ ipc' = "mkdir" /\ durable[t] = "absent"
        /\ snapshot' = [snapshot EXCEPT ![t] = net]
    BY <1>1 DEF Arm
  <2>2. \A u \in Txns : Pending(u)' => u = t
    BY <2>1
  <2>3. snapshot'[t] = net
    BY <2>1
  <2>4. NoFailedRestore'
    BY <2>1
  <2>5. BootsPast'
    BY <2>1
  <2>6. OpenLive'
    BY <2>1
  <2>7. FailingLive'
    BY <2>1
  <2>8. BusyNetwork'
    BY <2>1
  <2>9. OpenNetwork'
    BY <2>1
  <2>10. SnapshotsKeepCommit'
    BY <2>1, <2>2, <2>3
  <2>11. CommittedNetworkInForce'
    BY <2>1
  <2> QED
    BY <2>4, <2>5, <2>6, <2>7, <2>8, <2>9, <2>10, <2>11
<1>2. CASE CreateTransaction
  BY <1>2 DEF CreateTransaction
<1>3. CASE StartTimer
  BY <1>3 DEF StartTimer
<1>4. CASE ArmFails
  BY <1>4 DEF ArmFails
<1>5. CASE Provision
  BY <1>5 DEF Provision
<1>6. CASE ActivateFirewall
  <2>1. net \in Networks
    OBVIOUS
  <2>2. net = CandidateNetwork => net' = CandidateNetwork
    BY <1>6, <2>1, CandidateFacts DEF ActivateFirewall
  <2>3. net'["firewall"] = "candidate"
    BY <1>6, <2>1, CandidateFacts DEF ActivateFirewall
  <2>4. NoFailedRestore'
    BY <1>6, <2>2, <2>3 DEF ActivateFirewall
  <2>5. BootsPast'
    BY <1>6, <2>2, <2>3 DEF ActivateFirewall
  <2>6. OpenLive'
    BY <1>6, <2>2, <2>3 DEF ActivateFirewall
  <2>7. FailingLive'
    BY <1>6, <2>2, <2>3 DEF ActivateFirewall
  <2>8. BusyNetwork'
    BY <1>6, <2>2, <2>3 DEF ActivateFirewall
  <2>9. OpenNetwork'
    BY <1>6, <2>2, <2>3 DEF ActivateFirewall
  <2>10. SnapshotsKeepCommit'
    BY <1>6, <2>2, <2>3 DEF ActivateFirewall
  <2>11. CommittedNetworkInForce'
    BY <1>6, <2>2, <2>3 DEF ActivateFirewall
  <2> QED
    BY <2>4, <2>5, <2>6, <2>7, <2>8, <2>9, <2>10, <2>11
<1>7. CASE ActivateSysctls
  <2>1. net \in Networks
    OBVIOUS
  <2>2. net = CandidateNetwork => net' = CandidateNetwork
    BY <1>7, <2>1, CandidateFacts DEF ActivateSysctls
  <2>3. Untouched' => net' = CandidateNetwork
    BY <1>7, <2>1, CandidateFacts DEF ActivateSysctls
  <2>4. NoFailedRestore'
    BY <1>7, <2>2, <2>3 DEF ActivateSysctls
  <2>5. BootsPast'
    BY <1>7, <2>2, <2>3 DEF ActivateSysctls
  <2>6. OpenLive'
    BY <1>7, <2>2, <2>3 DEF ActivateSysctls
  <2>7. FailingLive'
    BY <1>7, <2>2, <2>3 DEF ActivateSysctls
  <2>8. BusyNetwork'
    BY <1>7, <2>2, <2>3 DEF ActivateSysctls
  <2>9. OpenNetwork'
    BY <1>7, <2>2, <2>3 DEF ActivateSysctls
  <2>10. SnapshotsKeepCommit'
    BY <1>7, <2>2, <2>3 DEF ActivateSysctls
  <2>11. CommittedNetworkInForce'
    BY <1>7, <2>2, <2>3 DEF ActivateSysctls
  <2> QED
    BY <2>4, <2>5, <2>6, <2>7, <2>8, <2>9, <2>10, <2>11
<1>8. CASE VerifyAndPublish
  BY <1>8 DEF VerifyAndPublish
<1>9. CASE ReadBoundary
  BY <1>9 DEF ReadBoundary
<1>10. CASE MarkActivated
  <2>0. CASE Decided(cur)
    BY <1>10, <2>0 DEF MarkActivated
  <2> SUFFICES ASSUME ~Decided(cur) PROVE NetInv'
    BY <2>0
  <2>1. /\ ~committed[cur] /\ cur \in Txns /\ Live(cur)
        /\ net = CandidateNetwork
    BY <1>10 DEF MarkActivated, LockFree, ServicePCs
  <2>2. /\ activated' = [activated EXCEPT ![cur] = TRUE]
        /\ actBoot' = [actBoot EXCEPT ![cur] = boot]
        /\ ipc' = "finish"
        /\ UNCHANGED <<svc, svcErr, net, timerOn, committed, rolledBack, boot,
                       snapshot, cur>>
    BY <1>10 DEF MarkActivated
  <2>3. ASSUME NEW u \in Txns, u # cur
        PROVE  (Open(u)' => Open(u)) /\ actBoot'[u] = actBoot[u]
    <3>1. activated'[u] = activated[u] /\ actBoot'[u] = actBoot[u]
      BY <2>1, <2>2, <2>3, ExceptElsewhere
    <3> QED
      BY <2>2, <3>1
  <2>4. \A u \in Txns : Pending(u)' <=> Pending(u)
    BY <1>10, <2>2 DEF MarkActivated
  <2>5. \A u \in Txns : Live(u)' <=> Live(u)
    BY <2>2
  <2>6. OpenLive'
    <3>1. ASSUME NEW u \in Txns, Open(u)' PROVE Live(u)'
      <4>1. CASE u = cur
        BY <2>1, <2>2, <4>1
      <4>2. CASE u # cur
        <5>1. Open(u)
          BY <2>3, <3>1, <4>2
        <5>2. Live(u)
          BY <5>1
        <5> QED
          BY <2>5, <5>2
      <4> QED
        BY <4>1, <4>2
    <3> HIDE DEF Open, Live
    <3> QED
      BY <3>1
  <2>7. SnapshotsKeepCommit'
    <3>1. ASSUME NEW v \in Txns, NEW u \in Txns, committed'[v],
                 actBoot'[v] = boot', Pending(u)'
          PROVE  snapshot'[u] = CandidateNetwork
      <4>1. committed[v] /\ v # cur
        BY <2>1, <2>2, <3>1
      <4>2. actBoot[v] = boot
        BY <2>2, <2>3, <3>1, <4>1
      <4>3. Pending(u)
        BY <2>4, <3>1
      <4> QED
        BY <2>2, <4>1, <4>2, <4>3
    <3> HIDE DEF Pending
    <3> QED
      BY <3>1
  <2>8. NoFailedRestore'
    BY <2>1, <2>2
  <2>9. BootsPast'
    BY <2>1, <2>2
  <2>10. FailingLive'
    BY <2>1, <2>2
  <2>11. BusyNetwork'
    BY <2>1, <2>2
  <2>12. OpenNetwork'
    BY <2>1, <2>2
  <2>13. CommittedNetworkInForce'
    BY <2>1, <2>2
  <2> QED
    BY <2>6, <2>7, <2>8, <2>9, <2>10, <2>11, <2>12, <2>13
<1>11. CASE FinishInstall
  BY <1>11 DEF FinishInstall
<1>12. CASE StepFails
  BY <1>12 DEF StepFails
<1>13. CASE TriggerRollback
  BY <1>13 DEF TriggerRollback
<1>14. CASE TriggerFails
  BY <1>14 DEF TriggerFails
<1>15. CASE RollbackReturned
  BY <1>15 DEF RollbackReturned
<1>16. CASE StopTimerAfterRollback
  BY <1>16 DEF StopTimerAfterRollback
<1>17. CASE CrashInstaller
  BY <1>17 DEF CrashInstaller
<1>18. ASSUME NEW t \in Txns, TimerElapses(t)
      PROVE  NetInv'
  BY <1>18 DEF TimerElapses
<1>19. ASSUME NEW t \in Txns, BeginRollback(t)
      PROVE  NetInv'
  BY <1>19 DEF BeginRollback
<1>20. ASSUME NEW t \in Txns, RestoreFirewall(t)
      PROVE  NetInv'
  <2>1. /\ net' = [net EXCEPT !["firewall"] = snapshot[t]["firewall"]]
        /\ svc' = [svc EXCEPT ![t] = "sysctls"] /\ UNCHANGED svcErr
        /\ UNCHANGED <<boot, snapshot, activated, actBoot, committed, timerOn,
                       ipc, cur>>
        /\ UNCHANGED rolledBack
    BY <1>20 DEF RestoreFirewall, Note, Clean
  <2>2. Pending(t) /\ t = cur
    BY <1>20 DEF RestoreFirewall
  <2>3. \A u \in Txns : Open(u) => u = t
    BY <2>2
  <2>4. ASSUME NEW u \in Txns, committed[u], actBoot[u] = boot
        PROVE  net' = CandidateNetwork
    <3>1. net = CandidateNetwork /\ snapshot[t] = CandidateNetwork
      BY <2>2, <2>4
    <3>2. net \in Networks
      OBVIOUS
    <3> QED
      BY <2>1, <3>1, <3>2, CandidateFacts
  <2>5. NoFailedRestore'
    BY <2>1, <2>2
  <2>6. BootsPast'
    BY <2>1, <2>2
  <2>7. OpenLive'
    BY <2>1, <2>2
  <2>8. FailingLive'
    BY <2>1, <2>2
  <2>9. BusyNetwork'
    BY <2>1, <2>2
  <2>10. OpenNetwork'
    BY <2>1, <2>3
  <2>11. SnapshotsKeepCommit'
    BY <2>1, <2>2
  <2>12. CommittedNetworkInForce'
    BY <2>1, <2>4
  <2> QED
    BY <2>5, <2>6, <2>7, <2>8, <2>9, <2>10, <2>11, <2>12
<1>21. ASSUME NEW t \in Txns, RestoreSysctlsAndMark(t)
      PROVE  NetInv'
  <2>1. /\ net' = [net EXCEPT !["sysctls"] = snapshot[t]["sysctls"]]
        /\ svc' = [svc EXCEPT ![t] = "idle"] /\ UNCHANGED svcErr
        /\ UNCHANGED <<boot, snapshot, activated, actBoot, committed, timerOn,
                       ipc, cur>>
        /\ rolledBack' = [rolledBack EXCEPT ![t] = TRUE]
    BY <1>21 DEF RestoreSysctlsAndMark, Note, Clean
  <2>2. Pending(t) /\ t = cur
    BY <1>21 DEF RestoreSysctlsAndMark
  <2>3. \A u \in Txns : Open(u) => u = t
    BY <2>2
  <2>4. ASSUME NEW u \in Txns, committed[u], actBoot[u] = boot
        PROVE  net' = CandidateNetwork
    <3>1. net = CandidateNetwork /\ snapshot[t] = CandidateNetwork
      BY <2>2, <2>4
    <3>2. net \in Networks
      OBVIOUS
    <3> QED
      BY <2>1, <3>1, <3>2, CandidateFacts
  <2>5. NoFailedRestore'
    BY <2>1, <2>2
  <2>6. BootsPast'
    BY <2>1, <2>2
  <2>7. OpenLive'
    BY <2>1, <2>2
  <2>8. FailingLive'
    BY <2>1, <2>2
  <2>9. BusyNetwork'
    BY <2>1, <2>2
  <2>10. OpenNetwork'
    BY <2>1, <2>3
  <2>11. SnapshotsKeepCommit'
    BY <2>1, <2>2
  <2>12. CommittedNetworkInForce'
    BY <2>1, <2>4
  <2> QED
    BY <2>5, <2>6, <2>7, <2>8, <2>9, <2>10, <2>11, <2>12
<1>22. ASSUME NEW t \in Txns, RestartService(t)
      PROVE  NetInv'
  BY <1>22 DEF RestartService
<1>23. ASSUME NEW t \in Txns, StopCommittedTimer(t)
      PROVE  NetInv'
  BY <1>23 DEF StopCommittedTimer
<1>24. ASSUME NEW t \in Txns, NEW s \in sessions, Confirm(t, s)
      PROVE  NetInv'
  <2>1. /\ Open(t) /\ Whole(t)
        /\ committed' = [committed EXCEPT ![t] = TRUE]
        /\ UNCHANGED <<svc, svcErr, net, timerOn, rolledBack, activated,
                       actBoot, boot, snapshot, cur, ipc>>
    BY <1>24 DEF Confirm, LockFree, ProofAccepted, ServicePCs
  <2>2. t = cur
    BY <2>1
  <2>3. \A u \in Txns : ~Pending(u)'
    BY <2>1, <2>2
  <2>4. NoFailedRestore'
    BY <2>1, <2>2
  <2>5. BootsPast'
    BY <2>1, <2>2
  <2>6. OpenLive'
    BY <2>1, <2>2
  <2>7. FailingLive'
    BY <2>1, <2>2
  <2>8. BusyNetwork'
    BY <2>1, <2>2
  <2>9. OpenNetwork'
    BY <2>1, <2>2
  <2>10. SnapshotsKeepCommit'
    BY <2>1, <2>3
  <2>11. CommittedNetworkInForce'
    BY <2>1, <2>2
  <2> QED
    BY <2>4, <2>5, <2>6, <2>7, <2>8, <2>9, <2>10, <2>11
<1>25. ASSUME NEW p \in Ports, Login(p)
      PROVE  NetInv'
  BY <1>25 DEF Login
<1>26. CASE Tick
  BY <1>26 DEF Tick
<1>27. CASE Reboot
  BY <1>27 DEF Reboot
<1>28. CASE UNCHANGED vars
  BY <1>28 DEF vars
<1> QED
  BY <1>1, <1>2, <1>3, <1>4, <1>5, <1>6, <1>7, <1>8, <1>9, <1>10, <1>11, <1>12, <1>13, <1>14, <1>15, <1>16, <1>17, <1>18, <1>19, <1>20, <1>21, <1>22, <1>23, <1>24, <1>25, <1>26, <1>27, <1>28 DEF Next

(* Every step keeps: what came in after an activation came in through it.  *)
LEMMA SessionStep ==
  ASSUME TypeOK, TypeOK', Clean', SerialInv, NetInv, NetInv', SessionInv, [Next]_vars
  PROVE  SessionInv'
<1> USE WatchdogAssumptions DEF TypeOK, SerialInv, MarkerInv, LockHeldUndecided,
      Holding, Decided, BusyGuarded, InstallerBusy, SessionSet, ServicePCs,
      Open, Whole, Untouched, NetInv, NoFailedRestore, BootsPast, BusyNetwork, OpenNetwork,
      SessionInv, SessionsPast, MarkSessions, OpenSessions,
      ConfirmedThroughCandidate, Fault,
      clockVars, markerVars, systemdVars, installerVars, operatorVars
<1>1. ASSUME NEW k \in Kinds, NEW t \in Txns, Arm(k, t)
      PROVE  SessionInv'
  <2>1. /\ UNCHANGED <<sessions, now, boot, committed, proof, activated, actBoot,
                       actAt>>
        /\ ipc' = "mkdir" /\ UNCHANGED <<svc, rolledBack>>
    BY <1>1 DEF Arm
  <2>2. \A u \in Txns : Open(u)' /\ Whole(u)' => Open(u) /\ Whole(u)
    BY <2>1
  <2>3. OpenSessions'
    <3> HIDE DEF Open, Whole
    <3> QED
      BY <2>1, <2>2
  <2> QED
    BY <2>1, <2>3
<1>2. CASE CreateTransaction
  BY <1>2 DEF CreateTransaction
<1>3. CASE StartTimer
  BY <1>3 DEF StartTimer
<1>4. CASE ArmFails
  BY <1>4 DEF ArmFails
<1>5. CASE Provision
  BY <1>5 DEF Provision
<1>6. CASE ActivateFirewall
  BY <1>6 DEF ActivateFirewall
<1>7. CASE ActivateSysctls
  BY <1>7 DEF ActivateSysctls
<1>8. CASE VerifyAndPublish
  BY <1>8 DEF VerifyAndPublish
<1>9. CASE ReadBoundary
  BY <1>9 DEF ReadBoundary
<1>10. CASE MarkActivated
  <2>0. CASE Decided(cur)
    BY <1>10, <2>0 DEF MarkActivated
  <2> SUFFICES ASSUME ~Decided(cur) PROVE SessionInv'
    BY <2>0
  <2>1. /\ UNCHANGED <<sessions, now, boot, committed, rolledBack, svc, proof>>
        /\ activated' = [activated EXCEPT ![cur] = TRUE]
        /\ actBoot' = [actBoot EXCEPT ![cur] = boot]
        /\ actAt' = [actAt EXCEPT ![cur] = bound]
        /\ ipc' = "finish" /\ ipc = "mark" /\ cur \in Txns /\ Untouched
    BY <1>10 DEF MarkActivated, LockFree
  <2>2. ASSUME NEW u \in Txns, Open(u)', Whole(u)', NEW s \in sessions,
               s.started > actAt'[u]
        PROVE  s.via = "candidate"
    <3>1. CASE u = cur
      BY <2>1, <2>2, <3>1
    <3>2. CASE u # cur
      <4>1. /\ activated'[u] = activated[u] /\ actBoot'[u] = actBoot[u]
            /\ actAt'[u] = actAt[u]
        BY <2>1, <3>2, ExceptElsewhere
      <4>2. Open(u) /\ Whole(u)
        BY <2>1, <2>2, <4>1
      <4> QED
        BY <2>2, <4>1, <4>2
    <3> QED
      BY <3>1, <3>2
  <2>3. OpenSessions'
    <3> HIDE DEF Open, Whole
    <3> QED
      BY <2>1, <2>2
  <2> QED
    BY <2>1, <2>3
<1>11. CASE FinishInstall
  BY <1>11 DEF FinishInstall
<1>12. CASE StepFails
  BY <1>12 DEF StepFails
<1>13. CASE TriggerRollback
  BY <1>13 DEF TriggerRollback
<1>14. CASE TriggerFails
  BY <1>14 DEF TriggerFails
<1>15. CASE RollbackReturned
  BY <1>15 DEF RollbackReturned
<1>16. CASE StopTimerAfterRollback
  BY <1>16 DEF StopTimerAfterRollback
<1>17. CASE CrashInstaller
  BY <1>17 DEF CrashInstaller
<1>18. ASSUME NEW t \in Txns, TimerElapses(t)
      PROVE  SessionInv'
  <2>1. /\ UNCHANGED <<sessions, now, boot, committed, proof, activated, actBoot,
                       actAt>>
        /\ UNCHANGED <<ipc, bound, rolledBack>>
    BY <1>18 DEF TimerElapses
  <2>2. \A u \in Txns : Open(u)' /\ Whole(u)' => Open(u) /\ Whole(u)
    BY <1>18, <2>1 DEF TimerElapses
  <2>3. OpenSessions'
    <3> HIDE DEF Open, Whole
    <3> QED
      BY <2>1, <2>2
  <2>4. MarkSessions'
    <3>1. ipc = "mark" /\ Untouched' => Untouched
      BY <1>18 DEF TimerElapses
    <3> HIDE DEF Untouched
    <3> QED
      BY <2>1, <3>1
  <2> QED
    BY <2>1, <2>3, <2>4
<1>19. ASSUME NEW t \in Txns, BeginRollback(t)
      PROVE  SessionInv'
  BY <1>19 DEF BeginRollback
<1>20. ASSUME NEW t \in Txns, RestoreFirewall(t)
      PROVE  SessionInv'
  <2>1. /\ UNCHANGED <<sessions, now, boot, committed, proof, activated, actBoot,
                       actAt>>
        /\ UNCHANGED <<ipc, bound, rolledBack>>
    BY <1>20 DEF RestoreFirewall
  <2>2. \A u \in Txns : Open(u)' /\ Whole(u)' => Open(u) /\ Whole(u)
    BY <1>20, <2>1 DEF RestoreFirewall
  <2>3. OpenSessions'
    <3> HIDE DEF Open, Whole
    <3> QED
      BY <2>1, <2>2
  <2>4. MarkSessions'
    <3>1. ipc = "mark" /\ Untouched' => Untouched
      BY <1>20 DEF RestoreFirewall
    <3> HIDE DEF Untouched
    <3> QED
      BY <2>1, <3>1
  <2> QED
    BY <2>1, <2>3, <2>4
<1>21. ASSUME NEW t \in Txns, RestoreSysctlsAndMark(t)
      PROVE  SessionInv'
  <2>1. /\ UNCHANGED <<sessions, now, boot, committed, proof, activated, actBoot,
                       actAt>>
        /\ UNCHANGED <<ipc, bound>>
    BY <1>21 DEF RestoreSysctlsAndMark
  <2>2. \A u \in Txns : Open(u)' /\ Whole(u)' => Open(u) /\ Whole(u)
    <3>1. /\ svc' = [svc EXCEPT ![t] = "idle"]
          /\ rolledBack' = [rolledBack EXCEPT ![t] = TRUE]
      BY <1>21, RestoredAndMarked
    <3> QED
      BY <2>1, <3>1
  <2>3. OpenSessions'
    <3> HIDE DEF Open, Whole
    <3> QED
      BY <2>1, <2>2
  <2>4. MarkSessions'
    <3>1. /\ rolledBack' = [rolledBack EXCEPT ![t] = TRUE]
          /\ UNCHANGED <<ipc, cur, timerOn>>
      BY <1>21, RestoredAndMarked DEF RestoreSysctlsAndMark
    <3>2. svc' = [svc EXCEPT ![t] = "idle"] /\ svc[t] = "sysctls"
      BY <1>21, RestoredAndMarked DEF RestoreSysctlsAndMark
    <3>3. ipc = "mark" /\ Untouched' => Untouched
      BY <3>1, <3>2
    <3> HIDE DEF Untouched
    <3> QED
      BY <2>1, <3>3
  <2> QED
    BY <2>1, <2>3, <2>4
<1>22. ASSUME NEW t \in Txns, RestartService(t)
      PROVE  SessionInv'
  BY <1>22 DEF RestartService
<1>23. ASSUME NEW t \in Txns, StopCommittedTimer(t)
      PROVE  SessionInv'
  BY <1>23 DEF StopCommittedTimer
<1>24. ASSUME NEW t \in Txns, NEW s \in sessions, Confirm(t, s)
      PROVE  SessionInv'
  BY <1>24 DEF Confirm, LockFree, ProofAccepted
<1>25. ASSUME NEW p \in Ports, Login(p)
      PROVE  SessionInv'
  <2> DEFINE new == [started |-> now, port |-> p, via |-> net["firewall"]]
  <2>1. /\ UNCHANGED <<now, boot, committed, rolledBack, proof, activated,
                       actBoot, actAt, svc, ipc, bound, cur>>
        /\ sessions' = sessions \cup {new}
        /\ new.started = now /\ new.via = net["firewall"]
    BY <1>25 DEF Login
  <2>2. net = CandidateNetwork => new.via = "candidate"
    BY <2>1, CandidateFacts DEF Networks
  <2> HIDE DEF new
  <2>3. SessionsPast'
    BY <2>1
  <2>4. MarkSessions'
    BY <2>1, <2>2
  <2>5. OpenSessions'
    BY <2>1, <2>2
  <2> QED
    BY <2>1, <2>3, <2>4, <2>5
<1>26. CASE Tick
  BY <1>26 DEF Tick
<1>27. CASE Reboot
  BY <1>27 DEF Reboot
<1>28. CASE UNCHANGED vars
  BY <1>28 DEF vars
<1> QED
  BY <1>1, <1>2, <1>3, <1>4, <1>5, <1>6, <1>7, <1>8, <1>9, <1>10, <1>11, <1>12, <1>13, <1>14, <1>15, <1>16, <1>17, <1>18, <1>19, <1>20, <1>21, <1>22, <1>23, <1>24, <1>25, <1>26, <1>27, <1>28 DEF Next

(* The first snapshot is taken before anything is activated, and kept.     *)
LEMMA FirstSnapshotStep ==
  ASSUME TypeOK, FirstSnapshot, [Next]_vars
  PROVE  FirstSnapshot'
<1>1. ASSUME NEW k \in Kinds, NEW t \in Txns, Arm(k, t)
      PROVE  FirstSnapshot'
  <2>1. /\ durable[t] = "absent" /\ created' = Append(created, t)
        /\ snapshot' = [snapshot EXCEPT ![t] = net]
        /\ durable' = [durable EXCEPT ![t] = "torn"]
        /\ created \in Seq(Txns) /\ snapshot \in [Txns -> Networks]
        /\ durable \in [Txns -> {"absent", "torn", "ready"}]
    BY <1>1 DEF Arm, TypeOK
  <2>2. CASE created = <<>>
    <3>1. net = PriorNetwork
      BY <2>2 DEF FirstSnapshot
    <3>2. created' # <<>> /\ Head(created') = t
      BY <2>1, <2>2
    <3> QED
      BY <2>1, <3>1, <3>2 DEF FirstSnapshot
  <2>3. CASE created # <<>>
    <3>1. /\ created' # <<>> /\ Head(created') = Head(created)
          /\ Head(created) \in Txns
      BY <2>1, <2>3
    <3>2. Head(created) # t
      BY <2>1, <2>3 DEF FirstSnapshot
    <3> QED
      BY <2>1, <2>3, <3>1, <3>2 DEF FirstSnapshot
  <2> QED
    BY <2>2, <2>3
<1>2. CASE CreateTransaction
  BY <1>2 DEF CreateTransaction, FirstSnapshot, TypeOK
<1>3. ASSUME ~ \E k \in Kinds, t \in Txns : Arm(k, t), ~ CreateTransaction
      PROVE  FirstSnapshot'
  <2>1. UNCHANGED <<created, snapshot, durable>>
    BY <1>3 DEF Next, vars, markerVars, Arm, CreateTransaction, StartTimer, ArmFails, Provision,
         ActivateFirewall, ActivateSysctls, VerifyAndPublish, ReadBoundary,
         MarkActivated, FinishInstall, StepFails, TriggerRollback,
         TriggerFails, RollbackReturned, StopTimerAfterRollback,
         CrashInstaller, TimerElapses, BeginRollback, RestoreFirewall,
         RestoreSysctlsAndMark, RestartService, StopCommittedTimer, Confirm,
         Login, Tick, Reboot
  <2>2. created = <<>> => UNCHANGED net /\ ipc' = "idle"
                 /\ \A t \in Txns : svc'[t] = "idle" /\ ~timerOn'[t]
    <3> SUFFICES ASSUME created = <<>>
                 PROVE  UNCHANGED net /\ ipc' = "idle"
                 /\ \A t \in Txns : svc'[t] = "idle" /\ ~timerOn'[t]
      OBVIOUS
    <3>1. /\ net = PriorNetwork /\ ipc = "idle"
          /\ \A t \in Txns : durable[t] = "absent" /\ svc[t] = "idle" /\ ~timerOn[t]
      BY DEF FirstSnapshot
    <3>2. UNCHANGED net
      BY <1>3, <3>1 DEF Next, vars, markerVars, systemdVars, installerVars, LockFree, Arm, CreateTransaction, StartTimer, ArmFails, Provision,
         ActivateFirewall, ActivateSysctls, VerifyAndPublish, ReadBoundary,
         MarkActivated, FinishInstall, StepFails, TriggerRollback,
         TriggerFails, RollbackReturned, StopTimerAfterRollback,
         CrashInstaller, TimerElapses, BeginRollback, RestoreFirewall,
         RestoreSysctlsAndMark, RestartService, StopCommittedTimer, Confirm,
         Login, Tick, Reboot
    <3>3. ipc' = "idle"
      BY <1>3, <3>1 DEF Next, vars, markerVars, systemdVars, installerVars, LockFree, Arm, CreateTransaction, StartTimer, ArmFails, Provision,
         ActivateFirewall, ActivateSysctls, VerifyAndPublish, ReadBoundary,
         MarkActivated, FinishInstall, StepFails, TriggerRollback,
         TriggerFails, RollbackReturned, StopTimerAfterRollback,
         CrashInstaller, TimerElapses, BeginRollback, RestoreFirewall,
         RestoreSysctlsAndMark, RestartService, StopCommittedTimer, Confirm,
         Login, Tick, Reboot
    <3>4. ASSUME NEW t \in Txns PROVE svc'[t] = "idle"
      BY <1>3, <3>1, <3>4 DEF Next, vars, markerVars, systemdVars, installerVars, LockFree, Arm, CreateTransaction, StartTimer, ArmFails, Provision,
         ActivateFirewall, ActivateSysctls, VerifyAndPublish, ReadBoundary,
         MarkActivated, FinishInstall, StepFails, TriggerRollback,
         TriggerFails, RollbackReturned, StopTimerAfterRollback,
         CrashInstaller, TimerElapses, BeginRollback, RestoreFirewall,
         RestoreSysctlsAndMark, RestartService, StopCommittedTimer, Confirm,
         Login, Tick, Reboot
    <3>5. ASSUME NEW t \in Txns PROVE ~timerOn'[t]
      BY <1>3, <3>1 DEF TypeOK, Next, vars, markerVars, systemdVars, installerVars, LockFree, Arm, CreateTransaction, StartTimer, ArmFails, Provision,
         ActivateFirewall, ActivateSysctls, VerifyAndPublish, ReadBoundary,
         MarkActivated, FinishInstall, StepFails, TriggerRollback,
         TriggerFails, RollbackReturned, StopTimerAfterRollback,
         CrashInstaller, TimerElapses, BeginRollback, RestoreFirewall,
         RestoreSysctlsAndMark, RestartService, StopCommittedTimer, Confirm,
         Login, Tick, Reboot
    <3> QED
      BY <3>2, <3>3, <3>4, <3>5
  <2> QED
    BY <2>1, <2>2 DEF FirstSnapshot
<1> QED
  BY <1>1, <1>2, <1>3

(* What a commit promises holds for good: the oldest snapshot is the       *)
(* network from before vpnctl, and the confirming session came in through  *)
(* the candidate network, which stays in force until the next boot.  The   *)
(* last two unless init was run beside an undecided transaction or a       *)
(* restore failed half-way, and however late the installers are.           *)
THEOREM CommitKept == Spec => []CommitSound
<1>1. Init => RestoreInv /\ CommitInv /\ FirstSnapshot
  <2> SUFFICES ASSUME Init PROVE RestoreInv /\ CommitInv /\ FirstSnapshot
    OBVIOUS
  <2>1. RestoreInv
    BY DEF Init, RestoreInv, OnePending, HalfRestored, Pending, Live
  <2>2. NetInv
    BY DEF Init, NetInv, NoFailedRestore, BootsPast, OpenLive, FailingLive,
           BusyNetwork, OpenNetwork, SnapshotsKeepCommit,
           CommittedNetworkInForce, Open
  <2>3. SessionInv
    BY DEF Init, SessionInv, SessionsPast, MarkSessions, OpenSessions,
           ConfirmedThroughCandidate, Open
  <2>4. FirstSnapshot
    BY DEF Init, FirstSnapshot
  <2> QED
    BY <2>1, <2>2, <2>3, <2>4 DEF CommitInv
<1>2. /\ TypeOK /\ TypeOK' /\ GuardInv /\ RestoreInv /\ RestoreInv' /\ [Next]_vars
      /\ CommitInv
      => CommitInv'
  <2> SUFFICES ASSUME TypeOK, TypeOK', GuardInv, RestoreInv, RestoreInv', [Next]_vars,
                      CommitInv, Clean'
               PROVE  NetInv' /\ SessionInv'
    BY DEF CommitInv
  <2>1. Clean /\ Serial /\ Serial'
    BY MishapsGrow DEF Clean, Serial
  <2>2. SerialInv /\ OnePending /\ OnePending' /\ NetInv /\ SessionInv
    BY <2>1 DEF GuardInv, RestoreInv, CommitInv
  <2>3. NetInv'
    BY <2>2, NetStep
  <2> QED
    BY <2>2, <2>3, SessionStep
<1>3. TypeOK /\ TypeOK' /\ GuardInv /\ RestoreInv /\ [Next]_vars => RestoreInv'
  BY RestoreStep
<1>4. TypeOK /\ FirstSnapshot /\ [Next]_vars => FirstSnapshot'
  BY FirstSnapshotStep
<1>5. CommitInv /\ FirstSnapshot => CommitSound
  BY DEF CommitInv, NetInv, SessionInv, FirstSnapshot, CommitSound, Clean,
         InitialSnapshotIsPrior, InitialNetworkSnapshot
<1> QED
  BY <1>1, <1>2, <1>3, <1>4, <1>5, TypeCorrect, GuardHolds, PTL DEF Spec
=============================================================================
