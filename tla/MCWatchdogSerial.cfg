SPECIFICATION Spec
CONSTANTS
  t1 = t1
  t2 = t2
  Txns = {t1, t2}
  None = None
  Ports = {22, 2222}
  AllowedPort = 22
  Window = 2
  MaxTime = 3
  MaxSessions = 2
  MaxFaults = 2
  FaultKinds = {"crash", "step", "systemctl", "reboot"}
SYMMETRY TxnSymmetry
INVARIANTS
  CommitSound
  TypeOK
  CandidateGuarded
  TerminalExclusive
CHECK_DEADLOCK FALSE
