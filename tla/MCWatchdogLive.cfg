SPECIFICATION FairSpec
CONSTANTS
  t1 = t1
  Txns = {t1}
  None = None
  Ports = {22, 2222}
  AllowedPort = 22
  Window = 2
  MaxTime = 3
  MaxSessions = 2
  MaxFaults = 3
  FaultKinds = {"crash", "step", "systemctl", "restore", "reboot"}
PROPERTIES
  MarkerMeansRestored
  LockoutEnds
CHECK_DEADLOCK FALSE
