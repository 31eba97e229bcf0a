SPECIFICATION FairSpec
CONSTANTS
  n1 = n1
  n2 = n2
  Nodes = {n1, n2}
  Members = {n1}
  Host = Host
  Null = Null
  Writes <- MCWrites
  Faults <- MCFaults
  MaxRotations = 1
  MaxRenewals = 1
  MaxCredential = 2
  MaxFaults = 1
INVARIANTS
  IdentitySound
  NodesManageable
PROPERTIES
  RotationGetsReady
CHECK_DEADLOCK FALSE
