SPECIFICATION Spec
CONSTANTS
  n1 = n1
  n2 = n2
  e1 = e1
  e2 = e2
  e3 = e3
  p1 = p1
  p2 = p2
  p3 = p3
  None = None
  Nodes = {n1, n2}
  Ids = {e1, e2, e3}
  Owner <- MCOwner
  PathOf <- MCPathOf
  Ports = {1, 2}
  Published = {e1}
  Procs = {p1, p2}
  HostOf <- MCHostOf
  Commands = {"create", "defer", "remove"}
  Serial = TRUE
  Busy = {n1}
  FaultKinds = {"call", "save", "tunnel", "nginx", "kill", "restart"}
  MaxOther = 2
  MaxFaults = 1
INVARIANTS
  RoutesSound
  AckedStaysServed
PROPERTIES
  ReleasedIsUnused
CHECK_DEADLOCK FALSE
