SPECIFICATION FairSpec
CONSTANTS
  Procs = {p1, p2}
  p1 = p1
  p2 = p2
  Commands = {"switch", "defer", "apply", "repair"}
  FaultKinds = {"test", "host", "restore", "save", "publish", "call", "crash"}
  MaxNode = 3
  MaxOther = 2
  MaxFaults = 1
INVARIANTS
  NodeSound
PROPERTIES
  SelectionFollowsIntent
  RegisteredIsApplied
CHECK_DEADLOCK FALSE
