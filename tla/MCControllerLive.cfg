SPECIFICATION FairSpec
CONSTANTS
  l1 = l1
  n1 = n1
  c1 = c1
  p1 = p1
  q1 = q1
  a = a
  x = x
  genesis = genesis
  Nobody = Nobody
  Genesis = genesis
  Locals = {l1}
  Rpcs = {n1}
  Clis = {c1}
  Repairs = {p1}
  Writers = {l1, n1, c1}
  Requests = {q1}
  LocalChanges = {a}
  CliChanges = {x}
  Changes = {q1, a, x, genesis}
  MaxRecords = 1
  FaultKinds = {"daemon", "answer", "cli", "power"}
  MaxFaults = 1
INVARIANTS
  CrashSound
PROPERTIES
  RequestsSettle
CHECK_DEADLOCK FALSE
