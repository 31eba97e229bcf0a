SPECIFICATION Spec
CONSTANTS
  l1 = l1
  n1 = n1
  p1 = p1
  q1 = q1
  q2 = q2
  a = a
  b = b
  genesis = genesis
  Nobody = Nobody
  Genesis = genesis
  Locals = {l1}
  Rpcs = {n1}
  Clis = {}
  Repairs = {p1}
  Writers = {l1, n1}
  Requests = {q1, q2}
  LocalChanges = {a, b}
  CliChanges = {}
  Changes = {q1, q2, a, b, genesis}
  MaxRecords = 1
  FaultKinds = {"daemon", "answer", "cli", "runtime"}
  MaxFaults = 2
SYMMETRY ControllerSymmetry
INVARIANTS
  RuntimeSound
  ConfirmedStays
  NoLostUpdate
PROPERTIES
  RefusedStaysOut
CHECK_DEADLOCK FALSE
