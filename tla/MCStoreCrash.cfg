SPECIFICATION MCSpec
CONSTANTS
  w1 = w1
  w2 = w2
  c1 = c1
  c2 = c2
  c3 = c3
  c4 = c4
  Writers = {w1, w2}
  Changes = {c1, c2, c3, c4}
  MaxFaults = 4
  Exclusive = TRUE
  d1 = d1
  b1 = b1
  Clients = {d1}
  Archives = {b1}
  MaxCommands = 2
  MaxWrites = 2
  MaxMishaps = 1
  q1 = q1
  q2 = q2
  HostProcs = {q1, q2}
  h1 = h1
  h2 = h2
  HostNames = {h1, h2}
  u1 = u1
  Peers = {u1}
  MaxSaves = 4
  MaxTroubles = 1
SYMMETRY ProcSymmetry
INVARIANTS
  NoLostUpdate
  PreviousIsPredecessor
  DataSound
  HostSound
PROPERTIES
  ImplementsRegister
  RestoreExact
  RemovalConsented
CHECK_DEADLOCK FALSE
