SPECIFICATION Spec
CONSTANTS
  h1 = h1
  h2 = h2
  n1 = n1
  n2 = n2
  n3 = n3
  a = a
  b = b
  i1 = i1
  i2 = i2
  r1 = r1
  s1 = s1
  s2 = s2
  Hosts = {h1,h2}
  Ids = {n1,n2}
  Names = {a,b}
  Invites = {i1,i2}
  Recoveries = {r1}
  Sessions = {s1,s2}
  Revoker = revoker
  Nobody = nobody
  Leaked = leaked
  RevokedBy = {"daemon", "cli"}
  FaultKinds = {"runtime", "restore", "save", "load", "secret", "lost", "proxy", "host", "crash"}
  MaxGeneration = 5
  MaxFaults = 2
SYMMETRY Symmetry
INVARIANTS
  SidesAgree
  TokensAdmitOnce
  MembersServed
CHECK_DEADLOCK FALSE
