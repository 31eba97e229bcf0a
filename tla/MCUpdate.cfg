SPECIFICATION FairSpec
CONSTANTS
  Procs = {p1}
  Commands = {"update", "rollback"}
  Components <- MCComponents
  Versions = {1, 2, 3}
  Build <- MCBuild
  Role = "gateway"
  Writers = {"controller", "cli"}
  Faults <- MCFaults
  MaxFaults = 2
  MaxCrashes = 2
  MaxOther = 2
  MaxGen = 11
  Null = Null
  p1 = p1
INVARIANTS
  ReleaseSound
PROPERTIES
  NoWriteLost
  ManagementReturns
CHECK_DEADLOCK FALSE
