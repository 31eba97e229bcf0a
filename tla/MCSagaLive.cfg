SPECIFICATION FairSpec
CONSTANTS
  s1 = s1
  s2 = s2
  p1 = p1
  Sagas = {s1, s2}
  Procs = {p1}
  Followed = s1
  NoSaga = NoSaga
  DrainTime = 1
  MaxTime = 3
  MaxSkew = 1
  MaxFaults = 2
PROPERTIES
  SagaSettles
  DeadlineStable
CHECK_DEADLOCK FALSE
