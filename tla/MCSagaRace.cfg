SPECIFICATION Spec
CONSTANTS
  s1 = s1
  p1 = p1
  p2 = p2
  Sagas = {s1}
  Procs = {p1, p2}
  Followed = s1
  NoSaga = NoSaga
  DrainTime = 0
  MaxTime = 2
  MaxSkew = 0
  MaxFaults = 1
SYMMETRY ProcSymmetry
INVARIANTS
  RecordSound
  EffectsBehindRecord
PROPERTIES
  ImplementsAbstract
CHECK_DEADLOCK FALSE
