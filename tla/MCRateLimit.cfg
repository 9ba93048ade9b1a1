SPECIFICATION Spec
CONSTANTS
  IPs = {i1}
  Tasks = {t1, t2}
  MaxRps = 2
  Second = 2
  RetainAge = 4
  MaxDelay = 2
  MaxTime = 6
SYMMETRY TaskSymmetry
INVARIANTS
  TypeOK
  LongRunQuota
  BurstBound
PROPERTIES
  RefusedOnlyOverQuota
