SPECIFICATION FairSpec
CONSTANTS
  IPs = {i1}
  Tasks = {t1, t2}
  Violations <- MCViolations
  BanSeconds <- MCBanSeconds
  MaxTime = 3
INVARIANTS
  TypeOK
  LatestBanHeld
PROPERTIES
  NoRunningBanCleared
  ExpiredBansLeave
