SPECIFICATION FairSpec
CONSTANTS
  VHosts <- TwoDomains
  Watched <- AllButOne
  Versions <- MCVersions
  Reloads = {r1, r2}
  MaxChanges = 3
CHECK_DEADLOCK FALSE
INVARIANTS
  TypeOK
  ServedComplete
  ChangeInHand
PROPERTIES
  CleanReloadIsSnapshot
  EveryChangeReloaded
