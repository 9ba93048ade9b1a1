SPECIFICATION Spec
CONSTANTS
  VHosts <- OneDomain
  Watched <- AllButOne
  Versions <- MCVersions
  Reloads = {r1, r2}
  MaxChanges = 2
CHECK_DEADLOCK FALSE
INVARIANT
  SettledServesDisk
