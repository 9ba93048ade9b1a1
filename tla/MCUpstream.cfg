SPECIFICATION FairSpec
CONSTANTS
  Route <- Weighted
  Tasks = {t1, t2}
  CounterMod = 3
  MaxCalls = 3
  NoUpstream = NoUpstream
INVARIANTS
  TypeOK
  EvenShares
PROPERTIES
  NoneOnlyIfNoneSteady
  StatusFollows
