SPECIFICATION FairSpec
CONSTANTS
  IPs = {i1}
  Bodies = {b1}
  Pipes = {p1}
  Owner <- OneOwner
  Loads <- AllLoads
  PerTick = 1
  TicksPerSecond = 2
INVARIANTS
  TypeOK
  IntervalBound
  PipeIntact
  BodyInOrder
PROPERTIES
  LazyIsIdeal
  OnlyGrantsDelay
