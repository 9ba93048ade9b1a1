SPECIFICATION Spec
CONSTANTS
  IPs = {i1}
  Bodies = {b1}
  Pipes = {p1}
  Owner <- OneOwner
  Loads <- SmallLoads
  PerTick = 1
  TicksPerSecond = 2
INVARIANT
  BodyIntact
