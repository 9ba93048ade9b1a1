SPECIFICATION Spec
CONSTANTS
  Alphabets <- Texts
  Ordinary = {20013}
  MaxLen = 7
  MaxDepth = 2
INVARIANTS
  JsonDepthExact
  PollutionExact
  DecodeExact
  GarbageKept
  
CHECK_DEADLOCK FALSE
