SPECIFICATION FairSpec
CONSTANTS
  HttpAddrs = {h}
  HttpsAddrs = {s}
  Conns = {c1, c2, c3}
  IPs = {i1}
  Remote <- OneRemote
  MaxConnections = 1
CHECK_DEADLOCK FALSE
INVARIANTS
  TypeOK
  PermitsAccounted
  NobodyCutOff
PROPERTIES
  ShutdownCompletes
