SPECIFICATION FairSpec
CONSTANTS
  c1 = c1
  c2 = c2
  edge = edge
  client = client
  Conns = {c1, c2}
  IPs = {edge, client}
  Peer <- Peers
  Requests <- All
  NoRequest = NoRequest
  Routes <- Table
  Banning = {"Timeout", "Protocol", "Waf"}
  MaxHeaderCount = 2
  MaxUriSize = 2
  MaxBodySize = 1
  CBodyTimeout = 3
  SConnect = 1
  SResponse = 2
INVARIANTS
  TypeOK
  ForwardedChecked
  LongestRoute
  BansDeserved
PROPERTIES
  RefusedStaysOut
  LateBackendForgiven
  RequestsEnd
