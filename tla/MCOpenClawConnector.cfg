CONSTANTS
  Callers = {c1, c2, c3}
  Direct = {c1}
  Pids = {p1, p2}
  NoPid = NoPid
  MaxRestarts = 0
  SpawnFaults = TRUE
  Clients = {k1, k2}
  NoClient = NoClient
  MaxLingering = 2
  Probes = {s1, s2}
SPECIFICATION ConnectorFairSpec
INVARIANTS
  OneReconnectTimeline
  NoClientWithoutGateway
  ToldOfTheConnection
  StoreKnowsTheConnection
PROPERTIES
  GatewayIsReached
