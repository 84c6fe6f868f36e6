SPECIFICATION Spec
CONSTANTS
  SlashPieces = {"/", "/api", "/v1", "/x", "/y", "/a", "/m"}
  Config <- MCConfig
  Changed <- MCChanged
  ForwarderTimeout = 30
  Scenarios <- MCScenarios
  Step = 500
  Backends = {"b1", "b2"}
  Shard <- MCShard
  HealthyThreshold = 2
  UnhealthyThreshold = 2
INVARIANTS
  GrantsWithinRate
  HealthIsKept
  ForwardedClean
PROPERTY
  ExchangesEnd
CHECK_DEADLOCK FALSE
