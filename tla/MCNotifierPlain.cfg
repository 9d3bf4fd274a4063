SPECIFICATION MCSpec
CONSTANTS
  Scenarios = {"clients", "endpoints"}
  a1 = a1  a2 = a2  p1 = p1  null = null  external = external
  k1 = k1  k2 = k2  proc1 = proc1  proc2 = proc2
  Conn <- TwoClients
  ContainerEndpoint <- MCEndpoints
  Addr <- MCAddr
  NullAddr = null
  CanonicalExternal = external
  PrivateNetworks <- MCPrivate
  NonAggregated <- NoSet
  Networks <- NoSet
  NetAddr <- NoMap
  IgnoredPorts <- DiscardPort
  IgnoredAddrs <- NoSet
  ProcessKey <- MCProcessKey
  EnableAfterglow = FALSE
  AfterglowPeriod = 1
  TurnOffScrape = FALSE
  ScrapeInterval = 1
  RetryInterval = 1
  PerContainerRateLimit = 1
  ControlMessages <- NoSet
  RuntimeConfigs = {"NONE", "EGRESS"}
  MaxTime = 3
  MaxEvents = 1
INVARIANTS SensorViewExact EndpointViewExact
PROPERTY ScrapedEndpointIsHeldOpen
