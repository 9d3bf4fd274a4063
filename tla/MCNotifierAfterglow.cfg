SPECIFICATION MCSpec
CONSTANTS
  Scenarios = {"server", "peers", "networks"}
  a1 = a1  a2 = a2  p1 = p1  null = null  external = external
  k1 = k1  k2 = k2  proc1 = proc1  proc2 = proc2
  Conn <- AfterglowConns
  ContainerEndpoint <- NoSet
  Addr <- MCAddr
  NullAddr = null
  CanonicalExternal = external
  PrivateNetworks <- MCPrivate
  NonAggregated <- NoSet
  Networks <- MCNetworks
  NetAddr <- MCNetAddr
  IgnoredPorts <- NoSet
  IgnoredAddrs <- NoSet
  ProcessKey <- NoMap
  EnableAfterglow = TRUE
  AfterglowPeriod = 2
  TurnOffScrape = FALSE
  ScrapeInterval = 1
  RetryInterval = 1
  PerContainerRateLimit = 5
  ControlMessages <- MCMessages
  RuntimeConfigs = {"NONE", "INGRESS"}
  MaxTime = 3
  MaxEvents = 1
INVARIANTS TypeOK SensorViewExact NoDuplicateOpen RepresentationCurrent
PROPERTY ScrapedIsHeldOpen
