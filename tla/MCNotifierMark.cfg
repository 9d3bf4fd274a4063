SPECIFICATION MCSpec
CONSTANTS
  Scenarios = {"server"}
  a1 = a1  a2 = a2  p1 = p1  null = null  external = external
  k1 = k1  k2 = k2  proc1 = proc1  proc2 = proc2
  Conn <- OneServer
  ContainerEndpoint <- NoSet
  Addr <- MCAddr
  NullAddr = null
  CanonicalExternal = external
  PrivateNetworks <- MCPrivate
  NonAggregated <- NoSet
  Networks <- NoSet
  NetAddr <- NoMap
  IgnoredPorts <- NoSet
  IgnoredAddrs <- NoSet
  ProcessKey <- NoMap
  EnableAfterglow = FALSE
  AfterglowPeriod = 1
  TurnOffScrape = FALSE
  ScrapeInterval = 1
  RetryInterval = 1
  PerContainerRateLimit = 5
  ControlMessages <- NoSet
  RuntimeConfigs = {"NONE"}
  MaxTime = 2
  MaxEvents = 1
PROPERTY UpdateMarksActive
