SPECIFICATION MCSpec
CONSTANTS
  BurstSize = 2
  RefillTime = 2
  Capacity = 1
  Processes = {"p", "x"}
  Self = "self"
  compute_process_key <- MCKey
  Unresolved = {"x"}
  MaxTime = 3
  MaxStreams = 2
  Keys = {"A", "B"}
  Subject = "A"
  MaxClock = 6
  MaxSets = 1
  MaxStep = 4
  MaxGrants = 6
  MaxResets = 1
  Valid = {"A", "B"}
  Default = "default"
  MaxInodes = 4
  MaxEdits = 4
  Pids = {1, 2, 3}
  ContainerOf <- MCContainerOf
  NetnsOf <- MCNetnsOf
  Inodes = {1, 2}
  FileOf <- MCFileOf
  Publishers = {"t1", "t2"}
  MaxStarts = 3
  MaxFailures = 2
  MaxProfiles = 3
INVARIANTS
  SensorKnows  SteadyIsFound BurstsAreKept LatestIsServed
  NetworksAreFound ProcIsReadBack ProcessIsReported SettingsAreRight
PROPERTIES
  KeepsConnection
CHECK_DEADLOCK FALSE
