SPECIFICATION BatchesSpec
CONSTANTS
  Methods = {"Write", "WriteAsync", "Finish", "Sleep", "TryRead", "Shutdown"}
  ReadCallback = TRUE
  MaxWrites = 2
  MaxReads = 1
  Names = {"p"}
  Namespaces = {"n1", "n2"}
  Specs <- MCSpecs
  Pods <- AllPods
  Reviews = {"r1"}
  Installed = {"cluster", "namespaced"}
  MaxChanges = 3
  MaxBreaks = 1
  ClusterPolicies = {"p1", "p2"}
  Callers = {"c1", "c2"}
  MaxReports = 3
  maxRecentViolations = 2
  Streams = {"process", "network"}
  Subscribers = {"admission", "runtime"}
  Events <- MCEvents
  ProcessPolicies <- DefaultProcessPolicies
  NetworkPolicies <- DefaultNetworkPolicies
  Fetched = 2
  MaxEvents = 2
  MaxCrashes = 1
  MaxOutages = 0
  MaxLosses = 1
  MaxLate = 1
INVARIANT ViolationsAreKept
CHECK_DEADLOCK FALSE
