SPECIFICATION LimiterSpec
CONSTANTS
  BurstSize = 2
  RefillTime = 2
  Capacity = 1
  Keys = {"A"}
  Subject = "A"
  MaxClock = 6
  MaxSets = 0
  MaxStep = 1
  MaxGrants = 6
  MaxResets = 0
INVARIANT RateIsKept
CHECK_DEADLOCK FALSE
