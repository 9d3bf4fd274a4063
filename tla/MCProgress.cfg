SPECIFICATION MCFairSpec
CONSTANTS
  Pids = {1, 2}
  MaxObjects = 3
INVARIANTS
  OneProcessPerPid
PROPERTIES
  SyncReturns ShutsDown StoreAnswers AdmissionConverges EventsAreSettled
CHECK_DEADLOCK FALSE
