SPECIFICATION FairSpec
CONSTANTS
  d1 = d1
  Requests = {d1}
  N = 2
  Soft = {1}
  Threshold = 2
  MaxAttempts = 2
  MaxTime = 1
  Faults = {"throw", "crash"}
INVARIANTS RunningIsExecuted FailedIsBlocked OpenIsEarned
PROPERTIES RunComesToRest
CHECK_DEADLOCK FALSE
