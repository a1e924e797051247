SPECIFICATION FairSpec
CONSTANTS
  Teammates = {t1}
  Messages = {m1}
  Slow = {}
  Allowed = {"cancel", "error", "report", "tick"}
  MaxCrashes = 1
INVARIANTS LiveRunKeepsTask
PROPERTIES ExecutingIsOwned AwaitingEnds
