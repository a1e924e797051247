SPECIFICATION Spec
CONSTANTS
  Teammates = {t1, t2}
  Messages = {m1}
  Slow = {}
  Allowed = {"cancel", "error", "tick"}
  MaxCrashes = 0
SYMMETRY Symmetry
INVARIANTS AwaitingHasWaker CompletedWorkIsSeen
PROPERTIES CompletedStaysCompleted
