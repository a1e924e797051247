SPECIFICATION LockSpec
CONSTANTS
  Attempts = {a1, a2, a3}
  Ttl = 1
  MaxClock = 2
  MaxBoots = 1
SYMMETRY Symmetry
INVARIANTS NoLeakedLock RefusedOnlyByRival OverlapOnlyThroughWindows
CHECK_DEADLOCK FALSE
