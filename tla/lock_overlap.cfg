SPECIFICATION LockSpec
CONSTANTS
  Attempts = {a1, a2}
  Ttl = 1
  MaxClock = 2
  MaxBoots = 1
SYMMETRY Symmetry
INVARIANTS MutualExclusion
CHECK_DEADLOCK FALSE
