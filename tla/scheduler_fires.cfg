SPECIFICATION FairSpec
CONSTANTS
  Schedules = {s1}
  Crons = {1, 2}
  MaxClock = 5
  MaxCrashes = 2
INVARIANTS FiresOncePerSlot NoOverlap
PROPERTIES DueIsConsumed
