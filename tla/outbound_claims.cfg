SPECIFICATION Spec
CONSTANTS
  Events = {1, 2}
  Workers = {w1, w2, w3}
  Lease = 1
  MaxClock = 2
  MaxCrashes = 1
SYMMETRY Symmetry
INVARIANTS OneSenderPerLease RecordsAgree

