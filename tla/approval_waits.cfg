SPECIFICATION FairSpec
CONSTANTS
  c1 = c1  c2 = c2  k1 = k1  k2 = k2
  Calls = {c1, c2}
  Clicks = {k1, k2}
  Window = 1
  TrustTimes = {1}
  Faults = {"crash"}
INVARIANTS ToldOnce
PROPERTIES KeepsConsent CallIsAnswered
CHECK_DEADLOCK FALSE
