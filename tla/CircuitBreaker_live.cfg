SPECIFICATION BreakerFairSpec
CONSTANTS
  c1 = c1
  c2 = c2
  c3 = c3
  Calls <- MCCalls
  FailureThreshold = 2
  RecoverySeconds = 2
INVARIANTS
  Consistent
  TrialFlagOwned
PROPERTIES
  Recovers
CHECK_DEADLOCK FALSE
