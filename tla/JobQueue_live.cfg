SPECIFICATION FairSpec
CONSTANTS
  j1 = j1
  j2 = j2
  j3 = j3
  w1 = w1
  w2 = w2
  Jobs <- MCJobs
  Priority <- MCPriority
  Unknown <- MCUnknown
  Workers <- MCWorkers
  Backends = {"redis", "memory"}
  MaxQueue = 1
  MaxRetries = 1
  MaxDead = 1
  MaxStops = 1
  MaxOutages = 1
INVARIANTS
  Bookkeeping
  LossNeedsFault
PROPERTIES
  KeepsLedger
  JobsSettle
CHECK_DEADLOCK FALSE
