SPECIFICATION FairSpec
CONSTANTS
  w1 = w1
  w2 = w2
  None = None
  Workers <- MCWorkers
  Messages <- MCMessages
  Sockets <- MCSockets
  Loads <- MCLoads
  MaxAttempts = 1
INVARIANTS
  FeedInOrder
  NeverSilentlyOff
PROPERTIES
  ReachesListeners
CHECK_DEADLOCK FALSE
