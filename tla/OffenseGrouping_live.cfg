SPECIFICATION FairSpec
CONSTANTS
  t1 = t1
  t2 = t2
  t3 = t3
  r1 = r1
  r2 = r2
  None = None
  Txns <- MCTxns
  Rules <- MCRules
  OfflineRule = r1
  Risk <- MCRisk
  EventRisk = 3
  Cooldown <- MCCooldown
  OffenseWindow = 1
  MaxNow = 2
  Loads <- MCLoads
INVARIANTS
  Grouped
  CountsMatchLinks
  PromotedOnce
PROPERTIES
  ClosedTakesNoLinks
  TransactionsEnd
CHECK_DEADLOCK FALSE
