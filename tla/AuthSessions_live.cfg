SPECIFICATION FairSpec
CONSTANTS
  t1 = t1
  t2 = t2
  t3 = t3
  t4 = t4
  k1 = k1
  None = None
  Requests <- MCRequests
  ResetTokens = {k1}
  Limit = 2
  Loads <- MCLoads
INVARIANTS
  SessionsAgree
  ChangeEndsOthers
  LoginsKeepLimit
PROPERTIES
  RequestsEnd
CHECK_DEADLOCK FALSE
