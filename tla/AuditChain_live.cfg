SPECIFICATION FairSpec
CONSTANTS
  t1 = t1
  t2 = t2
  t3 = t3
  lower = lower
  upper = upper
  None = None
  Requests <- MCRequests
  Addresses <- MCAddresses
  Inet <- MCInet
  EntriesPerTxn = 1
  FromSeqs = {1, 2}
  Limits = {2, 9}
  MaxSeq = 4
INVARIANTS
  ChainSound
  HonestChecks
PROPERTIES
  AppendsOnly
  CompleteMeansAll
  RequestsEnd
CHECK_DEADLOCK FALSE
