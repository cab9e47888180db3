SPECIFICATION Spec
CONSTANTS
  f1 = f1
  f2 = f2
  r1 = r1
  r2 = r2
  f3 = f3
  Fingerprints <- MCFingerprints
  MaxEventsPerCycle = 2
  MaxSendBatch = 2
  MaxDequeue = 3
  MaxBuffer = 3
  Slots <- MCSlots
  None = None
  NumLines = 4
  Fingerprint <- TextTwice
  Rejected <- NoLine
  Oversized <- NoLine
  Stores = {"redis"}
  Backlog <- EmptyBuffer
  MaxFaults = 1
INVARIANTS
  AtLeastOnce
