SPECIFICATION FairSpec
CONSTANTS
  f1 = f1
  f2 = f2
  r1 = r1
  r2 = r2
  f3 = f3
  Fingerprints <- MCFingerprints
  MaxEventsPerCycle = 2
  MaxSendBatch = 2
  MaxDequeue = 3
  MaxBuffer = 3
  Slots <- MCSlots
  None = None
  NumLines = 3
  Fingerprint <- ThreeTexts
  Rejected <- LastOfThree
  Oversized <- LastOfThree
  Stores = {"redis", "postgres"}
  Backlog <- Swapped
  MaxFaults = 2
INVARIANTS
  Bookkeeping
  StoredOnce
  AckedAreStored
PROPERTIES
  BufferDrains
