SPECIFICATION Spec
CONSTANTS
  Tabs = {t1, t2}
  t1 = t1
  t2 = t2
  Requests = {"query"}
  SignIns = 1
  Disturbances = 1
SYMMETRY Symmetry
INVARIANTS
  LogoutHolds
  SessionKept
CHECK_DEADLOCK FALSE
