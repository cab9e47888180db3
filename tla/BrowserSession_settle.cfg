SPECIFICATION FairSpec
CONSTANTS
  Tabs = {t1}
  t1 = t1
  Requests = {"query"}
  SignIns = 1
  Disturbances = 3
PROPERTIES
  TabsSettle
CHECK_DEADLOCK FALSE
