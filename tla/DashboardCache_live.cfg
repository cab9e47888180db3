SPECIFICATION CacheFairSpec
CONSTANTS
  Changes = {1, 2}
  Theirs = 3
  Filters = {1, 2}
  Matching <- MCMatching
  Disturbances = 3
  Unknown = Unknown
INVARIANTS
  ScreensAreHonest
  OwnChangesShown
  AnnouncedChangesShown
  DoneIsDone
PROPERTIES
  ScreensSettle
CHECK_DEADLOCK FALSE
