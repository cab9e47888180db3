SPECIFICATION Spec
CONSTANTS
  Words = {w1, w2}
  w1 = w1
  w2 = w2
  Records = {r1, r2}
  r1 = r1
  r2 = r2
  Attempts = 2
  Own = Own
  Nowhere = Nowhere
SYMMETRY Symmetry
INVARIANTS
  TextSurvives
  SavedWhereMeant
  DeletedIsClosed
PROPERTIES
  SentOnce
CHECK_DEADLOCK FALSE
