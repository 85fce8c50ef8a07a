SPECIFICATION Spec
CONSTANTS
  Nothing = Nothing
  t1 = t1
  t2 = t2
  Tasks = {t1, t2}
  MaxCompleted = 1
  Sessions = {"source", "target"}
  Limits <- MCLimits
CHECK_DEADLOCK FALSE
INVARIANTS TasksAreShownAsTheyWere
PROPERTIES TasksEnd
