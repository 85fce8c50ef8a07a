SPECIFICATION MCSpec
CONSTANTS
  Profiles = {p1}
  None = None
  EventCapacity = 1
  MaxInputs = 3
  HasPicker = TRUE
  grid = grid
  taskCenter = taskCenter
  q1 = q1
  q2 = q2
  a = a
  b = b
CONSTRAINT Small
CHECK_DEADLOCK FALSE
INVARIANTS QuietPanelIsCurrent ListsBelongToShownSession
PROPERTIES ShownNeverGoesBack PanelSettles TabsAndFormsAreKept ViewersStayTrue LoadsEnd
