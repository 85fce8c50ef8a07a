SPECIFICATION FairSpec
CONSTANTS
  Sessions = {s1}
  Connections = {c1}
  Calls = {k1, k2}
  f1 = f1
  Callers = {f1}
  None = None
  Control = Control
  Limits <- MCLimits
CHECK_DEADLOCK FALSE
INVARIANTS OpenSessionIsShown SuccessMeansDisconnected GenerationsStaySeparate
PROPERTIES CallsEnd
