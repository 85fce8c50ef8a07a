SPECIFICATION FairSpec
CONSTANTS
  Calls = {k1, k2}
  None = None
  KillMayFail = TRUE
  MaxRequests = 3
CHECK_DEADLOCK FALSE
INVARIANTS OneOwnedService SuccessMeansStopped
PROPERTIES CallsEnd
