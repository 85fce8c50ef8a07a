SPECIFICATION FairSpec
CONSTANTS
  c1 = c1  c2 = c2  t1 = t1  t2 = t2  t3 = t3  u1 = u1
  Connections = {c1}
  NoConnection = NoConnection
  Tasks = {t1, t2}
  Users = {u1}
  Free = Free
  MaxIntent = 3
  MaxRevision = 3
INVARIANTS InvalidatedStaysGone NoSessionBeforeSave HandlesAreOwned
PROPERTIES ImplementsSlots OperationsEnd
