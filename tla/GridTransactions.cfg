SPECIFICATION Spec
CONSTANTS
  None = None
  MaxBatches = 2
  MaxActors = 2
  MaxExports = 1
CHECK_DEADLOCK FALSE
 
PROPERTIES OperationsEnd
