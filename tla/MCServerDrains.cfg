CONSTANTS
  Clients = {c1}
  MaxInstances = 3
  MaxRequests = 0
  Kinds = {"call"}
SPECIFICATION Spec
CHECK_DEADLOCK FALSE
INVARIANT CollectorDrains
