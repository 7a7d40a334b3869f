CONSTANTS
  Clients = {c1}
  MaxInstances = 4
  MaxRequests = 0
  Kinds = {"call"}
SPECIFICATION Spec
CHECK_DEADLOCK FALSE
PROPERTY FinalClientWakesAccept
