CONSTANTS
  Clients = {c1, c2}
  MaxInstances = 5
  MaxRequests = 1
  Kinds = {"call"}
SPECIFICATION UpSpec
CHECK_DEADLOCK FALSE
PROPERTY CallAnswered
