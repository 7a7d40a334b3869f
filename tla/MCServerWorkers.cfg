CONSTANTS
  Clients = {c1}
  MaxInstances = 4
  MaxRequests = 1
  Kinds = {"call"}
SPECIFICATION PatientSpec
CHECK_DEADLOCK FALSE
PROPERTY WorkersStop
