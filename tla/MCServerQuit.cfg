CONSTANTS
  Clients = {c1}
  MaxInstances = 4
  MaxRequests = 2
  Kinds = {"call", "reject"}
SPECIFICATION QuietSpec
CHECK_DEADLOCK FALSE
PROPERTIES QuitCompletes CollectorEnds ServedAnswered LeaversReleased ConnectionsAreChannels
