CONSTANTS
  Clients = {c1, c2}
  MaxInstances = 3
  MaxRequests = 1
  Kinds = {"call"}
SPECIFICATION Spec
SYMMETRY Symmetry
CHECK_DEADLOCK FALSE
INVARIANTS ServerInv DequeInv CallbackAlive OneWorkerPerPipe SafeStop
PROPERTIES TrackedFrozen ConnectionsAreChannels
