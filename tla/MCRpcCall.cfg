CONSTANTS
  Clients = {c1, c2}
  Methods <- MCMethods
  Registered <- MCRegistered
  Template <- MCTemplate
  Params <- MCBooleans
  BadParam = BadParam
  Players <- MCBooleans
  FirstPlayer = FALSE
  Values <- MCBooleans
  None = None
  Effect <- MCEffect
  Answer <- MCAnswer
  Throws <- MCThrows
  Lost = Lost
  Unset = Unset
SPECIFICATION Spec
INVARIANTS RpcInv LambdaAlive
PROPERTIES RpcIsAtomic CallReturns
CHECK_DEADLOCK FALSE
