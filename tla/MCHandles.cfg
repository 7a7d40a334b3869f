CONSTANTS
  MaxPipes = 4
  MaxNumbers = 9
SPECIFICATION Spec
INVARIANTS HandlesInv OpenUntilClosed NoCrossTalk OwnEvent GivenBack
CHECK_DEADLOCK FALSE
