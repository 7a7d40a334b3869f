CONSTANTS
  Messages <- MCMessages
  Zero = 0
  InitialReadSize = 2
  InQuota = 3
  OutQuota = 2
  Response <- MCResponse
  Refusal <- MCRefusal
  MaxRequests = 4
  MaxAhead = 3
SPECIFICATION Spec
INVARIANTS PipeInv Framed InTurnNeverJams
PROPERTIES AnswersInOrder Exchange
CHECK_DEADLOCK FALSE
