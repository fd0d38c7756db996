SPECIFICATION Spec
CONSTANTS
  IdModulus <- MCIdModulus
  StartIds <- MCTwoStarts
  Ops <- MCAllOps
  KeyFrags = 2
  TextFrags = 2
  Retries = 1
  ChanCap = 3
  MaxTickets = 5
  MaxClients = 2
  Ordered = TRUE
  IdleExpiry = TRUE
INVARIANTS TypeOK AnswerIsWhole NeverRefusedAsReplay
PROPERTIES ImplementsCalls
CHECK_DEADLOCK FALSE
