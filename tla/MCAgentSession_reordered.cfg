SPECIFICATION FairSpec
CONSTANTS
  IdModulus <- MCIdModulus
  StartIds <- MCStartIds
  Ops <- MCAllOps
  KeyFrags = 2
  TextFrags = 2
  Retries = 1
  ChanCap = 3
  MaxTickets = 4
  MaxClients = 1
  Ordered = FALSE
  IdleExpiry = FALSE
INVARIANTS MessageInv AnswerIsOwn WholePayload
PROPERTIES CallReturns
CHECK_DEADLOCK FALSE
