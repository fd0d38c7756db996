SPECIFICATION Spec
CONSTANTS
  IdModulus <- MCIdModulus
  StartIds <- MCStartIds
  Ops <- MCMutating
  KeyFrags = 1
  TextFrags = 1
  Retries = 1
  ChanCap = 3
  MaxTickets = 4
  MaxClients = 1
  Ordered = FALSE
  IdleExpiry = FALSE
INVARIANTS AtMostOnce
CHECK_DEADLOCK FALSE
