SPECIFICATION FairSpec
CONSTANTS
  IdModulus <- MCIdModulus
  StartIds <- MCStartIds
  Ops <- MCMutating
  KeyFrags = 1
  TextFrags = 1
  Retries = 1
  ChanCap = 2
  MaxTickets = 3
  MaxClients = 1
  Ordered = TRUE
  IdleExpiry = FALSE
PROPERTIES RetriesRecover
CHECK_DEADLOCK FALSE
