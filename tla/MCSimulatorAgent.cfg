SPECIFICATION Spec
CONSTANTS
  a = a
  None = None
  Absent = Absent
  IdModulus = 16
  StartId = 13
  Contents <- MCContents
  TransferIds <- MCTransferIds
  KeyFragments = 2
  CacheSize = 4
  PendingSize = 4
  Lateness = 2
  MaxCalls = 5
  MaxSessions = 2
  LaterCalls = 4
INVARIANTS RunsOnce WholeIsRun CommitIsStored TransferIsFree
CHECK_DEADLOCK FALSE
