SPECIFICATION FairSpec
CONSTANTS
  new = new
  Local = Local
  Absent = Absent
  Directory = Directory
  Partial = Partial
  Contents <- MCContents
  MaxText = 3
  InCap = 2
  OutCap = 2
  MaxPtys = 2
  MaxRefused = 2
INVARIANTS NothingLeaks KeysAreWhole NoTemporary
PROPERTIES ReplaceIsAllowed ToolReturns
CHECK_DEADLOCK FALSE
