SPECIFICATION Spec
CONSTANTS
  p1 = p1
  a = a
  b = b
  c = c
  t1 = t1
  t2 = t2
  Torn = Torn
  Absent = Absent
  None = None
  Paths <- MCPaths
  Blocks <- MCBlocks
  Contents <- MCContents
  Large <- MCLarge
  Frames <- MCFrames
  Screen = Screen
  MaxSize = 2
  TransferIds <- MCTransferIds
  MaxJobs = 3
  MaxBridges = 2
  MaxLocal = 1
  MaxRefused = 1
INVARIANTS TypeOK ReceiptIsStored DownloadIsFile NoOrphan
PROPERTIES UploadIsWhole NoClobber
SYMMETRY IdSymmetry
CHECK_DEADLOCK FALSE
