SPECIFICATION Spec
CONSTANTS
  Columns = 3
  Rows = 2
  MaxSequence = 3
  MaxFeeds = 5
  Chunks <- MCChunks
INVARIANTS CursorInGrid ChangeIsSeen TextIsShown
CHECK_DEADLOCK FALSE
