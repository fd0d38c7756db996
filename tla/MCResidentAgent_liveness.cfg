SPECIFICATION TimerSpec
CONSTANTS
  Opcodes <- MCUpload
  CrossEnds = FALSE
  IdleTicks = 2
  TickModulus = 3
  MaxSessions = 1
  MaxFrags = 1
  MaxNest = 1
PROPERTIES SlotIsFreed ExpiredIsClosed
