SPECIFICATION Spec
CONSTANTS
  Opcodes <- MCAll
  CrossEnds = FALSE
  IdleTicks = 2
  TickModulus = 3
  MaxSessions = 1
  MaxFrags = 1
  MaxNest = 2
INVARIANTS TypeOK OwnStackRestored BufferIntact DosOnlyWhenIdle UnloadIsClean
