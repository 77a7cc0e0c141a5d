SPECIFICATION Spec
CONSTANTS
  EXTEND_SIZE <- MCExtendSize
  OPTION_sm_trace = FALSE
  ReallocMoves = TRUE
  ReallocFails = FALSE
  Block = {0, 1}
  MaxDepth = 4
  MaxBlocks = 9
  MaxAllocations = 4
INVARIANT StacksCoherent
CHECK_DEADLOCK FALSE
