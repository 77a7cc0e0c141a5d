SPECIFICATION Spec
CONSTANTS
  EXTEND_SIZE <- MCExtendSize
  OPTION_sm_trace = TRUE
  ReallocMoves = FALSE
  ReallocFails = FALSE
  Block = {0, 1}
  MaxDepth = 4
  MaxBlocks = 5
  MaxAllocations = 4
INVARIANTS StacksCoherent NoWildAccess PopsWhatWasPushed
CHECK_DEADLOCK FALSE
