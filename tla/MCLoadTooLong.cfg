SPECIFICATION Spec
CONSTANTS
  NULL = NULL
  Programs <- TooLong
  PIPE_PACKETS = 2
  NoMemory = FALSE
  ClientMayDie = FALSE
  RunsMayFail = FALSE
PROPERTY
  ProperLoads
