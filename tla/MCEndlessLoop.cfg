SPECIFICATION InstrumentSpec
CONSTANTS
  NULL = NULL
  nb_modules = 1
  modules <- MCModules
  Program <- EndlessLoop
  Signal <- MCSignal
  OPTION_sm_trace = FALSE
  TIMEOUT = FALSE
  MaxCalls = 3
  MaxBlocks = 40
  n = 0
  Ignored = {"puts"}
  Intrinsics = {}
INVARIANT
  ConformingAccepted
