SPECIFICATION InstrumentSpec
CONSTANTS
  NULL = NULL
  nb_modules = 2
  modules <- MCModules
  Program <- TwoModules
  Signal <- MCSignal
  OPTION_sm_trace = TRUE
  TIMEOUT = FALSE
  MaxCalls = 4
  MaxBlocks = 40
  n = 2
  Ignored = {"puts"}
  Intrinsics = {}
INVARIANTS
  ConformingAccepted
  MonitorInStep
  TraceIsInevitable
