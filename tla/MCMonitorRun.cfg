SPECIFICATION Spec
CONSTANTS
  NULL = NULL
  nb_modules = 2
  modules <- MCmodules
  Signal <- MCSignal
  OPTION_sm_trace = FALSE
  TIMEOUT = TRUE
  MaxCalls = 3
  MaxBlocks = 4
INVARIANTS
  TypeOK StackLayout PlacesExist CallersHaveRows
  FailedReadEndsRun ExitNeverInconsistent SuccessMeansUnwound
  ActiveChainIsCallPath
PROPERTY ImplementsPolicy
CHECK_DEADLOCK FALSE
