SPECIFICATION Spec
CONSTANTS
  NULL = NULL
  Programs <- AllPrograms
  PIPE_PACKETS = 2
  NoMemory = TRUE
  ClientMayDie = TRUE
  RunsMayFail = TRUE
INVARIANTS
  TypeOK
  TablesReady
  IdsLeadToOwnTables
  OnlyProperLoads
  ExternalsResolved
  InitsInStep
  FreeSafe
PROPERTIES
  RefusalEndsClient
  MonitorFollowsClient
  FittingLoads
