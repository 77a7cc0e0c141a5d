SPECIFICATION Spec
CONSTANTS
  PIPE_BUFFERS = 2
  OPTION_nb_preload_monitor_ok_answers = 2
  NbRuns = 2
  TIMEOUT = TRUE
  Conforming = FALSE
  NoMemory = TRUE
  MaxSignals = 6
INVARIANTS TypeOK LagBound BadSignalContained NoMutualBlocking
PROPERTIES MisbehaviourEndsClient MonitorFollowsClient SilentClientKilled
