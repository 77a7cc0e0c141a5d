SPECIFICATION Spec
CONSTANTS
  PIPE_BUFFERS = 2
  OPTION_nb_preload_monitor_ok_answers = 0
  NbRuns = 3
  TIMEOUT = FALSE
  Conforming = TRUE
  NoMemory = FALSE
  MaxSignals = 12
INVARIANT ConformingSucceeds
PROPERTY MonitorFollowsRuns
