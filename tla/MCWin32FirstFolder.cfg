SPECIFICATION Spec
CONSTANTS
  w1 = w1
  w2 = w2
  Workers = {w1, w2}
  NoWorker = NoWorker
  CommandLimit = 1
  CliLimit = 0
  StopLimit = 0
  ModalLimit = 2
  LaunchMayFail = FALSE
  RootsMayFail = FALSE
INVARIANT
  HandleIsThere
CHECK_DEADLOCK FALSE
