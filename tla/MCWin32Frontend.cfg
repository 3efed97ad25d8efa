SPECIFICATION FairSpec
CONSTANTS
  w1 = w1
  w2 = w2
  Workers = {w1, w2}
  NoWorker = NoWorker
  CommandLimit = 3
  CliLimit = 1
  StopLimit = 1
  ModalLimit = 2
  LaunchMayFail = TRUE
  RootsMayFail = TRUE
INVARIANTS
  TypeOK
  OneTrackedWorker
  WorkerGetsIndex
  RefreshThrottled
PROPERTY
  SearchableUndisturbed
CHECK_DEADLOCK FALSE
