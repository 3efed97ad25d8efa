SPECIFICATION FairSpec
CONSTANTS
  w1 = w1
  w2 = w2
  Workers = {w1, w2}
  NoWorker = NoWorker
  CommandLimit = 3
  CliLimit = 2
  StopLimit = 2
  LaunchMayFail = TRUE
INVARIANTS
  TypeOK
  OneTrackedWorker
  RefreshThrottled
CHECK_DEADLOCK FALSE
PROPERTY
  SearchableUndisturbed
