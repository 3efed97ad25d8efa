SPECIFICATION Spec
CONSTANTS
  i1 = i1
  i2 = i2
  i3 = i3
  Inodes = {i1, i2, i3}
  NoInode = NoInode
  MaxTime = 3
  RefreshSeconds = 2
  RetrySeconds = 1
  ClockSetBack = TRUE
  PersistMayFail = TRUE
  WorkerLimit = 2
  ScanLimit = 1
SYMMETRY Sym
INVARIANTS
  TypeOK
  PublishedComplete
PROPERTY
  ScheduleKept
CHECK_DEADLOCK FALSE
