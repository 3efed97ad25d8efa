SPECIFICATION WorkerSpec
CONSTANTS
  OnWindows = TRUE
  Tree <- MCTree
  Reparse <- None
  KnownSystem <- MCKnownSystem
  OSNames <- MCOSNames
  Profile <- MCProfile
  Profiles <- MCProfiles
  Roaming <- MCRoaming
  LocalLow <- MCLocalLow
  Local <- MCLocal
  Install <- MCInstall
  Terms <- MCTerms
  Decoys <- MCDecoys
  MutationLimit = 1
  RowCap = 3
  LaggingView = TRUE
  CallsMayFail = TRUE
  InitialRoots <- MCWorkerRoots
  InitialExclusions <- MCWorkerExclusions
  PollLimit = 8
  RestartLimit = 1
  StatusMayFail = TRUE
INVARIANTS
  MaintenanceTypeOK
  InstallNeverHidden
  SteadyScrubFinishes
  CrawlFailureReported
  DrainFinishes
CHECK_DEADLOCK FALSE
