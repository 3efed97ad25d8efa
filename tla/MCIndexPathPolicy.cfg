SPECIFICATION PolicySpec
CONSTANTS
  OnWindows = TRUE
  Tree <- MCTree
  Reparse <- MCReparse
  KnownSystem <- MCKnownSystem
  OSNames <- MCOSNames
  Profile <- MCProfile
  Profiles <- MCProfiles
  Roaming <- MCRoaming
  LocalLow <- MCLocalLow
  Local <- MCLocal
  Install <- MCInstall
  Requests <- MCRequests
INVARIANTS
  PlanMatchesIntent
  InstallNeverExcluded
CHECK_DEADLOCK FALSE
