SPECIFICATION Spec
CONSTANTS
  OnWindows = TRUE
  Tree <- MCTree
  Reparse <- None
  KnownSystem <- None
  OSNames <- MCOSNames
  Profile <- Me
  Profiles <- MCProfiles
  Roaming <- MCRoaming
  LocalLow <- MCLocalLow
  Local <- MyLoc
  Install <- Such
  Terms <- MCTerms
  Decoys <- None
  MutationLimit = 2
  RowCap = 2
  LaggingView = FALSE
  CallsMayFail = TRUE
  InitialRoots <- None
  InitialExclusions <- None
  RootPaths <- MCRootPaths
  Selections <- MCSelections
  HidePaths <- MCHidePaths
  Legacy <- MCLegacy
INVARIANTS
  TypeOK
  PolicyCoversRoots
  SelectedAppDataOpen
PROPERTY
  ChangesAreAtomic
CHECK_DEADLOCK FALSE
