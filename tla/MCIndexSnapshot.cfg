SPECIFICATION Spec
CONSTANTS
  f1 = f1
  f2 = f2
  d1 = d1
  d2 = d2
  d3 = d3
  p1 = p1
  p2 = p2
  Files = {f1, f2}
  Dirs = {d1, d2, d3}
  NoDir = NoDir
  NoArchive = NoArchive
  Importers = {p1, p2}
  Stored = 2
  MaxVersion = 2
  MaxStarted = 2
SYMMETRY Sym
INVARIANTS
  TypeOK
  StateIsSound
  FailureKeepsIndex
  ArchiveIsOneVersion
PROPERTY
  IndexNeverLost
CHECK_DEADLOCK FALSE
