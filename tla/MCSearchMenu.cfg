CONSTANTS
  none = none
  typed = typed
  full = full
  a = a
  b = b
  t1 = t1
  t2 = t2
  None = None
  Texts <- MCTexts
  Empty = none
  Completion <- MCCompletion
  Files = {a, b}
  Answer <- MCAnswer
  LastGeneration = 1
  Pointers = {t1, t2}
  Xs <- MCXs
  Drops <- MCDrops
  PostLimit = 2
SPECIFICATION Spec
PROPERTY MenuActsOnItsRow
