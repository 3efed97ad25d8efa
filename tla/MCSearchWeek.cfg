SPECIFICATION Spec
CONSTANTS
  BuiltInExtensions <- MCBuiltIn
  AllowedExtensions <- MCAllowed
  TextExtensions <- MCText
  Words <- MCWords
  DayLength = 3
  Times <- MCTimes
  Libraries <- MCLibraries
  Engines <- OnlyWorking
  Dialects = {"windows"}
  Tokens <- MCTokens
  Drafts <- MCDrafts
  TypeLimit = 1
  ResultLimits = {0}
INVARIANT
  ContentKeepsConstraints
CHECK_DEADLOCK FALSE
