SPECIFICATION Spec
CONSTANTS
  BuiltInExtensions <- MCBuiltIn
  AllowedExtensions <- MCAllowed
  TextExtensions <- MCText
  Words <- MCWords
  DayLength = 3
  Times <- MCTimes
  Libraries <- MCLibraries
  Engines <- MCEngines
  Dialects = {"windows", "unix"}
  Tokens <- MCTokens
  Drafts <- MCDrafts
  TypeLimit = 1
  ResultLimits = {0, 1}
INVARIANTS
  TypeOK
  AnswerIsWhole
  DrillSearchesCandidates
  DayConstraintsKept
  DialectsAgree
  SuggestedIsUnderstood
CHECK_DEADLOCK FALSE
