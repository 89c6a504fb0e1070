SPECIFICATION TSpec
CONSTANTS
  GlobalCounts = {1}
  Widths = {8}
  MaxFunctions = 3
  MaxLocalvars = 1
  MaxFunctionParameters = 0
  MaxStatementsPerBlock = 1
  MaxExpressionNesting = 1
  MaxBlockNesting = 0
  MaxPointerDepth = 1
  NoJumps = TRUE
  MaxDepth = 1
  Cases = 1
  MaxPending = 5
  MaxInserting = 1
CHECK_DEADLOCK FALSE
INVARIANTS
  TranslationTypeOK
  ExternAtLineStart
  InsertedInScope
PROPERTY
  ImplementsUnit
