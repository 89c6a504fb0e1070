SPECIFICATION FairSpec
CONSTANTS
  GlobalCounts = {1}
  Widths = {8}
  MaxFunctions = 2
  MaxLocalvars = 1
  MaxFunctionParameters = 0
  MaxStatementsPerBlock = 3
  MaxExpressionNesting = 0
  MaxBlockNesting = 2
  MaxPointerDepth = 1
  NoJumps = FALSE
CHECK_DEADLOCK FALSE
INVARIANTS
  TypeOK
  NeverDies
  JumpsLand
  ReturnEndsBlock
PROPERTY
  GenerationEnds
