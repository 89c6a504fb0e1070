SPECIFICATION TSpec
CONSTANTS
  GlobalCounts = {1}
  Widths = {8}
  MaxFunctions = 2
  MaxLocalvars = 1
  MaxFunctionParameters = 0
  MaxStatementsPerBlock = 2
  MaxExpressionNesting = 0
  MaxBlockNesting = 1
  MaxPointerDepth = 1
  NoJumps = FALSE
  MaxDepth = 1
  Cases = 0
  MaxPending = 0
  MaxInserting = 1
CHECK_DEADLOCK FALSE
INVARIANTS
  JumpsPrinted
  NeverDies
