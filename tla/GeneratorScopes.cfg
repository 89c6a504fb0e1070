SPECIFICATION Spec
CONSTANTS
  GlobalCounts = {1}
  Widths = {8, 16}
  MaxFunctions = 2
  MaxLocalvars = 2
  MaxFunctionParameters = 1
  MaxStatementsPerBlock = 3
  MaxExpressionNesting = 1
  MaxBlockNesting = 1
  MaxPointerDepth = 2
  NoJumps = TRUE
CHECK_DEADLOCK FALSE
INVARIANTS
  ContextsAgree
  NoShadowing
  PointersWellFormed
  PtrAssignmentsTyped
  FunctionsLimited
  CalleesFirst
  CallTree
  NeverDies
