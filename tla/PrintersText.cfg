SPECIFICATION Spec
CONSTANTS
  GlobalCounts = {1, 2}
  Widths = {8}
  MaxLocalvars = 2
  MaxFunctionParameters = 1
  MaxStatementsPerBlock = 3
  MaxExpressionNesting = 1
  MaxBlockNesting = 2
  MaxPointerDepth = 2
  Cases = 1
  MaxInserted = 1
  MaxSequence = 2
INVARIANTS
  PrintersTypeOK
  ScopeAtPlace
PROPERTY
  ImplementsCBlock
