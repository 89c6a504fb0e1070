SPECIFICATION Spec
CONSTANTS
  DrawBits = 8
  IntBits = 6
  VarBits = 8
  CcgTests <- MCCcgTests
  Programs = 2
  Kinds = {"While", "DoWhile", "For"}
  Uncounted = {"Assignment"}
  Mantissa = 7
  MaxVisits = 3
CHECK_DEADLOCK FALSE
INVARIANTS
  MutationTypeOK
  VectorsFaithful
  FarthestChosen
  DrawsInRange
  LoopsEnd
