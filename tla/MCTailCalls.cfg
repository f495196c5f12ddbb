SPECIFICATION Behavior
CONSTANTS
  Programs <- MCPrograms
  Names <- MCNames
  Exprs <- MCExprs
  Depth <- Height
  MaxDepth = 100
INVARIANTS
  LoopIsRecursion
  ConstantStack
PROPERTY
  Ends
CHECK_DEADLOCK FALSE
