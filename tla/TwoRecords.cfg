SPECIFICATION Spec
CONSTANTS
  Declarations <- AB
  Endings <- TwoRecords
  Universe = {}
  MatchExprs <- MCMatches
  Patterns <- MCPatterns
  Depth <- Height
  ValuesOf <- MCValues
  Build <- BuildExpr
INVARIANT FieldsReached
CHECK_DEADLOCK FALSE
