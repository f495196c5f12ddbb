SPECIFICATION Spec
CONSTANTS
  Declarations <- OptionOnly
  Endings <- NestedCases
  Universe = {}
  MatchExprs <- MCMatches
  Patterns <- MCPatterns
  Depth <- Height
  ValuesOf <- MCValues
  Build <- BuildExpr
INVARIANT LastCaseMatches
CHECK_DEADLOCK FALSE
