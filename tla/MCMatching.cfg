SPECIFICATION Spec
CONSTANTS
  Declarations <- MCDeclarations
  Endings <- MCEndings
  Universe = {}
  MatchExprs <- MCMatches
  Patterns <- MCPatterns
  Depth <- Height
  ValuesOf <- MCValues
  Build <- BuildExpr
INVARIANTS
  FirstMatch
  NoNullLoads
  BindsTheParts
  FieldsReached
CHECK_DEADLOCK FALSE
