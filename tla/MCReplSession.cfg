SPECIFICATION Spec

CONSTANTS
  Names <- MCNames
  Types <- MCTypes
  FnTypes = {"ii", "iii", "ii-ii", "is", "su"}
  ReadableTypes = {"int", "unit", "list"}
  BuiltinType <- MCBuiltinType
  Externs = {"puts"}
  Statements <- MCStatements
  Prelude <- MCPrelude
  Lines <- MCLines
  Files <- MCFiles
  MaxStatements = 4

INVARIANTS
  TypeOK
  FreshSupportedLower
  ReadsWhatIsReturned
  RedeclaredMeans

PROPERTIES
  KeepsALog
  EvaluationGrows
  FailureIsForGood

\* A session ends when its input does.
CHECK_DEADLOCK FALSE
