CONSTANTS
  Universe <- Types2
  Programs <- AllPrograms
SPECIFICATION Spec
INVARIANTS
  TypeOK
  SoundInference
  PrincipalTypes
  MatchesCover
  Terminates
PROPERTY SchemesStable
CHECK_DEADLOCK FALSE
