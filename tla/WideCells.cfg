SPECIFICATION Spec
CONSTANTS
  Types <- MCTypes
  Depth <- MCDepth
  Elements <- Wide
  Payloads <- Nothing
  Environments <- Nothing
  MaxCells = 3
INVARIANT FieldsFit
CHECK_DEADLOCK FALSE
