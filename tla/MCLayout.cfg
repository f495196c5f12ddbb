SPECIFICATION Spec
CONSTANTS
  Types <- MCTypes
  Depth <- MCDepth
  Elements <- Narrow
  Payloads <- MCPayloads
  Environments <- NarrowEnvironments
  MaxCells = 3
INVARIANTS
  FieldsFit
  WalksTheList
CHECK_DEADLOCK FALSE
