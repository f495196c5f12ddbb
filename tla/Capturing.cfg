CONSTANTS
  Binder <- Binders
  Name <- Names
  NameOrder <- Order
  Builtin = {"print"}
  Types = {"int", "str", "list"}
  DefaultType = "int"
  MLIRType <- Lowered
  LetName <- LetNames
  MaxFuncs = 16
  MaxArgs = 6
  Programs <- CapturingPrograms
SPECIFICATION Spec
INVARIANT CaptureAgreement
CHECK_DEADLOCK FALSE
