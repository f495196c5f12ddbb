CONSTANTS
  Binder <- Binders
  Name <- Names
  NameOrder <- Order
  Builtin = {"print"}
  Types = {"int", "str", "list"}
  DefaultType = "int"
  MLIRType <- Lowered
  LetName <- LetNames
  MaxFuncs = 16
  MaxArgs = 3
  Programs <- AllPrograms
SPECIFICATION Spec
INVARIANTS
  TypeOK
  LexicalResolution
  SpecializedOnce
  CaptureAgreement
  ValuesStayInTheirFunction
  SymbolsUnique
  ModuleClosed
PROPERTY Termination
CHECK_DEADLOCK FALSE
