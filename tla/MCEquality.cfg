SPECIFICATION Spec
CONSTANTS
  Kind <- KindOf
  Concrete <- DefaultFreeVars
  Parts <- PartsOf
  VariantFields <- FieldsOf
  Enums <- MCEnums
  Asked <- MCAsked
  Operands <- MCOperands
  HasNaN <- NaNIn
INVARIANTS
  AnswersEquality
  OneHelperPerType
PROPERTY
  Ends
CHECK_DEADLOCK FALSE
