SPECIFICATION Spec
CONSTANTS
  Radix = 4
  NewLine = 2
  BufferSize = 4
  Chars <- MCChars
  Literals <- MCLiterals
  Inputs <- MCInputs
  MaxStrings = 1
  MaxCells = 2
  MaxCalls = 3
  Junk = Junk
INVARIANTS
  TypeOK
  MemorySafe
  StringsEnd
  CopiesChars
  Concatenates
  ReadsInOrder
PROPERTY
  BuiltinsReturn
CHECK_DEADLOCK FALSE
