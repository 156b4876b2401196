SPECIFICATION Spec
CONSTANTS
  Texts <- MCTexts
  Defs <- MCDefs
  Values = {1, 2}
  MaxCalls <- MCMaxCalls
  MaxRows = 3
  Batch = 2
CHECK_DEADLOCK FALSE
INVARIANTS
  TypeOK
  DefinitionsFit
  OwnValues
  OwnRows
  NoCursorLeft
