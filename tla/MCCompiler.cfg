SPECIFICATION Spec
CONSTANTS
  WORD_LIMIT = 8
  INT_LIMIT = 4
  MaxBlockStatements = 2
  Programs <- MCPrograms
  NumberValue <- MCNumberValue
INVARIANTS
  AcceptedAssembles
  AssertionsHold
  NoJunkRead
  StackRight
PROPERTIES
  ImplementsBasic
  StatementsComplete
