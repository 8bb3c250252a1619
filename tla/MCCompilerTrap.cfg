SPECIFICATION Spec
CONSTANTS
  WORD_LIMIT = 8
  INT_LIMIT = 4
  MaxBlockStatements = 1
  Programs <- MCPrograms
  NumberValue <- MCNumberValue
INVARIANT TrapsOnlyByZero
