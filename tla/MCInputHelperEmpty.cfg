SPECIFICATION InputSpec
CONSTANTS
  WORD_LIMIT = 64
  INT_LIMIT = 16
  CHAR_LIMIT = 8
  Pieces <- MCPieces
  Inputs <- MCInputs
  MaxCalls = 3
INVARIANT EmptyIsZero
