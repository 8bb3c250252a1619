CONSTANTS
  Char <- MCChar
  Files <- MCFiles
  Letters <- MCLetters
  KEYWORD_MAP <- MCKeywords
  MAX_LINE_BUFFER = 7
  INIT_CAPACITY = 1
  TOKEN_BYTES = 3
  INITIAL_ARENA_SIZE = 2
  POINTER_SIZE = 4
  SIZE_LIMIT = 64
  MaxPieces = 4
SPECIFICATION Spec
INVARIANTS StoredInBlocks TypeOK LocationsTrue TokensAreLexemes NothingDropped EscapesReplaced ErrorsHaveTokens BlocksApart
PROPERTY Terminates
