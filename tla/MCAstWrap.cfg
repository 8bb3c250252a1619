SPECIFICATION Spec
CONSTANTS
  Token = {tok}
  Grammar = {gram}
  INIT_NODE_ARRAY_SIZE = 1
  NODE_BYTES = 5
  SIZE_LIMIT = 32
  MaxNodes = 8
INVARIANT NoUndefinedBehaviour
CHECK_DEADLOCK FALSE
