SPECIFICATION Spec
CONSTANTS
  Token = {tok}
  Grammar = {gram}
  INIT_NODE_ARRAY_SIZE = 2
  NODE_BYTES = 5
  SIZE_LIMIT = 1000
  MaxNodes = 6
INVARIANTS
  TypeOK
  TreeWellFormed
  NoUndefinedBehaviour
PROPERTY AppendOnly
CHECK_DEADLOCK FALSE
