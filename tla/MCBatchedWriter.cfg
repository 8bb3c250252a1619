SPECIFICATION WriterSpec
CONSTANTS
  Byte <- MCByte
  Strings <- MCStrings
  BUFFER_SIZE = 4
  MaxWritten = 9
INVARIANTS
  WriterTypeOK
  BufferInBounds
  NothingLost
PROPERTY ImplementsLog
CHECK_DEADLOCK FALSE
