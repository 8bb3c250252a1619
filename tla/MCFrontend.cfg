SPECIFICATION Spec
CONSTANTS
  MaxStatements = 3
  Programs <- MCPrograms
INVARIANTS
  AcceptsMeaningful
  TablesRight
  StopIsReported
