SPECIFICATION Spec
CONSTANTS
  CommandLines <- MCCommandLines
  Hosts <- MCHosts
  ARG_COUNT = 1
  REQUIRED_ARGS = {}
  MaxWords = 3
INVARIANTS
  TypeOK
  ParsedAsMeant
  ExitStatusTrue
  OutputGuarded
  ResourcesRight
