SPECIFICATION Spec
CONSTANTS
  MaxTokens = 3
  MaxFragments = 4
  Inputs <- MCInputs
INVARIANTS
  TypeOK
  ConsumedOnce
  RecoveryAccounted
  ErrorsExact
  DerivationTree
PROPERTIES
  OnlyForward
  Terminates
