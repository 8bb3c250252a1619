SPECIFICATION Spec
CONSTANTS
  MaxStatements = 2
  Programs <- MCPrograms
INVARIANT LabelsAreNotVariables
