CONSTANTS
  Inputs <- MCInputs
  Symbols <- MCSymbols
  Groups <- MCGroups
SPECIFICATION Spec
INVARIANTS
  RejectsMultipleDefaultsOnly
