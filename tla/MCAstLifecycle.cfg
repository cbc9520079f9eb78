CONSTANTS
  Inputs <- MCInputs
  Symbols <- MCSymbols
  Groups <- MCGroups
SPECIFICATION Spec
INVARIANTS
  CountsAreExact
  TreesAreWellFormed
  NothingIsLost
  RewritingIsExact
  IncDecWritesWhatItReads
