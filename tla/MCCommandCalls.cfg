SPECIFICATION Spec
CONSTANTS
  NONE = none
  Setups <- MCSetups
  Libraries <- MCLibraries
  Texts <- MCTexts
  CallArgs <- MCCallArgs
  none = none
  Core = Core
  Twice = Twice
  Capitals = Capitals
  Names = Names
  Broken = Broken
  Pair = Pair
  Both = Both
  SysV = SysV
  Bare = Bare
  Strings = Strings
  User = User
  Short = Short
  Again = Again
INVARIANTS
  LoadedExactly
  ConflictForCause
  MatcherIsExact
  DominatedNeverCalled
  CapitalsAreUndefined
CHECK_DEADLOCK FALSE
