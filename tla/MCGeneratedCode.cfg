CONSTANTS
  l1 = l1
  l2 = l2
  outside = outside
  L1 = L1
  L2 = L2
  L3 = L3
  NULL = NULL
  Labels <- MCLabels
  Loops <- MCLoops
  ForRange <- MCRange
  GosubDepth = 2
  Bodies <- MCBodies
SPECIFICATION Spec
INVARIANTS
  TypeOK
  ReturnsReachEveryGosub
  TerminatedExactlyOnce
  VerdictIsExact
  UndefinedOnlyAtTheStackLimits
PROPERTY Source
CHECK_DEADLOCK FALSE
