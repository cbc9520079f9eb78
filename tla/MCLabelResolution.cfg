CONSTANTS
  a = a
  b = b
  NULL = NULL
  Main = "main"
  Names <- MCNames
  Programs <- MCPrograms
SPECIFICATION Spec
INVARIANTS
  BoundToFirstLabel
  PendingAreTheUnbound
  ExitsLeaveInnermostLoop
CHECK_DEADLOCK FALSE
