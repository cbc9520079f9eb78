SPECIFICATION TableSpec
CONSTANT Definitions <- MCDefinitions
INVARIANTS
  PrioritiesOrderRunafter
  ReducedToTheMinimum
  RequiredCanBeGiven
  RejectedForCause
  CyclesHaveNoEntry
CHECK_DEADLOCK FALSE
