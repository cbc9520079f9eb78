SPECIFICATION Spec
CONSTANTS
  Width <- MCWidth
  Programs <- MCPrograms
  MaxShown = 20
INVARIANTS
  AcceptedIffWellTyped
  SmallValuesAreExact
PROPERTIES
  Finishes
CHECK_DEADLOCK FALSE
