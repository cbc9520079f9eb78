SPECIFICATION Spec
CONSTANTS
  Width <- MCWidth
  Programs <- MCPrograms
  MaxShown = 20
INVARIANT LiteralsKeepTheirValue
CHECK_DEADLOCK FALSE
