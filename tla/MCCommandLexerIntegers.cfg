CONSTANTS
  Sources <- MCSources
  Commands <- IntegerCommands
  Keywords <- MCKeywords
SPECIFICATION Spec
INVARIANT CommandsMayStartWithIntegers
CHECK_DEADLOCK FALSE
