CONSTANTS
  Sources <- MCSources
  Commands <- MCCommands
  Keywords <- MCKeywords
SPECIFICATION Spec
INVARIANTS
  StringsHaveOneOwner
  NoTokenLost
  PushedAsSpelled
PROPERTY Terminates
CHECK_DEADLOCK FALSE
