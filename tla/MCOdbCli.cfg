SPECIFICATION CliSpec
CONSTANTS
  Tables <- CliTables
  Lines <- CliLines
  MaxMetaArgs = 2
  FatalSettings <- CliFatalSettings
  FatalPrograms <- CliFatalPrograms
INVARIANTS
  ImplicitRunFirst
  OrderEnforcedInTime
  RequiredAreGiven
  SomethingMeaningful
  ArgumentsBelongToOptions
  SettingsInTime
  CrashesForCause
  OutputIsComplete
PROPERTIES
  Returns
CHECK_DEADLOCK FALSE
