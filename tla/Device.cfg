SPECIFICATION LiveSpec
CONSTANTS
  ResetActions = {"skipIfOn", "swReset", "hwReset", "powerReset"}
  MaxCalls = 2
  MaxRestarts = 1
  MaxText = 1
  ReadyBuf = 2
  Contexts = {}
  TableSize = 1
  MaxGiven = 0
  MaxCancels = 1
INVARIANTS
  TypeOK
  Initialized
  ResetRestarts
  AppReadyWasSaid
  SettingsAgree
  StoppedIsOff
PROPERTIES
  CallEnds
CHECK_DEADLOCK FALSE
