SPECIFICATION LiveSpec
CONSTANTS
  Tasks = {t1}
  Ops = {"file_close", "sckt_open", "mqtt_publish", "sckt_send", "file_getFSInfo", "ntwk_awaitProvider"}
  Preemptive = FALSE
  Cancels = TRUE
  MaxCmds = 2
INVARIANTS
  TypeOK
  AnswerIsOwn
  PayloadReachesItsCommand
  CheckedSequenceHoldsLock
  DataModeEndsWithSuccess
PROPERTIES
  LockFreeOnReturn
  CallReturns
CHECK_DEADLOCK FALSE
