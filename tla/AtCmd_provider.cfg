SPECIFICATION Spec
CONSTANTS
  Tasks = {t1}
  Ops = {"ntwk_awaitProvider"}
  Preemptive = FALSE
  Cancels = FALSE
  MaxCmds = 3
INVARIANTS
  SequenceHoldsLock
CHECK_DEADLOCK FALSE
