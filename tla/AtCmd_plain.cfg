SPECIFICATION Spec
CONSTANTS
  Tasks = {t1, t2, t3}
  Ops = {"file_close"}
  Preemptive = FALSE
  Cancels = FALSE
  MaxCmds = 3
SYMMETRY Callers
INVARIANTS
  OneCommandOpen
PROPERTIES
  ReleasedByOwner
CHECK_DEADLOCK FALSE
