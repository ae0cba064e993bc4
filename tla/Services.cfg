SPECIFICATION Spec
CONSTANTS
  t1 = t1
  t2 = t2
  Tasks = {t1, t2}
  CallsOf <- Instance
  MaxCalls = 2
  MaxCmds = 5
INVARIANTS
  TypeOK
  SuccessIsEarned
  FailureIsReal
  CommandsExclusive
  SequenceHasLock
  AssertionsHold
CHECK_DEADLOCK FALSE
