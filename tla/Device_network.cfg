SPECIFICATION Spec
CONSTANTS
  ResetActions = {"skipIfOn"}
  MaxCalls = 2
  MaxRestarts = 0
  MaxText = 0
  ReadyBuf = 2
  Contexts <- ThreeContexts
  TableSize = 2
  MaxGiven = 2
  MaxCancels = 0
INVARIANTS
  AddressOfContext
  TableMatchesAnswer
  TableWhole
CHECK_DEADLOCK FALSE
