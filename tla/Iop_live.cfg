SPECIFICATION LiveSpec
CONSTANTS
  FifoSize = 8
  Trigger = 7
  RingSize = 10
  Sizes = {8, 10}
  MaxTexts = 1
  MaxRx = 14
  IsrChars = 1
  PollLimit = 2
  Forces = TRUE
INVARIANTS
  NoAssert
PROPERTIES
  IsrReturns
  TxDrainsAlone
CHECK_DEADLOCK FALSE
