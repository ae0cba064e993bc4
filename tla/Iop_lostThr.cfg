SPECIFICATION LiveSpec
CONSTANTS
  FifoSize = 8
  Trigger = 7
  RingSize = 9
  Sizes = {10}
  MaxTexts = 1
  MaxRx = 2
  IsrChars = 1
  PollLimit = 2
  Forces = FALSE
PROPERTIES
  TxDrains
CHECK_DEADLOCK FALSE
