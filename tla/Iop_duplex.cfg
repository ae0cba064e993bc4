SPECIFICATION Spec
CONSTANTS
  FifoSize = 8
  Trigger = 7
  RingSize = 10
  Sizes = {1, 10}
  MaxTexts = 2
  MaxRx = 9
  IsrChars = 1
  PollLimit = 2
  Forces = FALSE
INVARIANTS
  TypeOK
PROPERTIES
  InOrder
CHECK_DEADLOCK FALSE
