SPECIFICATION Spec
CONSTANTS
  h1 = h1
  h2 = h2
  s1 = s1
  Pages = {h1, h2}
  Sockets = {s1}
  Capacity = 20
  WorkSz = 8
  ByteMax = 10
  Word = 12
  FileSizes = {0, 4, 10, 13}
  Lengths = {0, 2, 9}
  PageSizes = {0, 4, 12}
  Contexts = {0, 2}
  Starts = {0, 15}
  Errors = {0, 703}
INVARIANTS
  TypeOK
  Delivered
PROPERTIES
  TransferEnds
CHECK_DEADLOCK FALSE
