SPECIFICATION Spec
CONSTANTS
  w1 = w1
  w2 = w2
  Writers = {w1, w2}
  Capacity = 1
  ChunkSize = 1
  BatchSizes = {2}
  MaxRows = 4
INVARIANTS AckedIsDurable
CHECK_DEADLOCK FALSE
