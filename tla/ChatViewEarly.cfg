SPECIFICATION Spec
CONSTANTS
  MaxSeq = 2
  MaxEpochs = 1
  MaxKeys = 1
  MaxFaults = 0
  Window = 1
  PageSize = 1
INVARIANTS CatchesUpFirst
CHECK_DEADLOCK FALSE
