SPECIFICATION FairSpec
CONSTANTS
  MaxSeq = 2
  MaxEpochs = 2
  MaxKeys = 2
  MaxFaults = 1
  Window = 1
  PageSize = 1
INVARIANTS TypeOK CoveredUnlessMishap NothingMissed OwnTextShown BlockedCanApprove
PROPERTIES EntriesRendered
CHECK_DEADLOCK FALSE
