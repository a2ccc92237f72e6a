SPECIFICATION FairSpec
CONSTANTS
  t1 = t1
  t2 = t2
  Tasks = {t1,t2}
  Msgs = {1}
  MaxAttempts = 3
  MaxEpochs = 2
  MaxResets = 1
  MaxFaults = 1
INVARIANTS TypeOK OneRow SentOncePerEpoch NothingLost  StoredIsKnown
PROPERTIES CallsEnd OutboxDrains
CHECK_DEADLOCK FALSE
