SPECIFICATION Spec
CONSTANTS
  d1 = d1
  d2 = d2
  Devices = {d1,d2}
  OpkTarget = 2
  OpkLow = 2
  MaxOpks = 2
  Rotation = 2
  MaxAge = 1
  Day = 1
  MaxClock = 0
  MaxServed = 2
  MaxResets = 1
  MaxLost = 1
  MaxWipes = 1
SYMMETRY Symmetry
INVARIANTS TypeOK ServedOnce OneTimeKeysHeld ReadyIsAccepted
CHECK_DEADLOCK FALSE
