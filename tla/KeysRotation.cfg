SPECIFICATION Spec
CONSTANTS
  d1 = d1
  d2 = d2
  Devices = {d1}
  OpkTarget = 1
  OpkLow = 1
  MaxOpks = 2
  Rotation = 2
  MaxAge = 1
  Day = 1
  MaxClock = 5
  MaxServed = 0
  MaxResets = 1
  MaxLost = 1
  MaxWipes = 1
INVARIANTS SignedKeyHeld KeptUnlessLost
CHECK_DEADLOCK FALSE
