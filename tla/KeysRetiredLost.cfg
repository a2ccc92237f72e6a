SPECIFICATION Spec
CONSTANTS
  d1 = d1
  d2 = d2
  Devices = {d1}
  OpkTarget = 1
  OpkLow = 1
  MaxOpks = 2
  Rotation = 2
  MaxAge = 2
  Day = 1
  MaxClock = 6
  MaxServed = 0
  MaxResets = 0
  MaxLost = 1
  MaxWipes = 0
INVARIANT KeptWhileReadable
CHECK_DEADLOCK FALSE
