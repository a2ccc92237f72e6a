SPECIFICATION FairSpec
CONSTANTS
  p1 = p1
  p2 = p2
  p3 = p3
  n1 = n1
  n2 = n2
  n3 = n3
  None = None
  Procs = {p1,p2}
  Mortal = {p1}
  Nonces = {n1}
  TTL = 0
  MaxAge = 0
  MaxMessages = 1
  MaxRetries = 1
  MaxClock = 0
  MaxResets = 0
  MaxCrashes = 1
  Sweeps = TRUE
INVARIANT AnsweredIsKept
PROPERTIES OrphansSwept ClaimsAreSettled KeptWhileCurrent
CHECK_DEADLOCK FALSE
