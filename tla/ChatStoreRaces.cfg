SPECIFICATION Spec
CONSTANTS
  p1 = p1
  p2 = p2
  p3 = p3
  n1 = n1
  n2 = n2
  n3 = n3
  None = None
  Procs = {p1,p2,p3}
  Mortal = {}
  Nonces = {n1,n2}
  TTL = 0
  MaxAge = 0
  MaxMessages = 1
  MaxRetries = 1
  MaxClock = 1
  MaxResets = 1
  MaxCrashes = 0
  Sweeps = FALSE
CONSTRAINT ThreeOrTwo
SYMMETRY Symmetry
INVARIANTS TypeOK CountCovers StoredOnce AnsweredStaysClaimed
PROPERTY ImplementsConversation
CHECK_DEADLOCK FALSE
