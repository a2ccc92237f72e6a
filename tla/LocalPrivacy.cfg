SPECIFICATION Spec
CONSTANTS
  Entries = {1, 2}
  Tasks = {t1, t2}
  Hints = {h1}
  NoHint = NoHint
  Blank = Blank
  e1 = e1
  e2 = e2
  Epochs = {e1, e2}
  MaxLocks = 2
  MaxSaves = 1
  MaxFaults = 1
INVARIANTS TypeOK MessagesHidden UnlockedIsReadable HintHidden ShownIsStored NothingOverwritten
SYMMETRY SlotSymmetry
CHECK_DEADLOCK FALSE
