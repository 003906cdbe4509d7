SPECIFICATION Spec
CONSTANTS
  Tabs = {t1}
  Questions = {q1, q2}
  Answers = {a}
  None = None
  MaxBatch = 1
  MaxRetries = 1
  MaxLoads = 2
  MaxSheets = 2
  MaxEdits = 3
  MaxFaults = 1
INVARIANTS SavedIsStored
PROPERTIES SealedIsSeen FlushSettles
