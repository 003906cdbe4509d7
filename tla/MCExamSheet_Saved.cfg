SPECIFICATION Spec
CONSTANTS
  Tabs = {t1}
  Questions = {q1}
  Answers = {a}
  None = None
  MaxBatch = 1
  MaxRetries = 0
  MaxLoads = 1
  MaxSheets = 1
  MaxEdits = 3
  MaxFaults = 0
INVARIANTS SavedIsShown
