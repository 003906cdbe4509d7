SPECIFICATION Spec
CONSTANTS
  Tabs = {t1}
  Questions = {q1}
  Answers = {a}
  None = None
  MaxBatch = 1
  MaxRetries = 1
  MaxLoads = 2
  MaxSheets = 1
  MaxEdits = 3
  MaxFaults = 1
PROPERTIES FlushDecides
