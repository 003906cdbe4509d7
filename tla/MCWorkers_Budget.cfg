SPECIFICATION BudgetSpec
CONSTANTS
  Events = {e1}
  L2Events = {}
  Workers = {w1}
  MaxAttempts = 1
  BatchSize = 1
  NoEvent = NoEvent
  NoWorker = NoWorker
  Calls = {c1, c2, c3}
  Budget = 4
  Estimate = 2
  Usages = {3}
  ReapSize = 1
INVARIANTS RowTellsOutcome
PROPERTIES ReservationsEnd
CHECK_DEADLOCK FALSE
