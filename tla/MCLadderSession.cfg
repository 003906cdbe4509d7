SPECIFICATION Spec
CONSTANTS
  Words = {w1, w2}
  Measured = {w2}
  Limit = 0
  MaxRuns = 1
  MaxSends = 3
INVARIANTS QuotaCountsOnce
CHECK_DEADLOCK FALSE
