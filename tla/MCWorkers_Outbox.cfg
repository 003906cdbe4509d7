SPECIFICATION OutboxSpec
CONSTANTS
  Events = {e1, e2}
  L2Events = {e2}
  Workers = {w1, w2}
  MaxAttempts = 2
  BatchSize = 1
  NoEvent = NoEvent
  NoWorker = NoWorker
  Calls = {c1}
  Budget = 2
  Estimate = 2
  Usages = {3}
  ReapSize = 1
INVARIANTS EffectsExactlyOnce
PROPERTIES ImplementsLedger EventuallySettled
CHECK_DEADLOCK TRUE
