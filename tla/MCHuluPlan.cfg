SPECIFICATION Spec
CONSTANTS
  Plans = {p1, p2}
  NoPlan = NoPlan
  Requests = {r1, r2}
  Target = 2
  Pages = 1
SYMMETRY Symmetry
INVARIANTS RoundsNeverClash
PROPERTIES ImplementsSprintLedger
CHECK_DEADLOCK TRUE
