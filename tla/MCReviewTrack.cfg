SPECIFICATION Spec
CONSTANTS
  Cards = {c1}
  Sessions = {s1}
  Keys = {k1}
  NoKey = NoKey
  Requests = {r1, r2}
  NoCard = NoCard
  MaxLogs = 3
SYMMETRY Symmetry
INVARIANTS ScheduleFollowsAnswers KeyTakesEffectOnce
PROPERTIES CommitsAreCurrent ImplementsAnswerStack
CHECK_DEADLOCK TRUE
