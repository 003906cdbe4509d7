SPECIFICATION RowsSpec
CONSTANTS
  Words = {w1}
  Sessions = {s1, s2}
  Keys = {k1}
  NoKey = NoKey
  Requests = {r1, r2}
  MaxLogs = 4
  MaxTime = 3
  Cards = {c1}
  Batches = {b1, b2}
  Scheduled = {"learning", "review"}
  MaxAnswers = 2
  Workers = {p1, p2}
  MaxRatings = 3
  MaxEvents = 2
INVARIANTS AnswersRateOnce SuspensionsAreRecorded TracksConverge
PROPERTIES ScheduleMovesWithLog GivingBackKeepsWork PausesFollowCurrentRatings
CHECK_DEADLOCK TRUE
