SPECIFICATION SheetsSpec
CONSTANTS
  Sheets = {s1, s2, s3}
  NoSheet = NoSheet
  Texts = {a, b}
  Blank = Blank
  Keys = {k1, k2}
  NoKey = NoKey
  MaxVersion = 2
  Workers = {w1, w2}
  Questions = {q1}
  Notes = {n1}
  Answers = {c}
  None = None
  MaxSheets = 2
  MaxFace = 1
  MaxPatches = 1
SYMMETRY Symmetry
INVARIANTS RevisionsAreNumbered FeedbackBindsContent GradedHasAttempt
PROPERTIES SealKeepsAnswers AgentLeavesActiveAlone
CHECK_DEADLOCK FALSE
