SPECIFICATION ServicesSpec
CONSTANTS
  Orders = {r1, r2}
  Clients = {p1, p2, p3}
  MaxOrderCalls = 5
  t1 = t1
  t3 = t3
  v1 = v1
  v2 = v2
  Notes = {p1, p2, p3}
  Topics = {t1}
  Venues = {v1, v2}
  VenueOf <- ShelfVenueOf
  Requests = {r1, r2}
  NoRequest = NoRequest
  NoNote = NoNote
  Callers = {c1, c2}
  MemberMax = 3
  MaxCalls = 3
  Entries = {e1, e2, e3}
  Writers = {p1, p2, p3}
  SeqRetryLimit = 2
  MaxDiaryCalls = 4
  BoardTopics = {t1, t2, t3}
  NoVenue = NoVenue
  NoTopic = NoTopic
  PageSize = 1
  MaxReads = 3
  MaxWrites = 1
  Words = {w1, w2}
  Measured = {w2}
  Limit = 1
  MaxRuns = 2
  MaxSends = 3
SYMMETRY Symmetry
INVARIANTS AllTypesOK OneActiveOrder DoneIsPromoted MembersHaveVenue RequestsActOnce DiaryIsTrue RatedOncePerRun FinishedIsSettled
PROPERTIES OnlyOneMoves PageFollowsReads
CHECK_DEADLOCK FALSE
