\* Two concurrent requests of any kind on databases of up to two records.
SPECIFICATION RecordsSpec
CONSTANTS
  m1 = m1
  m2 = m2
  t1 = t1
  p1 = p1
  p2 = p2
  p3 = p3
  x = x
  y = y
  r1 = r1
  r2 = r2
  q1 = q1
  q2 = q2
  Null = Null
  Meetings <- TwoMeetings
  Templates <- OneTemplate
  Profiles <- ThreeProfiles
  Values <- TwoValues
  Databases <- Earliest
  Earlier <- Rows
  Requests <- TwoRequests
  Queries <- TwoQueries
  Score <- Scores
  Recording = x
  Threshold = 3
  PageSize = 1
INVARIANTS
  PagesMissOnlyByDeletes
PROPERTIES
  NoLostUpdate
  MatchIsTheBest
CHECK_DEADLOCK FALSE
