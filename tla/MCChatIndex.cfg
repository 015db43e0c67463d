\* An ingest, a delete and a question about one meeting or all;
\* three attempts to connect; old rows of the meeting, or none.
SPECIFICATION Spec
CONSTANTS
  i1 = i1
  i2 = i2
  d1 = d1
  q1 = q1
  m1 = m1
  Nobody = Nobody
  Everything = Everything
  Ingests <- OneIngest
  Deletes <- OneDelete
  Questions <- OneQuestion
  Meetings <- OneMeeting
  Segments <- TwoSegments
  Dimensions <- TwoDimensions
  Retries = 3
  TopK = 2
INVARIANTS
  CitationsAgree
  NobodyWaitsLocked
PROPERTIES
  MeetingsChangeWhole
  RequestsAreAnswered
CHECK_DEADLOCK FALSE
