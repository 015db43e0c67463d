\* Two DELETEs at a time against the stream, batches and summaries.
SPECIFICATION Spec
CONSTANTS
  m1 = m1
  m2 = m2
  d1 = d1
  d2 = d2
  s1 = s1
  s2 = s2
  t1 = t1
  t2 = t2
  e1 = e1
  NoEngine = NoEngine
  Meetings <- TwoMeetings
  SegIds <- TwoSegments
  Texts <- TwoTexts
  Engines <- OneEngine
  Deleters <- TwoDeleters
  MaxRow = 2
  MaxCount = 1
  MaxSummaries = 1
INVARIANTS
  CountMatchesRows
PROPERTIES
  ImplementsLedger
SYMMETRY StoreSymmetry
