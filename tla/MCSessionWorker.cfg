\* Three segments in batches of at most two, a second recording during the
\* session, two overlapping stop requests, and one retry.
SPECIFICATION Spec
CONSTANTS
  MaxSegments = 3
  MaxBatch = 2
  Attempts = 2
  MaxRestarts = 1
  Rates <- BothRates
  c1 = c1
  c2 = c2
  Stoppers <- TwoStoppers
INVARIANTS
  Conservation
  StopDrains
  TranscriptsInOrder
  OrphanOnlyAfterIngestFailure
PROPERTIES
  QuietAfterStop
  StopReturns
  EverySegmentAnswered
CHECK_DEADLOCK FALSE
