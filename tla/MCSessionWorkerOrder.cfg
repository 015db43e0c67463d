\* A second recording starts while the session is open.
SPECIFICATION Spec
CONSTANTS
  MaxSegments = 3
  MaxBatch = 2
  Attempts = 3
  MaxRestarts = 1
  Rates <- OnlyValid
  c1 = c1
  c2 = c2
  Stoppers <- TwoStoppers
INVARIANT
  ChronologicalTranscript
CHECK_DEADLOCK FALSE
