\* Two recordings, two chunks of each stream in the first and one in the
\* second, channels that hold one.
SPECIFICATION FairSpec
CONSTANTS
  MaxRecordings = 2
  MaxChunks <- TwoChunksThenOne
  CAPTURE_QUEUE_CAPACITY = 1
  SEGMENT_CAPACITY = 1
  WindowSize = 2
  ChunkSizes <- HalfOrWholeWindow
INVARIANTS
  OwnedWhileRecording
  StreamsInOrder
  SegmentsInOrder
PROPERTIES
  CommandsReturn
  NoStrayCapture
\* The recordings are bounded and the user may leave the application alone.
CHECK_DEADLOCK FALSE
