\* Two jobs, four outcomes of the engine, five replies.
SPECIFICATION JobsSpec
CONSTANTS
  j1 = j1
  j2 = j2
  a = a
  b = b
  p = p
  NoLabel = NoLabel
  NoProfile = NoProfile
  Missing = Missing
  Jobs <- TwoJobs
  Labels <- TwoLabels
  Profiles <- OneProfile
  Segments <- TwoSegments
  Diarizations <- FourDiarizations
  Replies <- FiveReplies
  TTL = 1
INVARIANTS
  SegmentsGetTheirSpeaker
  StorageOnlyNames
PROPERTIES
  OnlyOutcomesAreForgotten
  JobsAreForgotten
CHECK_DEADLOCK FALSE
