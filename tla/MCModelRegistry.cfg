\* Two models of two files and two downloads at a time.
SPECIFICATION Spec
CONSTANTS
  n1 = n1
  n2 = n2
  r1 = r1
  r2 = r2
  NoModel = NoModel
  Models <- TwoModels
  Downloads <- TwoDownloads
  NumFiles = 2
INVARIANTS
  AvailableIsVerified
  ReservationsAreHeld
PROPERTIES
  OnlyTheWorkerWrites
  CancelIsFinal
  DownloadEnds
