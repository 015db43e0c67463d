\* Two requests to load or remove at the same time, two models, batches of two audios.
SPECIFICATION Spec
CONSTANTS
  m1 = m1
  m2 = m2
  a1 = a1
  a2 = a2
  Nothing = Nothing
  Library = Library
  Models <- TwoModels
  Admins <- TwoAdmins
  Duration = 2
  Audios = 2
  Stamps <- SomeStamps
INVARIANTS
  CurrentIsLoaded
  LoadedMeansModel
  RemovedIsNotLoaded
  BatchContract
SYMMETRY HostSymmetry
CHECK_DEADLOCK FALSE
