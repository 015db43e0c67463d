\* Two labels and two merges at a time.
SPECIFICATION Spec
CONSTANTS
  p1 = p1
  p2 = p2
  p3 = p3
  n1 = n1
  n2 = n2
  s1 = s1
  c1 = c1
  l1 = l1
  l2 = l2
  k1 = k1
  k2 = k2
  NoName = NoName
  NoCluster = NoCluster
  NoProfile = NoProfile
  Unborn = Unborn
  Names <- TwoNames
  Profiles <- ThreeProfiles
  Segments <- OneSegment
  Clusters <- OneCluster
  Labels <- TwoLabels
  Merges <- TwoMerges
INVARIANTS
  LabelsFollowMerges
PROPERTIES
  MergesLoseNobody
  EmbeddingIsNotLost
SYMMETRY SpeakerSymmetry
