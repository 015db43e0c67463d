------------------------- MODULE MCSpeakerProfiles -------------------------
(* Instances of SpeakerProfiles for TLC.                                   *)
EXTENDS SpeakerProfiles, TLC

CONSTANTS p1, p2, p3, n1, n2, s1, c1, l1, l2, k1, k2

ThreeProfiles == {p1, p2, p3}
TwoProfiles == {p1, p2}
TwoNames == {n1, n2}
OneSegment == {s1}
OneCluster == {c1}
TwoLabels == {l1, l2}
OneLabel == {l1}
TwoMerges == {k1, k2}

\* All these are only compared for equality.
SpeakerSymmetry ==
  Permutations(Profiles) \cup Permutations(Names) \cup Permutations(Segments)
    \cup Permutations(Clusters) \cup Permutations(Labels)
    \cup Permutations(Merges)
=============================================================================
