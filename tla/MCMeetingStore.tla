--------------------------- MODULE MCMeetingStore ---------------------------
(* Instances of MeetingStore for TLC.                                      *)
EXTENDS MeetingStore, TLC

CONSTANTS m1, m2, d1, d2, s1, s2, t1, t2, e1

TwoMeetings == {m1, m2}
TwoDeleters == {d1, d2}
TwoSegments == {s1, s2}
TwoTexts == {t1, t2}
OneEngine == {e1}

\* Meetings, segments, texts, engines and requests are only compared for
\* equality.
StoreSymmetry ==
  Permutations(Meetings) \cup Permutations(SegIds) \cup Permutations(Texts)
    \cup Permutations(Engines) \cup Permutations(Deleters)
=============================================================================
