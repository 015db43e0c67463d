---------------------------- MODULE MCChatIndex -----------------------------
(* Instance of ChatIndex for TLC.                                          *)
EXTENDS ChatIndex

CONSTANTS i1, i2, d1, q1, m1

OneIngest == {i1}
OneDelete == {d1}
OneQuestion == {q1}
OneMeeting == {m1}
TwoSegments == {1, 2}
TwoDimensions == {384, 768}
=============================================================================
