--------------------------- MODULE MCAudioSession ---------------------------
(* Instances of AudioSession for TLC.                                      *)
EXTENDS AudioSession

HalfOrWholeWindow == {1, 2}

TwoChunksThenOne == <<2, 1>>
=============================================================================
