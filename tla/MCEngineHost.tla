---------------------------- MODULE MCEngineHost ----------------------------
(* Instances of EngineHost for TLC.                                        *)
EXTENDS EngineHost, TLC

CONSTANTS m1, m2, a1, a2

TwoModels == {m1, m2}
TwoAdmins == {a1, a2}

\* Before and after the audio.
SomeStamps == {-1, 3}

HostSymmetry == Permutations(Models) \cup Permutations(Admins)
=============================================================================
