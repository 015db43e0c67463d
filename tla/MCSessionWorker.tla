-------------------------- MODULE MCSessionWorker --------------------------
(* Instances of SessionWorker for TLC.                                     *)
EXTENDS SessionWorker

CONSTANTS c1, c2

TwoStoppers == {c1, c2}

BothRates == {"valid", "invalid"}
OnlyValid == {"valid"}
=============================================================================
