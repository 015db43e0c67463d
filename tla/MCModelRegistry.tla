-------------------------- MODULE MCModelRegistry --------------------------
(* Instances of ModelRegistry for TLC.                                     *)
EXTENDS ModelRegistry

CONSTANTS n1, n2, r1, r2

TwoModels == {n1, n2}
TwoDownloads == {r1, r2}
=============================================================================
