----------------------------- MODULE LossyFeed -----------------------------
(***************************************************************************)
(* What a stream between two of the services promises its client: some of  *)
(* the published items, each at most once and in the order of publication, *)
(* across any number of reconnections.  Nothing is promised about which.   *)
(***************************************************************************)
EXTENDS Naturals, Sequences

VARIABLES
  offered,  \* how many items have been published
  got       \* the items the client has received

Init == offered = 0 /\ got = <<>>

Offer == offered' = offered + 1 /\ UNCHANGED got

Deliver ==
  \E n \in 1..offered :
    /\ \A i \in DOMAIN got : got[i] < n
    /\ got' = Append(got, n)
    /\ UNCHANGED offered

Spec == Init /\ [][Offer \/ Deliver]_<<offered, got>>
=============================================================================
