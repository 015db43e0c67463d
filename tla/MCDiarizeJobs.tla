--------------------------- MODULE MCDiarizeJobs ---------------------------
(* Instances of DiarizeJobs for TLC.                                       *)
EXTENDS DiarizeJobs

CONSTANTS j1, j2, a, b, p

TwoJobs == {j1, j2}
TwoLabels == {a, b}
OneProfile == {p}

At(from, to, l) == [start |-> from, end |-> to, label |-> l]

\* One segment across the middle and one at the end.
TwoSegments == {[start |-> 1, end |-> 3], [start |-> 3, end |-> 4]}

\* Turns that tie, that only touch, that overlap each other, and none; the
\* last one comes without embeddings.
FourDiarizations ==
  {[turns |-> <<At(0, 2, a), At(2, 4, b)>>, speakers |-> {a, b}],
   [turns |-> <<At(0, 1, a), At(1, 4, b), At(3, 4, a)>>, speakers |-> {a, b}],
   [turns |-> <<At(3, 4, b), At(0, 3, a)>>, speakers |-> {a}],
   [turns |-> <<At(0, 1, a)>>, speakers |-> {}]}

E(l, q) == [key |-> l, profile |-> q]

\* Complete for two speakers, one of them known; complete for one; a key too
\* few, a key twice, both of one profile.
FiveReplies ==
  {<<E(b, p), E(a, NoProfile)>>, <<E(a, p)>>, <<E(b, p)>>, <<E(a, p), E(a, NoProfile)>>,
   <<E(a, p), E(b, p)>>}
=============================================================================
