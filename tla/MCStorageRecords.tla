-------------------------- MODULE MCStorageRecords --------------------------
(* Instances of StorageRecords for TLC.                                    *)
EXTENDS StorageRecords

CONSTANTS m1, m2, t1, p1, p2, p3, x, y, r1, r2, q1, q2

TwoRequests == {r1, r2}
TwoQueries == {q1, q2}
TwoMeetings == {m1, m2}
OneTemplate == {t1}
ThreeProfiles == {p1, p2, p3}
TwoValues == {x, y}

\* Empty, and with records of each kind; p3 is never there at the start.
Earliest ==
  {[kind \in Kinds |-> SelectSeq(s, LAMBDA i : i \in kind)] :
     s \in {<<>>, <<m1>>, <<m1, m2>>, <<t1>>, <<p1, p2>>}}

\* Two profiles with names of their own and the same voice, as after a rename.
Rows == [i \in Records |->
           [name |-> IF i = p2 THEN y ELSE x, body |-> IF i = m2 THEN y ELSE x]]

\* q1 is like both values, more like y; q2 is not like x enough, and y is of
\* another dimension.
Scores == [q \in TwoQueries |->
             IF q = q1 THEN [v \in TwoValues |-> IF v = x THEN 3 ELSE 4]
             ELSE [v \in TwoValues |-> IF v = x THEN 2 ELSE Null]]
=============================================================================
