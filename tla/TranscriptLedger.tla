-------------------------- MODULE TranscriptLedger --------------------------
(***************************************************************************)
(* What the storage service promises about transcripts: each meeting has   *)
(* at most one text per segment_id, delivering a segment again overwrites  *)
(* its text, and a meeting disappears with its whole transcript in one     *)
(* step that leaves the other meetings alone.                              *)
(***************************************************************************)
CONSTANTS Meetings, SegIds, Texts

VARIABLE transcript     \* the meetings that exist, each with its texts

\* What one delivery may carry: texts for some of the segments.
Deliveries == UNION {[S -> Texts] : S \in (SUBSET SegIds) \ {{}}}

\* The texts t after delivery p.
Merged(t, p) ==
  [s \in DOMAIN t \cup DOMAIN p |-> IF s \in DOMAIN p THEN p[s] ELSE t[s]]

Init == transcript = [m \in {} |-> [s \in {} |-> s]]

Create(m) ==
  /\ m \notin DOMAIN transcript
  /\ transcript' = [k \in DOMAIN transcript \cup {m} |->
                      IF k = m THEN [s \in {} |-> s] ELSE transcript[k]]

Deliver(m, p) ==
  /\ m \in DOMAIN transcript
  /\ transcript' = [transcript EXCEPT ![m] = Merged(@, p)]

Remove(m) ==
  /\ m \in DOMAIN transcript
  /\ transcript' = [k \in DOMAIN transcript \ {m} |-> transcript[k]]

\* Not promised by Spec: segments go, and perhaps meetings, and nothing else
\* happens.
Lose ==
  /\ DOMAIN transcript' \subseteq DOMAIN transcript
  /\ \A m \in DOMAIN transcript' :
       /\ DOMAIN transcript'[m] \subseteq DOMAIN transcript[m]
       /\ \A s \in DOMAIN transcript'[m] : transcript'[m][s] = transcript[m][s]

Next ==
  \E m \in Meetings :
    \/ Create(m)
    \/ \E p \in Deliveries : Deliver(m, p)
    \/ Remove(m)

Spec == Init /\ [][Next]_transcript
=============================================================================
