---------------------------- MODULE MeetingStore ----------------------------
(***************************************************************************)
(* The SQLite database of the storage service and the handlers that write  *)
(* meetings, transcript segments and summaries to it.                      *)
(*                                                                         *)
(* Each handler has a connection of its own.  Its SELECTs run outside a    *)
(* transaction; the transaction opens with its first INSERT, UPDATE or     *)
(* DELETE, which takes the write lock (a contender waits: busy_timeout),   *)
(* and ends with commit().  So a handler is a sequence of reads, each of   *)
(* the database as committed at that moment, and one atomic write.  Where  *)
(* the write checks again what the read found (a primary key, a foreign    *)
(* key), the read is not a step of its own: it can only end the handler.   *)
(***************************************************************************)
EXTENDS Naturals, FiniteSets

CONSTANTS
  Meetings,      \* meeting ids, which the client chooses and may use again
  SegIds,        \* values of segment_id
  Texts,         \* texts a segment may carry
  Engines,       \* engine metadata of a segment
  NoEngine,      \* Meeting.engine is NULL
  Deleters,      \* DELETE /meetings/{id} requests in flight at the same time
  MaxRow,        \* bound: largest rowid of the segments table
  MaxCount,      \* bound: segments_count of a meeting that takes more segments
  MaxSummaries   \* bound: summaries written in one behaviour

ASSUME StoreAssumption ==
  /\ MaxRow \in Nat /\ MaxCount \in Nat
  /\ MaxSummaries \in Nat
  /\ IsFiniteSet(SegIds)
  /\ NoEngine \notin Engines

VARIABLES
  meetings,     \* ids of table meetings
  count,        \* Meeting.segments_count
  engine,       \* Meeting.engine (with model_name and language)
  rows,         \* table segments, by rowid
  summary,      \* id of the meeting's row of table summaries, 0: none
  lastSummary,  \* the last summary id given out (uuid4: never used twice)
  sub,          \* TranscriptionSubscriber: the segment in _handle_segment
  del,          \* the requests in delete_meeting
  late,         \* history: deletes that have lost a row they loaded to another
  hit           \* history: meetings that a late delete took a row from

dbVars == <<meetings, count, engine, rows, summary, lastSummary>>
historyVars == <<late, hit>>
vars == <<dbVars, sub, del, historyVars>>

-----------------------------------------------------------------------------

RowIds == 1..MaxRow

Row == [m : Meetings, seg : SegIds, text : Texts]

TypeOK ==
  /\ meetings \in SUBSET Meetings
  /\ count \in [Meetings -> Nat]
  /\ engine \in [Meetings -> Engines \cup {NoEngine}]
  /\ DOMAIN rows \in SUBSET RowIds
  /\ rows \in [DOMAIN rows -> Row]
  /\ summary \in [Meetings -> 0..MaxSummaries]
  /\ lastSummary \in 0..MaxSummaries
  /\ sub \in [pc : {"idle"}]
       \cup [pc : {"read"}, m : Meetings, seg : SegIds, text : Texts,
             engine : Engines, noEngine : BOOLEAN]
  /\ del \in [Deleters ->
       [pc : {"idle"}]
       \cup [pc : {"read"}, m : Meetings, summary : 0..MaxSummaries]
       \cup [pc : {"loaded"}, m : Meetings, summary : 0..MaxSummaries,
             ids : SUBSET RowIds]]
  /\ late \in SUBSET Deleters
  /\ hit \in SUBSET Meetings

Init ==
  /\ meetings = {}
  /\ count = [m \in Meetings |-> 0]
  /\ engine = [m \in Meetings |-> NoEngine]
  /\ rows = [r \in {} |-> r]
  /\ summary = [m \in Meetings |-> 0]
  /\ lastSummary = 0
  /\ sub = [pc |-> "idle"]
  /\ del = [d \in Deleters |-> [pc |-> "idle"]]
  /\ late = {}
  /\ hit = {}

-----------------------------------------------------------------------------
(* The segments table.                                                     *)

RowsOf(m) == {r \in DOMAIN rows : rows[r].m = m}
SegsOf(m) == {rows[r].seg : r \in RowsOf(m)}

\* Texts for some segments of one meeting.
Deliveries == UNION {[S -> Texts] : S \in (SUBSET SegIds) \ {{}}}

\* The keys of p that are not in the table: genuine inserts.
Inserts(m, p) == DOMAIN p \ SegsOf(m)

\* last is the largest rowid in use.
IsLastRow(last) ==
  \/ DOMAIN rows = {} /\ last = 0
  \/ last \in DOMAIN rows /\ \A r \in DOMAIN rows : r <= last

\* SQLite without AUTOINCREMENT gives the rowids that follow the largest one
\* in use, so the ids of deleted rows come back.
NewRowIds(last, k) == (last + 1)..(last + k)

\* Mutant: the UPDATE compares the segment_id only.
Updated_AnyMeeting(row, m, p) ==
  IF row.seg \in DOMAIN p THEN [row EXCEPT !.text = p[row.seg]] ELSE row

\* A stored row after ON CONFLICT ... DO UPDATE.
Updated(row, m, p) ==
  IF row.m = m /\ row.seg \in DOMAIN p THEN [row EXCEPT !.text = p[row.seg]] ELSE row

\* Mutant: the counter moves for every delivered segment.
CountAfter_Delivered(m, p) == count[m] + Cardinality(DOMAIN p)

\* add_segments_count, in SQL, with the number of genuine inserts.
CountAfter(m, p) == count[m] + Cardinality(Inserts(m, p))

\* INSERT ... ON CONFLICT for the keys of p, and the counter, in one
\* transaction.
Upsert(m, p) ==
  \E last \in 0..MaxRow :
    LET fresh == NewRowIds(last, Cardinality(Inserts(m, p))) IN
    /\ IsLastRow(last)
    /\ last + Cardinality(Inserts(m, p)) <= MaxRow /\ count[m] <= MaxCount
    /\ \E at \in [fresh -> Inserts(m, p)] :
         /\ \A r, q \in fresh : at[r] = at[q] => r = q
         /\ rows' = [r \in DOMAIN rows \cup fresh |->
                       IF r \in fresh
                       THEN [m |-> m, seg |-> at[r], text |-> p[at[r]]]
                       ELSE Updated(rows[r], m, p)]
    /\ count' = [count EXCEPT ![m] = CountAfter(m, p)]

-----------------------------------------------------------------------------
(* The HTTP handlers that write in one step.                               *)

\* create_meeting.  A meeting that exists, found by the read or by the
\* IntegrityError of the insert, is a 409 and nothing is written.
CreateMeeting(m) ==
  /\ m \notin meetings
  /\ meetings' = meetings \cup {m}
  /\ UNCHANGED <<count, engine, rows, summary, lastSummary, sub, del, historyVars>>

\* batch_upsert_segments.
BatchUpsert(m, p) ==
  /\ m \in meetings
  /\ Upsert(m, p)
  /\ UNCHANGED <<meetings, engine, summary, lastSummary, sub, del, historyVars>>

\* create_summary: unique per meeting, and the meeting must exist.
CreateSummary(m) ==
  /\ m \in meetings /\ summary[m] = 0
  /\ lastSummary < MaxSummaries
  /\ lastSummary' = lastSummary + 1
  /\ summary' = [summary EXCEPT ![m] = lastSummary']
  /\ UNCHANGED <<meetings, count, engine, rows, sub, del, historyVars>>

-----------------------------------------------------------------------------
(* The gRPC subscriber: one segment at a time, any segment in any order,   *)
(* and the same one again.                                                 *)

\* _handle_segment reads the meeting; segments of unknown meetings are
\* dropped.
SubscriberReads ==
  /\ sub.pc = "idle"
  /\ \E m \in meetings, s \in SegIds, t \in Texts, e \in Engines :
       sub' = [pc |-> "read", m |-> m, seg |-> s, text |-> t, engine |-> e,
               noEngine |-> engine[m] = NoEngine]
  /\ UNCHANGED <<dbVars, del, historyVars>>

\* `if not meeting.engine`, of the meeting as it was read.
WritesEngine == sub.noEngine

\* The upsert, the counter and the engine metadata are one transaction.
SubscriberCommits ==
  /\ sub.pc = "read"
  /\ sub.m \in meetings
  /\ Upsert(sub.m, [s \in {sub.seg} |-> sub.text])
  /\ engine' = IF WritesEngine
               THEN [engine EXCEPT ![sub.m] = sub.engine] ELSE engine
  /\ sub' = [pc |-> "idle"]
  /\ UNCHANGED <<meetings, summary, lastSummary, del, historyVars>>

\* The meeting was deleted meanwhile: the foreign key fails the insert and
\* run() drops the segment with the exception.
SubscriberFails ==
  /\ sub.pc = "read"
  /\ sub.m \notin meetings
  /\ sub' = [pc |-> "idle"]
  /\ UNCHANGED <<dbVars, del, historyVars>>

-----------------------------------------------------------------------------
(* delete_meeting: session.get, session.delete, flush and commit.          *)

\* session.get loads the meeting and, eagerly, its summary.
DeleteReads(d) ==
  /\ del[d].pc = "idle"
  /\ \E m \in meetings :
       del' = [del EXCEPT ![d] = [pc |-> "read", m |-> m, summary |-> summary[m]]]
  /\ UNCHANGED <<dbVars, sub, historyVars>>

\* session.delete cascades: it loads the segments of the meeting.
DeleteLoads(d) ==
  /\ del[d].pc = "read"
  /\ del' = [del EXCEPT ![d] = [pc |-> "loaded", m |-> del[d].m,
                                summary |-> del[d].summary,
                                ids |-> RowsOf(del[d].m)]]
  /\ UNCHANGED <<dbVars, sub, historyVars>>

\* Rows that were not loaded refer to the meeting.
StillReferenced(job) ==
  RowsOf(job.m) \ job.ids # {} \/ summary[job.m] \notin {0, job.summary}

\* What is left of the table when the loaded rows are deleted by rowid.
RowsWithout(ids) == [r \in DOMAIN rows \ ids |-> rows[r]]

\* Other deletes that have loaded a row which d removes: what has its rowid
\* when they commit may be a row of any meeting.
Overtaken(d) ==
  {e \in Deleters \ {d} :
     del[e].pc = "loaded" /\ del[e].ids \cap del[d].ids # {}}

\* Whose rows d removes.
Losers(d) == {rows[r].m : r \in del[d].ids \cap DOMAIN rows}

\* The flush deletes the loaded segments and the summary by their ids, then
\* the meeting.  A meeting, or a row, that is gone already only logs a
\* warning.
DeleteCommits(d) ==
  /\ del[d].pc = "loaded"
  /\ ~StillReferenced(del[d])
  /\ rows' = RowsWithout(del[d].ids)
  /\ meetings' = meetings \ {del[d].m}
  /\ summary' = [summary EXCEPT ![del[d].m] = 0]
  /\ count' = [count EXCEPT ![del[d].m] = 0]
  /\ engine' = [engine EXCEPT ![del[d].m] = NoEngine]
  /\ del' = [del EXCEPT ![d] = [pc |-> "idle"]]
  /\ late' = (late \ {d}) \cup Overtaken(d)
  /\ hit' = (IF d \in late THEN hit \cup Losers(d) ELSE hit) \ {del[d].m}
  /\ UNCHANGED <<lastSummary, sub>>

RowsAfterFailure(job) == rows' = rows

\* The last DELETE breaks the foreign key: the session rolls back.
DeleteFails(d) ==
  /\ del[d].pc = "loaded"
  /\ StillReferenced(del[d])
  /\ RowsAfterFailure(del[d])
  /\ del' = [del EXCEPT ![d] = [pc |-> "idle"]]
  /\ late' = late \ {d}
  /\ UNCHANGED <<meetings, count, engine, summary, lastSummary, sub, hit>>

-----------------------------------------------------------------------------

DeleteStep(d) ==
  DeleteReads(d) \/ DeleteLoads(d) \/ DeleteCommits(d) \/ DeleteFails(d)

Next ==
  \/ \E m \in Meetings :
       \/ CreateMeeting(m)
       \/ \E p \in Deliveries : BatchUpsert(m, p)
       \/ CreateSummary(m)
  \/ SubscriberReads \/ SubscriberCommits \/ SubscriberFails
  \/ \E d \in Deleters : DeleteStep(d)

Spec == Init /\ [][Next]_vars
-----------------------------------------------------------------------------
(* Properties.                                                             *)

\* What the foreign keys and the unique constraint promise, whatever deletes
\* and inserts overlap: segments and summaries belong to meetings that exist,
\* and no segment is stored twice.
NoOrphans ==
  /\ \A r \in DOMAIN rows : rows[r].m \in meetings
  /\ \A m \in Meetings : summary[m] # 0 => m \in meetings
  /\ \A r, q \in DOMAIN rows :
       rows[r].m = rows[q].m /\ rows[r].seg = rows[q].seg => r = q

\* segments_count is the number of segments of the meeting, across repeated
\* deliveries, batches that overlap the stream, and any number of deletes: it
\* is wrong only for a meeting that has lost a row to a late delete.
CountMatchesRows ==
  \A m \in meetings \ hit : count[m] = Cardinality(RowsOf(m))

\* A delete commits that was overtaken by another one.
LateDelete == \E d \in late : DeleteCommits(d)

\* A stored segment, or a summary, disappears only with its meeting, or else
\* the segment in a late delete.
RowsGoWithTheirMeeting ==
  [][/\ \A r \in DOMAIN rows :
          \/ rows[r].m \notin meetings'
          \/ r \in DOMAIN rows' /\ rows'[r].m = rows[r].m
                               /\ rows'[r].seg = rows[r].seg
          \/ LateDelete
     /\ \A m \in meetings \cap meetings' : summary[m] # 0 => summary'[m] = summary[m]
    ]_vars

\* The engine of a meeting is that of the first segment that wrote it.
EngineIsOfFirstSegment ==
  [][\A m \in meetings \cap meetings' :
       engine[m] # NoEngine => engine'[m] = engine[m]]_vars

\* The text stored for segment s of meeting m.
TextOf(m, s) == rows[CHOOSE r \in RowsOf(m) : rows[r].seg = s].text

TextsOf(m) == [s \in SegsOf(m) |-> TextOf(m, s)]

Transcript == [m \in meetings |-> TextsOf(m)]

Ledger == INSTANCE TranscriptLedger WITH transcript <- Transcript

\* The tables implement the abstract ledger of transcripts; all that a late
\* delete can do beyond it is to lose segments.
ImplementsLedger ==
  /\ Ledger!Init
  /\ [][Ledger!Next \/ (LateDelete /\ Ledger!Lose)]_Transcript
=============================================================================
