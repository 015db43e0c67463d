----------------------------- MODULE ChatIndex ------------------------------
(***************************************************************************)
(* The chat service: requests, each in a thread of the server's pool and   *)
(* with a connection of its own, ingest meetings into the segment index,   *)
(* delete them from it, and answer questions from it.  In between they     *)
(* wait for the providers of embeddings and of answers.  SQLite lets one   *)
(* connection write at a time, and keeps a reader's snapshot.              *)
(***************************************************************************)
EXTENDS Naturals, FiniteSets, FiniteSetsExt

CONSTANTS
  Ingests, Deletes, Questions,  \* requests that may come
  Nobody,      \* no request; no dimension
  Meetings,
  Everything,  \* the scope of a question about no meeting in particular
  Segments,    \* segment_id values of an ingest
  Dimensions,  \* that the embeddings may be configured to have
  Retries,     \* _SCHEMA_RETRIES
  TopK         \* _TOP_K

Requests == Ingests \cup Deletes \cup Questions

ASSUME ChatAssumption ==
  /\ Ingests \cap Deletes = {} /\ Questions \cap (Ingests \cup Deletes) = {}
  /\ Nobody \notin Requests /\ Nobody \notin Dimensions
  /\ Everything \notin Meetings
  /\ Retries \in Nat \ {0} /\ TopK \in Nat

VARIABLES
  config,     \* _config.dimension
  dimension,  \* chat_meta's, and the segments table's
  rows,       \* the segments table, as committed
  work,       \* as the writer has it
  lock,       \* the connection that writes
  req         \* the requests and their connections

table == <<dimension, rows, work, lock>>
vars == <<config, table, req>>

Row == [meeting : Meetings, segment : Segments, by : Ingests \cup {Nobody}]
Providers == {"embed", "question", "ask"}
Writing == {"setup", "insert", "commit"}

\* A validated body has a segment, and no two segments with one segment_id.
IngestRequest == (SUBSET Segments) \ {{}}

Steps ==
  Writing \cup Providers
    \cup {"new", "connect", "delete", "exists", "search", "ended"}
Connection ==
  [pc : Steps,
   about : Meetings \cup {Everything},
   segments : SUBSET Segments,
   tries : 0..(Retries - 1),
   view : {"none", "fresh", "stale"},
   cited : SUBSET Row,
   missed : BOOLEAN]  \* its meeting was deleted under it (a history)

TypeOK ==
  /\ config \in Dimensions /\ dimension \in Dimensions \cup {Nobody}
  /\ rows \subseteq Row /\ work \subseteq Row
  /\ lock \in Requests \cup {Nobody}
  /\ req \in [Requests -> Connection]

New == [pc |-> "new", about |-> Everything, segments |-> {},
        tries |-> 0, view |-> "none", cited |-> {}, missed |-> FALSE]

\* A new database, or one with a meeting or more in it.
Init ==
  /\ config \in Dimensions /\ dimension \in Dimensions \cup {Nobody}
  /\ \E kept \in [Meetings -> SUBSET Segments] :
       rows = {x \in Row : x.by = Nobody /\ x.segment \in kept[x.meeting]}
  /\ dimension = Nobody => rows = {}
  /\ work = {} /\ lock = Nobody
  /\ req = [r \in Requests |-> New]

Of(m, stored) == {x \in stored : x.meeting = m}
RowsOf(r) ==
  {[meeting |-> req[r].about, segment |-> s, by |-> r] : s \in req[r].segments}

Go(r, pc) == req' = [req EXCEPT ![r].pc = pc]
Ended == [New EXCEPT !.pc = "ended"]  \* answered, well or not, or cut off
End(r) == req' = [req EXCEPT ![r] = Ended]
At(r, pc) == req[r].pc = pc

-----------------------------------------------------------------------------
(* SQLite.  A connection writes when no other does and its snapshot, if it *)
(* has one, is the newest.                                                 *)

MayWrite(r) == lock = Nobody /\ req[r].view # "stale"

\* What a commit that changed the database makes of the snapshots.
Aged(changed) ==
  [r \in Requests |->
     IF changed /\ req[r].view = "fresh" THEN [req[r] EXCEPT !.view = "stale"] ELSE req[r]]

-----------------------------------------------------------------------------
(* get_connection and connect                                              *)

Arrive(r, m) ==
  /\ At(r, "new")
  /\ m = Everything => r \in Questions
  /\ req' = [req EXCEPT ![r] = [New EXCEPT !.pc = "connect", !.about = m]]
  /\ UNCHANGED <<config, table>>

\* INSERT OR IGNORE begins a transaction and takes the lock.
Connect(r) ==
  /\ At(r, "connect") /\ MayWrite(r)
  /\ lock' = r /\ work' = rows
  /\ Go(r, "setup")
  /\ UNCHANGED <<config, dimension, rows>>

\* The lock is not to be had in busy_timeout.  The transaction stays open, and
\* the next attempt's CREATE TABLE IF NOT EXISTS gives it a snapshot, unless
\* there is no table yet.
Snapshots(r) ==
  IF req[r].tries = 0 \/ req[r].view # "none" THEN {req[r].view}
  ELSE IF dimension = Nobody THEN {"none", "fresh"} ELSE {"fresh"}

\* Mutant: after the last attempt there is another one.
Locked_Forever(r) ==
  /\ At(r, "connect") /\ ~MayWrite(r)
  /\ \E view \in Snapshots(r) :
       req' = [req EXCEPT ![r].view = view,
                          ![r].tries = IF @ + 1 = Retries THEN @ ELSE @ + 1]
  /\ UNCHANGED <<config, table>>

Locked(r) ==
  /\ At(r, "connect") /\ ~MayWrite(r)
  /\ LET tries == req[r].tries + 1 IN
     IF tries = Retries
     THEN End(r)
     ELSE \E view \in Snapshots(r) :
            req' = [req EXCEPT ![r].tries = tries, ![r].view = view]
  /\ UNCHANGED <<config, table>>

\* The first step of the request itself.
First(r) ==
  CASE r \in Ingests -> "embed"
    [] r \in Deletes -> "delete"
    [] OTHER -> IF req[r].about = Everything THEN "question" ELSE "exists"

\* Mutant: no commit.
Setup_Uncommitted(r) ==
  /\ At(r, "setup")
  /\ dimension \in {config, Nobody}
  /\ Go(r, First(r))
  /\ UNCHANGED <<config, table>>

\* The stored dimension is the configured one, or there was none.
Setup(r) ==
  /\ At(r, "setup")
  /\ dimension \in {config, Nobody}
  /\ dimension' = config
  /\ req' = [Aged(dimension = Nobody) EXCEPT ![r].pc = First(r), ![r].view = "none"]
  /\ lock' = Nobody /\ work' = {}
  /\ UNCHANGED <<config, rows>>

-----------------------------------------------------------------------------
(* Failures: the connection is rolled back or closed, and what it wrote is *)
(* gone.  connect of another dimension; a provider that refuses, is away,  *)
(* or sends too few vectors; vectors of another length; a disk that is     *)
(* full.                                                                   *)

Rollback(r) ==
  IF lock = r THEN lock' = Nobody /\ work' = {} ELSE UNCHANGED <<lock, work>>

Fail(r) ==
  /\ req[r].pc \in Writing \cup Providers \cup {"search"}
  /\ At(r, "setup") => dimension \notin {config, Nobody}
  /\ End(r)
  /\ Rollback(r)
  /\ UNCHANGED <<config, dimension, rows>>

\* DELETE waits for the lock, no longer than busy_timeout.
DeleteLocked(r) ==
  /\ At(r, "delete") /\ ~MayWrite(r)
  /\ End(r)
  /\ UNCHANGED <<config, table>>

-----------------------------------------------------------------------------
(* ingest and delete_meeting                                               *)

\* embed_documents of what the body has, before the index is touched.
Embed(r) ==
  /\ At(r, "embed")
  /\ \E segments \in IngestRequest :
       req' = [req EXCEPT ![r].pc = "delete", ![r].segments = segments]
  /\ UNCHANGED <<config, table>>

\* Mutant: the DELETE is a transaction of its own.
Delete_Commits(r) ==
  /\ At(r, "delete") /\ MayWrite(r)
  /\ rows' = rows \ Of(req[r].about, rows)
  /\ lock' = r /\ work' = rows'
  /\ Go(r, IF r \in Ingests THEN "insert" ELSE "commit")
  /\ UNCHANGED <<config, dimension>>

\* Mutant: an ingest adds to what is there.
Delete_OnlyDeletes(r) ==
  /\ At(r, "delete") /\ MayWrite(r)
  /\ lock' = r
  /\ work' = IF r \in Ingests THEN rows ELSE rows \ Of(req[r].about, rows)
  /\ Go(r, IF r \in Ingests THEN "insert" ELSE "commit")
  /\ UNCHANGED <<config, dimension, rows>>

\* The first statement of both.
Delete(r) ==
  /\ At(r, "delete") /\ MayWrite(r)
  /\ lock' = r
  /\ work' = rows \ Of(req[r].about, rows)
  /\ Go(r, IF r \in Ingests THEN "insert" ELSE "commit")
  /\ UNCHANGED <<config, dimension, rows>>

\* executemany: in some order, for none of them shows before the commit.
Insert(r) ==
  /\ At(r, "insert")
  /\ \E x \in RowsOf(r) \ work :
       /\ work' = work \cup {x}
       /\ Go(r, IF RowsOf(r) \subseteq work \cup {x} THEN "commit" ELSE "insert")
  /\ UNCHANGED <<config, dimension, rows, lock>>

\* A question about the meeting has seen that it exists.
Overtakes(r, q) ==
  /\ r \in Deletes /\ req[q].about = req[r].about
  /\ req[q].pc \in {"question", "search"}

Commit(r) ==
  /\ At(r, "commit")
  /\ rows' = work
  /\ lock' = Nobody /\ work' = {}
  /\ LET aged == Aged(rows # work) IN
     req' = [q \in Requests |->
               IF q = r THEN Ended
               ELSE [aged[q] EXCEPT !.missed = @ \/ Overtakes(r, q)]]
  /\ UNCHANGED <<config, dimension>>

-----------------------------------------------------------------------------
(* post_chat and answer: no transaction, every SELECT sees the last commit *)

MeetingExists(r) ==
  /\ At(r, "exists")
  /\ IF Of(req[r].about, rows) # {} THEN Go(r, "question") ELSE End(r)
  /\ UNCHANGED <<config, table>>

EmbedQuestion(r) ==
  /\ At(r, "question")
  /\ Go(r, "search")
  /\ UNCHANGED <<config, table>>

\* The TopK nearest rows in the scope: any, as the vectors may be.
Scope(m) == IF m = Everything THEN rows ELSE Of(m, rows)
Nearest(m) ==
  IF Cardinality(Scope(m)) <= TopK THEN {Scope(m)} ELSE kSubset(TopK, Scope(m))

Search(r) ==
  /\ At(r, "search")
  /\ \E found \in Nearest(req[r].about) :
       req' = [req EXCEPT ![r].pc = "ask", ![r].cited = found]
  /\ UNCHANGED <<config, table>>

\* init_chat_model and invoke; the citations are what was found.
Ask(r) ==
  /\ At(r, "ask")
  /\ End(r)
  /\ UNCHANGED <<config, table>>

-----------------------------------------------------------------------------
(* The service ends and is started again, with another dimension perhaps.  *)

Restart(d) ==
  /\ config' = d
  /\ lock' = Nobody /\ work' = {}
  /\ req' = [r \in Requests |-> IF At(r, "new") THEN New ELSE Ended]
  /\ UNCHANGED <<dimension, rows>>

Serve(r) ==
  \/ Connect(r) \/ Locked(r) \/ Setup(r)
  \/ Embed(r) \/ Delete(r) \/ DeleteLocked(r) \/ Insert(r) \/ Commit(r)
  \/ MeetingExists(r) \/ EmbedQuestion(r) \/ Search(r) \/ Ask(r)
  \/ Fail(r)

Next ==
  \/ \E r \in Requests : Serve(r)
  \/ \E r \in Requests, m \in Meetings \cup {Everything} : Arrive(r, m)
  \/ \E d \in Dimensions : Restart(d)

\* A thread runs on; a provider answers, refuses or is given up.
Fairness == \A r \in Requests : WF_vars(Serve(r))

Spec == Init /\ [][Next]_vars /\ Fairness

-----------------------------------------------------------------------------
(* Properties                                                              *)

\* What the index has of a meeting changes as a whole: to the segments of one
\* ingest, all of them, or to nothing; no failure, crash or other request
\* leaves half of it, or half of what was there before.  (upsert_meeting,
\* delete_meeting and the rollback of ingest.)
MeetingsChangeWhole ==
  [][\A m \in Meetings :
       Of(m, rows') # Of(m, rows) =>
         \E r \in Requests :
           /\ req[r].about = m /\ At(r, "commit")
           /\ Of(m, rows') = IF r \in Ingests THEN RowsOf(r) ELSE {}]_vars

\* What an answer cites of a meeting is of one ingest of it, though ingests go
\* on all the time; and an answer about a meeting cites something of it, unless
\* the meeting was deleted between the question's two looks at the index.
\* (post_chat and search.)
CitationsAgree ==
  \A r \in Requests :
    LET cited == req[r].cited IN
    /\ \A x, y \in cited : x.meeting = y.meeting => x.by = y.by
    /\ req[r].about # Everything /\ TopK > 0
         /\ At(r, "ask") /\ cited = {} => req[r].missed

\* No request waits for a provider, or for its turn, with the write lock in its
\* hand: a slow provider does not stop the others.  (connect commits, ingest
\* embeds before it deletes, failures roll back.)
NobodyWaitsLocked == lock # Nobody => req[lock].pc \in Writing

\* Every request is answered, or cut off by a restart: the attempts to connect
\* are counted, every wait for the lock ends.  (_initialize_with_retry.)
RequestsAreAnswered ==
  \A r \in Requests : At(r, "connect") ~> At(r, "ended")
=============================================================================
