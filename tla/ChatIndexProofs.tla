-------------------------- MODULE ChatIndexProofs ---------------------------
(***************************************************************************)
(* The safety properties of ChatIndex, for any requests, meetings,         *)
(* segments and dimensions, and any number of attempts and matches.        *)
(***************************************************************************)
EXTENDS ChatIndex, FiniteSetTheorems, TLAPS

USE DEF At, Go, End, Providers, Writing, IngestRequest, table, Requests

-----------------------------------------------------------------------------
(* The inductive invariant.                                                *)

\* Where a request is says what it is, what it is about and what it brings.
Kinds ==
  \A r \in Requests :
    /\ req[r].pc \in {"embed", "insert"} => r \in Ingests
    /\ req[r].pc \in {"delete", "commit"} => r \in Ingests \cup Deletes
    /\ req[r].pc \notin {"new", "ended"} /\ r \notin Questions =>
         req[r].about \in Meetings
    /\ req[r].pc \in {"delete", "insert", "commit"} /\ r \in Ingests =>
         req[r].segments \in IngestRequest
    /\ req[r].pc = "exists" => req[r].about \in Meetings

\* One connection writes, and holds the lock.
Locks ==
  /\ \A r \in Requests : req[r].pc \in Writing => lock = r
  /\ NobodyWaitsLocked

\* What a commit will write.
Written(r) == IF r \in Ingests THEN RowsOf(r) ELSE {}

\* What the writer has: the rows without those of its meeting, and some or all
\* of its own.
Others(r) == rows \ Of(req[r].about, rows)
WorkOf(r) ==
  /\ At(r, "insert") => \E part \in SUBSET RowsOf(r) : work = Others(r) \cup part
  /\ At(r, "commit") => work = Others(r) \cup Written(r)
Works == \A r \in Requests : WorkOf(r)

\* What is stored of a meeting is of one ingest.
Agree == \A x, y \in rows : x.meeting = y.meeting => x.by = y.by

\* A question has seen its meeting, and it is there still, or was deleted.
Seen ==
  \A r \in Requests :
    req[r].pc \in {"question", "search"} /\ req[r].about # Everything =>
      req[r].missed \/ Of(req[r].about, rows) # {}

IInv ==
  /\ TypeOK
  /\ Kinds
  /\ Locks
  /\ Works
  /\ Agree
  /\ Seen
  /\ CitationsAgree

-----------------------------------------------------------------------------
(* Requests and their connections.                                         *)

LEMMA NewTyped == New \in Connection /\ Ended \in Connection
<1>1. 0 \in 0..(Retries - 1)
  BY ChatAssumption
<1>2. New \in Connection
  BY <1>1 DEF New, Connection, Steps
<1>3. Ended \in Connection
  BY <1>2 DEF Ended, Connection, Steps
<1> QED
  BY <1>2, <1>3

LEMMA StepTyped ==
  ASSUME NEW c \in Connection, NEW pc \in Steps
  PROVE  [c EXCEPT !.pc = pc] \in Connection
BY DEF Connection

LEMMA EndedIs ==
  /\ Ended.pc = "ended" /\ Ended.about = Everything /\ Ended.cited = {}
  /\ New.pc = "new" /\ New.cited = {}
BY DEF Ended, New

\* A step of the request that writes nothing.
LEMMA WorksFrame ==
  ASSUME Works, UNCHANGED <<rows, work>>,
         \A q \in Requests :
           req'[q].pc \in {"insert", "commit"} => req'[q] = req[q]
  PROVE  Works'
<1> SUFFICES ASSUME NEW q \in Requests PROVE WorkOf(q)'
  BY DEF Works
<1>1. CASE req'[q].pc \in {"insert", "commit"}
  <2>1. req'[q] = req[q]
    BY <1>1
  <2>2. RowsOf(q)' = RowsOf(q) /\ Others(q)' = Others(q) /\ Written(q)' = Written(q)
    BY <2>1 DEF RowsOf, Others, Written, Of
  <2> QED
    BY <2>1, <2>2 DEF Works, WorkOf
<1>2. CASE ~(req'[q].pc \in {"insert", "commit"})
  BY <1>2 DEF WorkOf
<1> QED
  BY <1>1, <1>2

\* Nobody writes.
LEMMA WorksVacuous ==
  ASSUME \A q \in Requests : req'[q].pc \notin {"insert", "commit"}
  PROVE  Works'
BY DEF Works, WorkOf

\* A commit leaves the other connections as they are but for their snapshots.
LEMMA AgedKeeps ==
  ASSUME TypeOK, NEW changed \in BOOLEAN
  PROVE  /\ Aged(changed) \in [Requests -> Connection]
         /\ \A q \in Requests :
              /\ Aged(changed)[q].pc = req[q].pc
              /\ Aged(changed)[q].about = req[q].about
              /\ Aged(changed)[q].segments = req[q].segments
              /\ Aged(changed)[q].cited = req[q].cited
              /\ Aged(changed)[q].missed = req[q].missed
<1> SUFFICES ASSUME NEW q \in Requests
             PROVE  LET c == IF changed /\ req[q].view = "fresh"
                             THEN [req[q] EXCEPT !.view = "stale"] ELSE req[q]
                    IN  /\ c \in Connection
                        /\ c.pc = req[q].pc /\ c.about = req[q].about
                        /\ c.segments = req[q].segments
                        /\ c.cited = req[q].cited /\ c.missed = req[q].missed
  BY DEF Aged
<1>1. req[q] \in Connection
  BY DEF TypeOK
<1>2. CASE changed /\ req[q].view = "fresh"
  BY <1>1, <1>2 DEF Connection
<1>3. CASE ~(changed /\ req[q].view = "fresh")
  BY <1>1, <1>3
<1> QED
  BY <1>2, <1>3

LEMMA SetupKeeps ==
  ASSUME TypeOK, NEW r \in Requests, Setup(r)
  PROVE  /\ req' \in [Requests -> Connection]
         /\ req'[r].pc = First(r)
         /\ \A q \in Requests :
              /\ q # r => req'[q].pc = req[q].pc
              /\ req'[q].about = req[q].about
              /\ req'[q].segments = req[q].segments
              /\ req'[q].cited = req[q].cited
              /\ req'[q].missed = req[q].missed
<1> DEFINE aged == Aged(dimension = Nobody)
<1>1. First(r) \in Steps
  BY DEF First, Steps
<1>2. /\ aged \in [Requests -> Connection]
      /\ \A q \in Requests :
           /\ aged[q].pc = req[q].pc /\ aged[q].about = req[q].about
           /\ aged[q].segments = req[q].segments
           /\ aged[q].cited = req[q].cited /\ aged[q].missed = req[q].missed
  BY AgedKeeps
<1>3. req' = [aged EXCEPT ![r].pc = First(r), ![r].view = "none"]
  BY DEF Setup
<1> HIDE DEF aged
<1> QED
  BY <1>1, <1>2, <1>3 DEF Connection

LEMMA CommitKeeps ==
  ASSUME TypeOK, NEW r \in Requests, Commit(r)
  PROVE  /\ req' \in [Requests -> Connection]
         /\ req'[r] = Ended
         /\ \A q \in Requests : q # r =>
              /\ req'[q].pc = req[q].pc
              /\ req'[q].about = req[q].about
              /\ req'[q].segments = req[q].segments
              /\ req'[q].cited = req[q].cited
              /\ req'[q].missed = (req[q].missed \/ Overtakes(r, q))
<1> DEFINE aged == Aged(rows # work)
<1>1. /\ aged \in [Requests -> Connection]
      /\ \A q \in Requests :
           /\ aged[q].pc = req[q].pc /\ aged[q].about = req[q].about
           /\ aged[q].segments = req[q].segments
           /\ aged[q].cited = req[q].cited /\ aged[q].missed = req[q].missed
  BY AgedKeeps
<1>2. req' = [q \in Requests |->
               IF q = r THEN Ended
               ELSE [aged[q] EXCEPT !.missed = aged[q].missed \/ Overtakes(r, q)]]
  BY DEF Commit
<1> HIDE DEF aged
<1>3. \A q \in Requests : (aged[q].missed \/ Overtakes(r, q)) \in BOOLEAN
  OBVIOUS
<1> QED
  BY <1>1, <1>2, <1>3, NewTyped DEF Connection

LEMMA RowsTyped ==
  ASSUME TypeOK, Kinds, NEW r \in Ingests, At(r, "insert") \/ At(r, "commit")
  PROVE  /\ RowsOf(r) \subseteq Row
         /\ \A x \in RowsOf(r) : x.meeting = req[r].about /\ x.by = r
<1>1. req[r].about \in Meetings /\ req[r].segments \subseteq Segments
  BY ChatAssumption DEF Kinds
<1> QED
  BY <1>1 DEF RowsOf, Row

\* What a search finds is in its scope; it finds nothing only where nothing is.
LEMMA FoundIsOfScope ==
  ASSUME NEW m, NEW found \in Nearest(m)
  PROVE  found \subseteq Scope(m) /\ found \subseteq rows
BY DEF Nearest, Scope, Of, kSubset

LEMMA FoundIsSome ==
  ASSUME NEW m, NEW found \in Nearest(m), TopK > 0, found = {}
  PROVE  Scope(m) = {}
<1>1. Cardinality({}) = 0
  BY FS_EmptySet
<1> QED
  BY <1>1, ChatAssumption DEF Nearest, kSubset

-----------------------------------------------------------------------------
LEMMA ArriveInv ==
  ASSUME IInv, NEW r \in Requests, NEW m \in Meetings \cup {Everything}, Arrive(r, m)
  PROVE  IInv'
<1>1. TypeOK'
  <2>1. [New EXCEPT !.pc = "connect", !.about = m] \in Connection
    BY NewTyped DEF Connection, Steps
  <2> QED
    BY <2>1 DEF IInv, TypeOK, Arrive
<1>2. Kinds'
  BY EndedIs, ChatAssumption DEF IInv, TypeOK, Connection, Kinds, Arrive
<1>3. Locks'
  BY EndedIs, ChatAssumption DEF IInv, TypeOK, Connection, Locks,
     NobodyWaitsLocked, Arrive
<1>4. Works'
  BY EndedIs, WorksFrame DEF IInv, TypeOK, Connection, Arrive
<1>5. Agree'
  BY DEF IInv, Agree, Arrive
<1>6. Seen'
  BY EndedIs DEF IInv, TypeOK, Connection, Seen, Of, Arrive
<1>7. CitationsAgree'
  BY EndedIs DEF IInv, TypeOK, Connection, CitationsAgree, Arrive
<1> QED
  BY <1>1, <1>2, <1>3, <1>4, <1>5, <1>6, <1>7 DEF IInv

LEMMA ConnectInv ==
  ASSUME IInv, NEW r \in Requests, Connect(r)
  PROVE  IInv'
<1>1. TypeOK'
  BY StepTyped DEF IInv, TypeOK, Steps, Connect, MayWrite
<1>2. Kinds'
  BY DEF IInv, TypeOK, Connection, Kinds, Connect, MayWrite
<1>3. Locks'
  BY ChatAssumption DEF IInv, TypeOK, Connection, Locks, NobodyWaitsLocked,
     Connect, MayWrite
<1>4. Works'
  <2>1. \A q \in Requests : req[q].pc \notin {"insert", "commit"}
    BY ChatAssumption DEF IInv, Locks, Connect, MayWrite
  <2>2. \A q \in Requests : req'[q].pc \notin {"insert", "commit"}
    BY <2>1 DEF IInv, TypeOK, Connection, Connect
  <2> QED
    BY <2>2, WorksVacuous
<1>5. Agree'
  BY DEF IInv, Agree, Connect, MayWrite
<1>6. Seen'
  BY DEF IInv, TypeOK, Connection, Seen, Of, Connect, MayWrite
<1>7. CitationsAgree'
  BY DEF IInv, TypeOK, Connection, CitationsAgree, Connect, MayWrite
<1> QED
  BY <1>1, <1>2, <1>3, <1>4, <1>5, <1>6, <1>7 DEF IInv

LEMMA LockedInv ==
  ASSUME IInv, NEW r \in Requests, Locked(r)
  PROVE  IInv'
<1>1. TypeOK'
  <2>1. req[r] \in Connection
    BY DEF IInv, TypeOK
  <2>2. CASE req[r].tries + 1 = Retries
    BY <2>2, NewTyped DEF IInv, TypeOK, Locked
  <2>3. CASE req[r].tries + 1 # Retries
    <3>1. PICK view \in Snapshots(r) :
            req' = [req EXCEPT ![r].tries = req[r].tries + 1, ![r].view = view]
      BY <2>3 DEF Locked
    <3>2. view \in {"none", "fresh", "stale"}
      BY <2>1 DEF Snapshots, Connection
    <3>3. req[r].tries + 1 \in 0..(Retries - 1)
      BY <2>1, <2>3, ChatAssumption DEF Connection
    <3>4. [req[r] EXCEPT !.tries = req[r].tries + 1, !.view = view] \in Connection
      BY <2>1, <3>2, <3>3 DEF Connection
    <3>5. req' \in [Requests -> Connection]
      BY <3>1, <3>4 DEF IInv, TypeOK
    <3> QED
      BY <3>5 DEF IInv, TypeOK, Locked
  <2> QED
    BY <2>2, <2>3
<1>2. Kinds'
  BY EndedIs DEF IInv, TypeOK, Connection, Kinds, Locked, Snapshots
<1>3. Locks'
  BY EndedIs, ChatAssumption DEF IInv, TypeOK, Connection, Locks,
     NobodyWaitsLocked, Locked, Snapshots
<1>4. Works'
  BY EndedIs, WorksFrame DEF IInv, TypeOK, Connection, Locked, Snapshots
<1>5. Agree'
  BY DEF IInv, Agree, Locked, Snapshots
<1>6. Seen'
  BY EndedIs DEF IInv, TypeOK, Connection, Seen, Of, Locked, Snapshots
<1>7. CitationsAgree'
  BY EndedIs DEF IInv, TypeOK, Connection, CitationsAgree, Locked, Snapshots
<1> QED
  BY <1>1, <1>2, <1>3, <1>4, <1>5, <1>6, <1>7 DEF IInv

LEMMA SetupInv ==
  ASSUME IInv, NEW r \in Requests, Setup(r)
  PROVE  IInv'
<1>1. TypeOK'
  BY SetupKeeps DEF IInv, TypeOK, Setup
<1>2. Kinds'
  <2>1. r \in Ingests => First(r) = "embed"
    BY ChatAssumption DEF First
  <2>2. r \in Deletes => First(r) = "delete"
    BY ChatAssumption DEF First
  <2>3. r \in Questions => First(r) \in {"question", "exists"}
    BY ChatAssumption DEF First
  <2>4. First(r) = "exists" => req[r].about \in Meetings
    BY ChatAssumption DEF First, IInv, TypeOK, Connection
  <2> QED
    BY <2>1, <2>2, <2>3, <2>4, SetupKeeps, ChatAssumption DEF IInv, Kinds, Setup
<1>3. Locks'
  <2>1. First(r) \notin Writing
    BY DEF First
  <2> QED
    BY <2>1, SetupKeeps, ChatAssumption DEF IInv, Locks, NobodyWaitsLocked, Setup
<1>4. Works'
  <2>1. First(r) \notin {"insert", "commit"}
    BY DEF First
  <2>2. \A q \in Requests : req'[q].pc \notin {"insert", "commit"}
    BY <2>1, SetupKeeps DEF IInv, Locks, Setup
  <2> QED
    BY <2>2, WorksVacuous
<1>5. Agree'
  BY DEF IInv, Agree, Setup, Aged, First
<1>6. Seen'
  <2>1. First(r) \in {"question", "search"} => req[r].about = Everything
    BY DEF First
  <2> QED
    BY <2>1, SetupKeeps DEF IInv, Seen, Of, Setup
<1>7. CitationsAgree'
  <2>1. First(r) # "ask"
    BY DEF First
  <2> QED
    BY <2>1, SetupKeeps DEF IInv, CitationsAgree, Setup
<1> QED
  BY <1>1, <1>2, <1>3, <1>4, <1>5, <1>6, <1>7 DEF IInv

LEMMA FailInv ==
  ASSUME IInv, NEW r \in Requests, Fail(r)
  PROVE  IInv'
<1>1. TypeOK'
  BY NewTyped, StepTyped DEF IInv, TypeOK, Steps, Fail, Rollback
<1>2. Kinds'
  BY EndedIs DEF IInv, TypeOK, Connection, Kinds, Fail, Rollback
<1>3. Locks'
  BY EndedIs, ChatAssumption DEF IInv, TypeOK, Connection, Locks,
     NobodyWaitsLocked, Fail, Rollback
<1>4. Works'
  <2>1. /\ req'[r].pc = "ended"
        /\ \A q \in Requests : q # r => req'[q] = req[q]
    BY EndedIs DEF IInv, TypeOK, Fail
  <2>2. CASE lock = r
    <3>1. \A q \in Requests : req'[q].pc \notin {"insert", "commit"}
      BY <2>1, <2>2 DEF IInv, Locks
    <3> QED
      BY <3>1, WorksVacuous
  <2>3. CASE lock # r
    BY <2>1, <2>3, WorksFrame DEF IInv, Fail, Rollback
  <2> QED
    BY <2>2, <2>3
<1>5. Agree'
  BY DEF IInv, Agree, Fail, Rollback
<1>6. Seen'
  BY EndedIs DEF IInv, TypeOK, Connection, Seen, Of, Fail, Rollback
<1>7. CitationsAgree'
  BY EndedIs DEF IInv, TypeOK, Connection, CitationsAgree, Fail, Rollback
<1> QED
  BY <1>1, <1>2, <1>3, <1>4, <1>5, <1>6, <1>7 DEF IInv

LEMMA DeleteLockedInv ==
  ASSUME IInv, NEW r \in Requests, DeleteLocked(r)
  PROVE  IInv'
<1>1. TypeOK'
  BY NewTyped, StepTyped DEF IInv, TypeOK, Steps, DeleteLocked
<1>2. Kinds'
  BY EndedIs DEF IInv, TypeOK, Connection, Kinds, DeleteLocked
<1>3. Locks'
  BY EndedIs, ChatAssumption DEF IInv, TypeOK, Connection, Locks,
     NobodyWaitsLocked, DeleteLocked
<1>4. Works'
  BY EndedIs, WorksFrame DEF IInv, TypeOK, Connection, DeleteLocked
<1>5. Agree'
  BY DEF IInv, Agree, DeleteLocked
<1>6. Seen'
  BY EndedIs DEF IInv, TypeOK, Connection, Seen, Of, DeleteLocked
<1>7. CitationsAgree'
  BY EndedIs DEF IInv, TypeOK, Connection, CitationsAgree, DeleteLocked
<1> QED
  BY <1>1, <1>2, <1>3, <1>4, <1>5, <1>6, <1>7 DEF IInv

LEMMA EmbedInv ==
  ASSUME IInv, NEW r \in Requests, Embed(r)
  PROVE  IInv'
<1>1. TypeOK'
  <2>1. req[r] \in Connection
    BY DEF IInv, TypeOK
  <2>2. PICK segments \in SUBSET Segments :
          req' = [req EXCEPT ![r].pc = "delete", ![r].segments = segments]
    BY DEF Embed
  <2>3. [req[r] EXCEPT !.pc = "delete", !.segments = segments] \in Connection
    BY <2>1 DEF Connection, Steps
  <2>4. req' \in [Requests -> Connection]
    BY <2>2, <2>3 DEF IInv, TypeOK
  <2> QED
    BY <2>4 DEF IInv, TypeOK, Embed
<1>2. Kinds'
  BY DEF IInv, TypeOK, Connection, Kinds, Embed
<1>3. Locks'
  BY ChatAssumption DEF IInv, TypeOK, Connection, Locks, NobodyWaitsLocked,
     Embed
<1>4. Works'
  BY WorksFrame DEF IInv, TypeOK, Connection, Embed
<1>5. Agree'
  BY DEF IInv, Agree, Embed
<1>6. Seen'
  BY DEF IInv, TypeOK, Connection, Seen, Of, Embed
<1>7. CitationsAgree'
  BY DEF IInv, TypeOK, Connection, CitationsAgree, Embed
<1> QED
  BY <1>1, <1>2, <1>3, <1>4, <1>5, <1>6, <1>7 DEF IInv

LEMMA DeleteInv ==
  ASSUME IInv, NEW r \in Requests, Delete(r)
  PROVE  IInv'
<1>1. TypeOK'
  BY StepTyped DEF IInv, TypeOK, Steps, Delete, MayWrite
<1>2. Kinds'
  BY DEF IInv, TypeOK, Connection, Kinds, Delete, MayWrite
<1>3. Locks'
  BY ChatAssumption DEF IInv, TypeOK, Connection, Locks, NobodyWaitsLocked,
     Delete, MayWrite
<1>4. Works'
  <2>1. \A q \in Requests : q # r => req'[q].pc \notin {"insert", "commit"}
    BY ChatAssumption DEF IInv, TypeOK, Locks, Delete, MayWrite
  <2>2. /\ req'[r].about = req[r].about
        /\ req'[r].pc = IF r \in Ingests THEN "insert" ELSE "commit"
    BY DEF IInv, TypeOK, Connection, Delete
  <2>3. work' = Others(r)'
    BY <2>2 DEF Others, Of, Delete
  <2>4. CASE r \in Ingests
    <3>1. work' = Others(r)' \cup {} /\ {} \in SUBSET RowsOf(r)'
      BY <2>3
    <3>2. WorkOf(r)'
      BY <2>2, <2>4, <3>1 DEF WorkOf
    <3> QED
      BY <2>1, <3>2 DEF Works, WorkOf
  <2>5. CASE r \notin Ingests
    <3>1. Written(r)' = {}
      BY <2>5 DEF Written
    <3>2. WorkOf(r)'
      BY <2>2, <2>3, <2>5, <3>1 DEF WorkOf
    <3> QED
      BY <2>1, <3>2 DEF Works, WorkOf
  <2> QED
    BY <2>4, <2>5
<1>5. Agree'
  BY DEF IInv, Agree, Delete, MayWrite
<1>6. Seen'
  BY DEF IInv, TypeOK, Connection, Seen, Of, Delete, MayWrite
<1>7. CitationsAgree'
  BY DEF IInv, TypeOK, Connection, CitationsAgree, Delete, MayWrite
<1> QED
  BY <1>1, <1>2, <1>3, <1>4, <1>5, <1>6, <1>7 DEF IInv

LEMMA InsertInv ==
  ASSUME IInv, NEW r \in Requests, Insert(r)
  PROVE  IInv'
<1>1. TypeOK'
  <2>1. r \in Ingests /\ RowsOf(r) \subseteq Row
    BY RowsTyped DEF IInv, Kinds, Insert
  <2>2. PICK x \in RowsOf(r) \ work :
          /\ work' = work \cup {x}
          /\ Go(r, IF RowsOf(r) \subseteq work \cup {x} THEN "commit" ELSE "insert")
    BY DEF Insert
  <2>3. req' \in [Requests -> Connection]
    <3>1. \A pc \in {"commit", "insert"} : [req[r] EXCEPT !.pc = pc] \in Connection
      BY StepTyped DEF IInv, TypeOK, Steps
    <3> QED
      BY <2>2, <3>1 DEF IInv, TypeOK
  <2> QED
    BY <2>1, <2>2, <2>3 DEF IInv, TypeOK, Insert
<1>2. Kinds'
  BY DEF IInv, TypeOK, Connection, Kinds, Insert
<1>3. Locks'
  BY ChatAssumption DEF IInv, TypeOK, Connection, Locks, NobodyWaitsLocked,
     Insert
<1>4. Works'
  <2>1. /\ r \in Ingests
        /\ \A y \in RowsOf(r) : y.meeting = req[r].about
    BY RowsTyped DEF IInv, Kinds, Insert
  <2>2. PICK x \in RowsOf(r) \ work :
          /\ work' = work \cup {x}
          /\ Go(r, IF RowsOf(r) \subseteq work \cup {x} THEN "commit" ELSE "insert")
    BY DEF Insert
  <2>3. PICK part \in SUBSET RowsOf(r) : work = Others(r) \cup part
    BY DEF IInv, Works, WorkOf, Insert
  <2>4. \A q \in Requests : q # r => req'[q].pc \notin {"insert", "commit"}
    BY <2>2 DEF IInv, TypeOK, Locks, Insert
  <2>5. /\ req'[r].about = req[r].about /\ req'[r].segments = req[r].segments
        /\ req'[r].pc = IF RowsOf(r) \subseteq work \cup {x} THEN "commit" ELSE "insert"
    BY <2>2 DEF IInv, TypeOK, Connection
  <2>6. RowsOf(r)' = RowsOf(r) /\ Others(r)' = Others(r)
    BY <2>5 DEF RowsOf, Others, Of, Insert
  <2>7. RowsOf(r) \cap Others(r) = {}
    <3> SUFFICES ASSUME NEW y \in RowsOf(r), y \in rows PROVE y \in Of(req[r].about, rows)
      BY DEF Others
    <3> QED
      BY <2>1 DEF Of
  <2>8. work' = Others(r) \cup (part \cup {x}) /\ part \cup {x} \in SUBSET RowsOf(r)
    BY <2>2, <2>3
  <2>9. RowsOf(r) \subseteq work \cup {x} => part \cup {x} = RowsOf(r)
    BY <2>2, <2>7, <2>8
  <2>10. WorkOf(r)'
    <3>1. CASE RowsOf(r) \subseteq work \cup {x}
      <4>1. work' = Others(r)' \cup Written(r)'
        BY <2>1, <2>6, <2>8, <2>9, <3>1 DEF Written
      <4> QED
        BY <2>5, <3>1, <4>1 DEF WorkOf
    <3>2. CASE ~(RowsOf(r) \subseteq work \cup {x})
      BY <2>5, <2>6, <2>8, <3>2 DEF WorkOf
    <3> QED
      BY <3>1, <3>2
  <2> QED
    BY <2>4, <2>10 DEF Works, WorkOf
<1>5. Agree'
  BY DEF IInv, Agree, Insert
<1>6. Seen'
  BY DEF IInv, TypeOK, Connection, Seen, Of, Insert
<1>7. CitationsAgree'
  BY DEF IInv, TypeOK, Connection, CitationsAgree, Insert
<1> QED
  BY <1>1, <1>2, <1>3, <1>4, <1>5, <1>6, <1>7 DEF IInv

LEMMA MeetingExistsInv ==
  ASSUME IInv, NEW r \in Requests, MeetingExists(r)
  PROVE  IInv'
<1>1. TypeOK'
  <2>1. [req[r] EXCEPT !.pc = "question"] \in Connection
    BY StepTyped DEF IInv, TypeOK, Steps
  <2>2. req' \in [Requests -> Connection]
    BY <2>1, NewTyped DEF IInv, TypeOK, MeetingExists
  <2> QED
    BY <2>2 DEF IInv, TypeOK, MeetingExists
<1>2. Kinds'
  BY EndedIs DEF IInv, TypeOK, Connection, Kinds, MeetingExists
<1>3. Locks'
  BY EndedIs, ChatAssumption DEF IInv, TypeOK, Connection, Locks,
     NobodyWaitsLocked, MeetingExists
<1>4. Works'
  BY EndedIs, WorksFrame DEF IInv, TypeOK, Connection, MeetingExists
<1>5. Agree'
  BY DEF IInv, Agree, MeetingExists
<1>6. Seen'
  BY EndedIs DEF IInv, TypeOK, Connection, Seen, Of, MeetingExists
<1>7. CitationsAgree'
  BY EndedIs DEF IInv, TypeOK, Connection, CitationsAgree, MeetingExists
<1> QED
  BY <1>1, <1>2, <1>3, <1>4, <1>5, <1>6, <1>7 DEF IInv

LEMMA EmbedQuestionInv ==
  ASSUME IInv, NEW r \in Requests, EmbedQuestion(r)
  PROVE  IInv'
<1>1. TypeOK'
  BY StepTyped DEF IInv, TypeOK, Steps, EmbedQuestion
<1>2. Kinds'
  BY DEF IInv, TypeOK, Connection, Kinds, EmbedQuestion
<1>3. Locks'
  BY ChatAssumption DEF IInv, TypeOK, Connection, Locks, NobodyWaitsLocked,
     EmbedQuestion
<1>4. Works'
  BY WorksFrame DEF IInv, TypeOK, Connection, EmbedQuestion
<1>5. Agree'
  BY DEF IInv, Agree, EmbedQuestion
<1>6. Seen'
  BY DEF IInv, TypeOK, Connection, Seen, Of, EmbedQuestion
<1>7. CitationsAgree'
  BY DEF IInv, TypeOK, Connection, CitationsAgree, EmbedQuestion
<1> QED
  BY <1>1, <1>2, <1>3, <1>4, <1>5, <1>6, <1>7 DEF IInv

LEMMA AskInv ==
  ASSUME IInv, NEW r \in Requests, Ask(r)
  PROVE  IInv'
<1>1. TypeOK'
  BY NewTyped, StepTyped DEF IInv, TypeOK, Steps, Ask
<1>2. Kinds'
  BY EndedIs DEF IInv, TypeOK, Connection, Kinds, Ask
<1>3. Locks'
  BY EndedIs, ChatAssumption DEF IInv, TypeOK, Connection, Locks,
     NobodyWaitsLocked, Ask
<1>4. Works'
  BY EndedIs, WorksFrame DEF IInv, TypeOK, Connection, Ask
<1>5. Agree'
  BY DEF IInv, Agree, Ask
<1>6. Seen'
  BY EndedIs DEF IInv, TypeOK, Connection, Seen, Of, Ask
<1>7. CitationsAgree'
  BY EndedIs DEF IInv, TypeOK, Connection, CitationsAgree, Ask
<1> QED
  BY <1>1, <1>2, <1>3, <1>4, <1>5, <1>6, <1>7 DEF IInv

LEMMA SearchInv ==
  ASSUME IInv, NEW r \in Requests, Search(r)
  PROVE  IInv'
<1>1. TypeOK'
  <2>1. PICK found \in Nearest(req[r].about) :
          req' = [req EXCEPT ![r].pc = "ask", ![r].cited = found]
    BY DEF Search
  <2>2. found \subseteq Row
    BY <2>1, FoundIsOfScope DEF IInv, TypeOK
  <2>3. req[r] \in Connection
    BY DEF IInv, TypeOK
  <2>4. [req[r] EXCEPT !.pc = "ask", !.cited = found] \in Connection
    BY <2>2, <2>3 DEF Connection, Steps
  <2>5. req' \in [Requests -> Connection]
    BY <2>1, <2>4 DEF IInv, TypeOK
  <2> QED
    BY <2>5 DEF IInv, TypeOK, Search
<1>2. Kinds'
  BY DEF IInv, TypeOK, Connection, Kinds, Search
<1>3. Locks'
  BY ChatAssumption DEF IInv, TypeOK, Connection, Locks, NobodyWaitsLocked,
     Search
<1>4. Works'
  BY WorksFrame DEF IInv, TypeOK, Connection, Search
<1>5. Agree'
  BY DEF IInv, Agree, Search
<1>6. Seen'
  BY DEF IInv, TypeOK, Connection, Seen, Of, Search
<1>7. CitationsAgree'
  <2>1. PICK found \in Nearest(req[r].about) :
          req' = [req EXCEPT ![r].pc = "ask", ![r].cited = found]
    BY DEF Search
  <2>2. found \subseteq rows
    BY FoundIsOfScope
  <2>3. \A x, y \in found : x.meeting = y.meeting => x.by = y.by
    BY <2>2 DEF IInv, Agree
  <2>4. req[r].about # Everything /\ TopK > 0 /\ found = {} => req[r].missed
    BY FoundIsSome DEF IInv, Seen, Scope, Search
  <2>5. /\ req'[r].cited = found /\ req'[r].about = req[r].about
        /\ req'[r].missed = req[r].missed
        /\ \A q \in Requests : q # r => req'[q] = req[q]
    BY <2>1 DEF IInv, TypeOK, Connection
  <2> QED
    BY <2>3, <2>4, <2>5 DEF IInv, CitationsAgree
<1> QED
  BY <1>1, <1>2, <1>3, <1>4, <1>5, <1>6, <1>7 DEF IInv

LEMMA CommitInv ==
  ASSUME IInv, NEW r \in Requests, Commit(r)
  PROVE  IInv'
<1>1. TypeOK'
  BY CommitKeeps, ChatAssumption DEF IInv, TypeOK, Commit
<1>2. Kinds'
  BY CommitKeeps, EndedIs DEF IInv, Kinds, Commit
<1>3. Locks'
  BY CommitKeeps, EndedIs, ChatAssumption DEF IInv, Locks, NobodyWaitsLocked, Commit
<1>4. Works'
  <2>1. \A q \in Requests : req'[q].pc \notin {"insert", "commit"}
    BY CommitKeeps, EndedIs DEF IInv, Locks, Commit
  <2> QED
    BY <2>1, WorksVacuous
<1>5. Agree'
  <2>1. rows' = Others(r) \cup Written(r)
    BY DEF IInv, Works, WorkOf, Commit
  <2>2. \A x \in Written(r) : x.meeting = req[r].about /\ x.by = r
    BY RowsTyped DEF Written, IInv, Commit
  <2>3. \A x \in Others(r) : x \in rows /\ x.meeting # req[r].about
    BY DEF Others, Of
  <2> QED
    BY <2>1, <2>2, <2>3 DEF IInv, Agree
<1>6. Seen'
  <2> SUFFICES ASSUME NEW q \in Requests,
                      req'[q].pc \in {"question", "search"}, req'[q].about # Everything
               PROVE  req'[q].missed \/ Of(req'[q].about, rows') # {}
    BY DEF Seen
  <2>1. /\ q # r /\ req[q].pc = req'[q].pc /\ req[q].about = req'[q].about
        /\ req'[q].missed = (req[q].missed \/ Overtakes(r, q))
    BY CommitKeeps, EndedIs DEF IInv
  <2>2. req[q].missed \/ Of(req[q].about, rows) # {}
    BY <2>1 DEF IInv, Seen
  <2>3. rows' = Others(r) \cup Written(r)
    BY DEF IInv, Works, WorkOf, Commit
  <2>4. CASE req[q].about # req[r].about
    <3>1. Of(req[q].about, rows) \subseteq Of(req[q].about, rows')
      BY <2>3, <2>4 DEF Of, Others
    <3> QED
      BY <2>1, <2>2, <3>1
  <2>5. CASE req[q].about = req[r].about /\ r \in Ingests
    <3>1. req[r].segments # {}
      BY <2>5 DEF IInv, Kinds, Commit
    <3> PICK s \in req[r].segments : TRUE
      BY <3>1
    <3>2. [meeting |-> req[r].about, segment |-> s, by |-> r] \in Written(r)
      BY <2>5 DEF Written, RowsOf
    <3> QED
      BY <2>1, <2>3, <2>5, <3>2 DEF Of
  <2>6. CASE req[q].about = req[r].about /\ r \notin Ingests
    BY <2>1, <2>6 DEF IInv, Kinds, Commit, Overtakes
  <2> QED
    BY <2>4, <2>5, <2>6
<1>7. CitationsAgree'
  <2> SUFFICES ASSUME NEW q \in Requests
               PROVE  LET cited == req'[q].cited IN
                      /\ \A x, y \in cited : x.meeting = y.meeting => x.by = y.by
                      /\ req'[q].about # Everything /\ TopK > 0 /\ req'[q].pc = "ask"
                           /\ cited = {} => req'[q].missed
    BY DEF CitationsAgree
  <2>1. CASE q = r
    BY <2>1, CommitKeeps, EndedIs DEF IInv
  <2>2. CASE q # r
    <3>1. /\ req'[q].pc = req[q].pc /\ req'[q].about = req[q].about
          /\ req'[q].cited = req[q].cited /\ (req[q].missed => req'[q].missed)
      BY <2>2, CommitKeeps DEF IInv
    <3> QED
      BY <3>1 DEF IInv, CitationsAgree
  <2> QED
    BY <2>1, <2>2
<1> QED
  BY <1>1, <1>2, <1>3, <1>4, <1>5, <1>6, <1>7 DEF IInv

LEMMA RestartInv ==
  ASSUME IInv, NEW d \in Dimensions, Restart(d)
  PROVE  IInv'
<1>1. \A q \in Requests : req'[q] \in {New, Ended}
  BY DEF Restart
<1>2. TypeOK'
  BY NewTyped, ChatAssumption DEF IInv, TypeOK, Restart
<1>3. Kinds' /\ Seen'
  BY <1>1, EndedIs DEF Kinds, Seen
<1>4. Locks'
  BY <1>1, EndedIs DEF Locks, NobodyWaitsLocked, Restart
<1>5. Works'
  BY <1>1, EndedIs, WorksVacuous
<1>6. Agree'
  BY DEF IInv, Agree, Restart
<1>7. CitationsAgree'
  BY <1>1, EndedIs DEF CitationsAgree
<1> QED
  BY <1>2, <1>3, <1>4, <1>5, <1>6, <1>7 DEF IInv

LEMMA InitInv ==
  ASSUME Init
  PROVE  IInv
<1>1. \A q \in Requests : req[q] = New
  BY DEF Init
<1>2. TypeOK
  BY NewTyped DEF Init, TypeOK
<1>3. Kinds /\ Seen /\ CitationsAgree
  BY <1>1, EndedIs DEF Kinds, Seen, CitationsAgree
<1>4. Locks
  BY <1>1, EndedIs DEF Locks, NobodyWaitsLocked, Init
<1>5. Works
  BY <1>1, EndedIs DEF Works, WorkOf
<1>6. Agree
  BY DEF Agree, Init
<1> QED
  BY <1>2, <1>3, <1>4, <1>5, <1>6 DEF IInv

LEMMA StepInv ==
  ASSUME IInv, [Next]_vars
  PROVE  IInv'
<1>1. CASE UNCHANGED vars
  BY <1>1 DEF vars, IInv, TypeOK, Kinds, Locks, NobodyWaitsLocked, Works, WorkOf,
     Others, Written, RowsOf, Of, Agree, Seen, CitationsAgree
<1>2. ASSUME NEW r \in Requests, Serve(r) PROVE IInv'
  BY <1>2, ConnectInv, LockedInv, SetupInv, EmbedInv, DeleteInv, DeleteLockedInv,
     InsertInv, CommitInv, MeetingExistsInv, EmbedQuestionInv, SearchInv, AskInv,
     FailInv DEF Serve
<1> QED
  BY <1>1, <1>2, ArriveInv, RestartInv DEF Next

LEMMA Inductive == Spec => []IInv
BY InitInv, StepInv, PTL DEF Spec

-----------------------------------------------------------------------------
(* Theorems.                                                               *)

\* The service never leaves its types: the attempts to connect stay below the
\* limit, and only ingests have segments in the index.
THEOREM TypeCorrect == Spec => []TypeOK
<1>1. IInv => TypeOK
  BY DEF IInv
<1> QED
  BY <1>1, Inductive, PTL

\* No request waits for a provider or for its turn with the write lock in its
\* hand.  (connect commits, ingest embeds first.)
THEOREM ProvidersAreAskedUnlocked == Spec => []NobodyWaitsLocked
<1>1. IInv => NobodyWaitsLocked
  BY DEF IInv, Locks
<1> QED
  BY <1>1, Inductive, PTL

\* Citations of a meeting are of one ingest of it, and an answer about a meeting
\* has some unless the meeting was deleted meanwhile.  (post_chat, search.)
THEOREM AnswersCiteOneIngest == Spec => []CitationsAgree
<1>1. IInv => CitationsAgree
  BY DEF IInv
<1> QED
  BY <1>1, Inductive, PTL

\* Only a commit changes the rows.
LEMMA RowsChangeByCommit ==
  ASSUME [Next]_vars, rows' # rows
  PROVE  \E r \in Requests : Commit(r)
BY DEF Next, vars, Serve, Arrive, Restart, Connect, Locked, Setup, Embed, Delete,
   DeleteLocked, Insert, MeetingExists, EmbedQuestion, Search, Ask, Fail

\* The index changes a meeting at a time, to one whole ingest or to nothing.
\* (upsert_meeting, delete_meeting and their rollback.)
THEOREM IndexChangesWhole == Spec => MeetingsChangeWhole
<1> DEFINE Whole ==
      \A m \in Meetings :
        Of(m, rows') # Of(m, rows) =>
          \E r \in Requests :
            /\ req[r].about = m /\ At(r, "commit")
            /\ Of(m, rows') = IF r \in Ingests THEN RowsOf(r) ELSE {}
<1>1. ASSUME IInv, [Next]_vars PROVE Whole
  <2> SUFFICES ASSUME NEW m \in Meetings, Of(m, rows') # Of(m, rows)
               PROVE  \E r \in Requests :
                        /\ req[r].about = m /\ At(r, "commit")
                        /\ Of(m, rows') = IF r \in Ingests THEN RowsOf(r) ELSE {}
    OBVIOUS
  <2>1. PICK r \in Requests : Commit(r)
    BY <1>1, RowsChangeByCommit
  <2>2. At(r, "commit") /\ rows' = Others(r) \cup Written(r)
    BY <1>1, <2>1 DEF IInv, Works, WorkOf, Commit
  <2>3. \A x \in Written(r) : x.meeting = req[r].about
    BY <1>1, <2>2, RowsTyped DEF Written, IInv
  <2>4. req[r].about = m
    BY <2>2, <2>3 DEF Of, Others
  <2>5. Of(m, rows') = Written(r)
    BY <2>2, <2>3, <2>4 DEF Of, Others
  <2> QED
    BY <2>2, <2>4, <2>5 DEF Written
<1>2. IInv /\ [Next]_vars => [Whole]_vars
  BY <1>1
<1> QED
  BY <1>2, Inductive, PTL DEF Spec, MeetingsChangeWhole
=============================================================================
