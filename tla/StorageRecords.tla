--------------------------- MODULE StorageRecords ---------------------------
(***************************************************************************)
(* Storage: the handlers that read, create, change, delete and list single *)
(* meetings, summary templates and speaker profiles, and those that match  *)
(* voices to profiles.                                                     *)
(*                                                                         *)
(* Each request has a session, and so an identity map, of its own.  A      *)
(* SELECT sees the database as committed then; what a request writes, from *)
(* the first statement to commit(), is one step (MeetingStore says why).   *)
(* Two columns stand for all: the name (of a meeting the title) and the    *)
(* body (the voice embedding, the focus instructions, the status).         *)
(***************************************************************************)
EXTENDS Naturals, Sequences, FiniteSets, SequencesExt

CONSTANTS
  Meetings,             \* ids the client chooses
  Templates, Profiles,  \* ids the service makes (uuid4: never used twice)
  Values,               \* of either column
  Null,                 \* NULL
  Recording,            \* status of a new meeting
  Databases,            \* what earlier runs left: listings
  Earlier,              \* and the records behind these ids
  Requests,
  Queries,              \* voice embeddings of requests
  Score,                \* Score[q][v]: cosine similarity
  Threshold,            \* _MATCH_THRESHOLD
  PageSize              \* limit

Kinds == {Meetings, Templates, Profiles}
Records == UNION Kinds
Columns == {"name", "body"}
Row == [Columns -> Values \cup {Null}]

\* What the schemas let through: a new meeting, template and profile, ...
MeetingRow == {row \in Row : row.body = Recording}
TemplateRow == {row \in Row : row.name # Null}
ProfileRow == [Columns -> Values]
RowOf(i) == IF i \in Profiles THEN ProfileRow
            ELSE IF i \in Templates THEN TemplateRow ELSE Row

\* ... the columns sent with a patch, and the voices of a bulk request.
Sent == UNION {[cs -> Values \cup {Null}] : cs \in SUBSET Columns}
Voices == SUBSET Queries \ {{}}

ASSUME RecordsAssumption ==
  /\ Meetings \cap Templates = {} /\ Profiles \cap (Meetings \cup Templates) = {}
  /\ Null \notin Values \cup Records /\ Recording \in Values
  /\ \A i \in Records : Earlier[i] \in RowOf(i)
  /\ Databases \subseteq [Kinds -> Seq(Records)]
  /\ \A db \in Databases, kind \in Kinds : db[kind] \in Seq(kind) /\ IsInjective(db[kind])
  /\ PageSize \in Nat \ {0} /\ Threshold \in Nat
  \* Null: of another dimension, from an older embedding model
  /\ Score \in [Queries -> [Values -> Nat \cup {Null}]]

VARIABLES
  table,  \* the records, by id
  order,  \* their ids, of each kind, by started_at or created_at
  made,   \* uuids given out
  req     \* what each request is doing

recordVars == <<table, order, made, req>>

Present(i) == i \in DOMAIN table

Hits == UNION {[asked -> Profiles \cup {Null}] : asked \in SUBSET Queries}

Request ==
  [pc : {"new"}]
  \cup [pc : {"insert"}, id : Meetings, row : MeetingRow]
  \cup [pc : {"insert"}, id : Templates, row : TemplateRow]
  \cup [pc : {"insert"}, id : Profiles, row : ProfileRow]
  \cup [pc : {"again"}, id : Profiles, name : Values]
  \cup [pc : {"refresh", "delete"}, id : Records]
  \cup [pc : {"flush"}, id : Records, fields : Sent, loaded : Row]
  \cup [pc : {"list", "listed"}, kind : Kinds, offset : Nat, seen : SUBSET Records,
        atFirst : SUBSET Records, deletes : BOOLEAN]
  \cup [pc : {"refetch"}, bulk : BOOLEAN, hits : Hits,
        scan : Seq([id : Profiles, body : Values])]
  \cup [pc : {"done"}, code : {200, 204, 404, 409, 500}]
  \cup [pc : {"done"}, code : {200}, hits : Hits]

\* A listing has each record of its kind once; what must not be NULL is not,
\* and of a patch only the body of a template can be cleared.
RecordsTypeOK ==
  /\ DOMAIN table \subseteq Records /\ table \in [DOMAIN table -> Row]
  /\ \A i \in DOMAIN table : table[i] \in RowOf(i)
  /\ order \in [Kinds -> Seq(Records)]
  /\ \A kind \in Kinds : /\ IsInjective(order[kind])
                         /\ ToSet(order[kind]) = DOMAIN table \cap kind
  /\ made \in SUBSET (Templates \cup Profiles)
  /\ req \in [Requests -> Request]
  /\ \A r \in Requests : req[r].pc = "flush" =>
       \A c \in DOMAIN req[r].fields :
         req[r].fields[c] = Null => req[r].id \in Templates /\ c = "body"

RecordsInit ==
  /\ order \in Databases
  /\ table = [i \in UNION {ToSet(order[kind]) : kind \in Kinds} |-> Earlier[i]]
  /\ made = DOMAIN table \cap (Templates \cup Profiles)
  /\ req = [r \in Requests |-> [pc |-> "new"]]

New(r) == req[r].pc = "new"
To(r, state) == req' = [req EXCEPT ![r] = state]
Answer(r, code) == To(r, [pc |-> "done", code |-> code])
KeepTable == UNCHANGED <<table, order, made>>

-----------------------------------------------------------------------------
(* Create: a look for a conflict, the INSERT, the refresh.                 *)

\* A profile other than i has the name (UNIQUE).
NameTaken(n, i) == \E k \in (DOMAIN table \cap Profiles) \ {i} : table[k].name = n

Inserts(r, i, row) == To(r, [pc |-> "insert", id |-> i, row |-> row])

CreateMeeting(r, i, row) ==
  /\ New(r) /\ i \in Meetings
  /\ IF Present(i) THEN Answer(r, 409) ELSE Inserts(r, i, row)
  /\ KeepTable

CreateTemplate(r, i, row) ==
  /\ New(r) /\ i \in Templates \ made
  /\ made' = made \cup {i}
  /\ Inserts(r, i, row)
  /\ UNCHANGED <<table, order>>

CreateSpeakerProfile(r, i, row) ==
  /\ New(r) /\ i \in Profiles \ made
  /\ made' = made \cup {i}
  /\ IF NameTaken(row.name, i) THEN Answer(r, 409) ELSE Inserts(r, i, row)
  /\ UNCHANGED <<table, order>>

\* Where a listing has a new record: anywhere, for the client may say when a
\* meeting started, and created_at is read some time before the INSERT.
Lists(i) ==
  \E kind \in Kinds :
    /\ i \in kind
    /\ \E p \in 1..(Len(order[kind]) + 1) :
         order' = [order EXCEPT ![kind] = InsertAt(@, p, i)]

Violates(i, row) == Present(i) \/ (i \in Profiles /\ NameTaken(row.name, i))

Insert(r) ==
  /\ req[r].pc = "insert"
  /\ LET i == req[r].id IN
     IF Violates(i, req[r].row)
     THEN /\ IF i \in Profiles
             THEN To(r, [pc |-> "again", name |-> req[r].row.name, id |-> i])
             ELSE Answer(r, 409)
          /\ UNCHANGED <<table, order>>
     ELSE /\ table' = [k \in DOMAIN table \cup {i} |->
                         IF k = i THEN req[r].row ELSE table[k]]
          /\ Lists(i)
          /\ To(r, [pc |-> "refresh", id |-> i])
  /\ UNCHANGED made

\* The profile that was in the way may be gone: then the error is raised.
LookAgain(r) ==
  /\ req[r].pc = "again"
  /\ Answer(r, IF NameTaken(req[r].name, req[r].id) THEN 409 ELSE 500)
  /\ KeepTable

\* session.refresh after commit: a record that is gone by now is an error.
Refresh(r) ==
  /\ req[r].pc = "refresh"
  /\ Answer(r, IF Present(req[r].id) THEN 200 ELSE 500)
  /\ KeepTable

-----------------------------------------------------------------------------
(* Patch: a read, then the UPDATE of what differs from it, then a refresh. *)

\* model_dump(exclude_none=True), and what an explicit null clears.
Fields(sent, clearable) ==
  Restrict(sent, {c \in DOMAIN sent : sent[c] # Null \/ c \in clearable})

\* repo.update up to its flush.
Updates(r, i, fields) ==
  To(r, [pc |-> "flush", id |-> i, fields |-> fields, loaded |-> table[i]])

PatchMeeting(r, i, sent) ==
  /\ New(r) /\ i \in Meetings
  /\ IF Present(i) THEN Updates(r, i, Fields(sent, {})) ELSE Answer(r, 404)
  /\ KeepTable

PatchTemplate(r, i, sent) ==
  /\ New(r) /\ i \in Templates
  /\ LET fields == Fields(sent, {"body"}) IN
     CASE ~Present(i)        -> Answer(r, 404)
       [] DOMAIN fields = {} -> Answer(r, 200)
       [] OTHER              -> Updates(r, i, fields)
  /\ KeepTable

PatchSpeakerProfile(r, i, sent) ==
  /\ New(r) /\ i \in Profiles
  /\ LET fields == Fields(sent, {}) IN
     CASE ~Present(i)        -> Answer(r, 404)
       [] DOMAIN fields = {} -> Answer(r, 200)
       [] OTHER              -> Updates(r, i, fields)
  /\ KeepTable

\* Mutant: the UPDATE sets every column of the object.
Changed_Everything(loaded, fields) == Columns

\* Attributes set to what they were loaded with are not in the UPDATE.
Changed(loaded, fields) == {c \in DOMAIN fields : fields[c] # loaded[c]}

\* The UPDATE finds no row (StaleDataError), breaks the UNIQUE of the name, or
\* is committed.  What does not differ is not written.
Flush(r) ==
  /\ req[r].pc = "flush"
  /\ LET i == req[r].id
         cs == Changed(req[r].loaded, req[r].fields)
         value == [c \in Columns |-> IF c \in DOMAIN req[r].fields
                                      THEN req[r].fields[c] ELSE req[r].loaded[c]] IN
     IF ~Present(i) \/ (i \in Profiles /\ "name" \in cs /\ NameTaken(value.name, i))
     THEN Answer(r, 500) /\ UNCHANGED table
     ELSE /\ table' = [table EXCEPT ![i] =
                         [c \in Columns |-> IF c \in cs THEN value[c] ELSE @[c]]]
          /\ To(r, [pc |-> "refresh", id |-> i])
  /\ UNCHANGED <<order, made>>

-----------------------------------------------------------------------------
(* Get, delete, list.                                                      *)

Get(r, i) ==
  /\ New(r)
  /\ Answer(r, IF Present(i) THEN 200 ELSE 404)
  /\ KeepTable

GetMeeting(r, i) == i \in Meetings /\ Get(r, i)
GetTemplate(r, i) == i \in Templates /\ Get(r, i)
GetSpeakerProfile(r, i) == i \in Profiles /\ Get(r, i)

Delete(r, i) ==
  /\ New(r)
  /\ IF Present(i) THEN To(r, [pc |-> "delete", id |-> i]) ELSE Answer(r, 404)
  /\ KeepTable

DeleteMeeting(r, i) == i \in Meetings /\ Delete(r, i)
DeleteTemplate(r, i) == i \in Templates /\ Delete(r, i)
DeleteSpeakerProfile(r, i) == i \in Profiles /\ Delete(r, i)

\* A DELETE that finds no row any more is only warned about.
DeleteRow(r) ==
  /\ req[r].pc = "delete"
  /\ table' = Restrict(table, DOMAIN table \ {req[r].id})
  /\ order' = [kind \in Kinds |-> RemoveFirst(order[kind], req[r].id)]
  /\ req' = [x \in Requests |->
       CASE x = r                -> [pc |-> "done", code |-> 204]
         [] req[x].pc = "list"   -> [req[x] EXCEPT !.deletes = TRUE]
         [] OTHER                -> req[x]]
  /\ UNCHANGED made

\* Mutant: the offset counts from one.
Page_Late(kind, offset) ==
  {order[kind][Len(order[kind]) + 1 - n] :
     n \in (offset + 2)..(offset + 1 + PageSize) \cap DOMAIN order[kind]}

\* The newest first: the n-th of the list is the n-th from the end.
Page(kind, offset) ==
  {order[kind][Len(order[kind]) + 1 - n] :
     n \in (offset + 1)..(offset + PageSize) \cap DOMAIN order[kind]}

\* A client turns the pages of a list, from the first to an empty one.
ListFirst(r, kind) ==
  /\ New(r)
  /\ To(r, [pc |-> "list", kind |-> kind, offset |-> 0, seen |-> {},
            atFirst |-> DOMAIN table \cap kind, deletes |-> FALSE])
  /\ KeepTable

ListMeetings(r) == ListFirst(r, Meetings)
ListTemplates(r) == ListFirst(r, Templates)
ListSpeakerProfiles(r) == ListFirst(r, Profiles)

ListNext(r) ==
  /\ req[r].pc = "list"
  /\ LET page == Page(req[r].kind, req[r].offset) IN
     To(r, IF page = {} THEN [req[r] EXCEPT !.pc = "listed"]
           ELSE [req[r] EXCEPT !.offset = @ + PageSize, !.seen = @ \cup page])
  /\ KeepTable

-----------------------------------------------------------------------------
(* Matching voices.                                                        *)

\* Mutant: a score that only reaches the best one is passed over.
Beats_Strictly(score, best) == score # Null /\ score > best

Beats(score, best) == score # Null /\ score >= best

\* best_match over the candidates, in the order of the scan.
BestMatch(q, scan) ==
  FoldLeft(LAMBDA best, c : IF Beats(Score[q][c.body], best.score)
                            THEN [id |-> c.id, score |-> Score[q][c.body]]
                            ELSE best,
           [id |-> Null, score |-> Threshold], scan).id

\* list_all_for_matching: the profiles, in no order that it asks for.
Scans ==
  {[k \in DOMAIN ids |-> [id |-> ids[k], body |-> table[ids[k]].body]] :
     ids \in SetToSeqs(DOMAIN table \cap Profiles)}

Matches(r, bulk, asked) ==
  /\ New(r)
  /\ \E scan \in Scans :
       To(r, [pc |-> "refetch", bulk |-> bulk, scan |-> scan,
              hits |-> [q \in asked |-> BestMatch(q, scan)]])
  /\ KeepTable

MatchSpeakerProfile(r, q) == Matches(r, FALSE, {q})

\* The keys of a request are distinct (422).
MatchSpeakerProfileBulk(r, asked) == Matches(r, TRUE, asked)

\* get_many selects again; get finds the object of the scan in the session.
Found(bulk, h) == bulk => Present(h)

Refetch(r) ==
  /\ req[r].pc = "refetch"
  /\ To(r, [pc |-> "done", code |-> 200,
            hits |-> [q \in DOMAIN req[r].hits |->
                        LET h == req[r].hits[q] IN
                        IF Found(req[r].bulk, h) THEN h ELSE Null]])
  /\ KeepTable

-----------------------------------------------------------------------------

First(r) ==
  \/ \E i \in Meetings, row \in MeetingRow : CreateMeeting(r, i, row)
  \/ \E i \in Templates, row \in TemplateRow : CreateTemplate(r, i, row)
  \/ \E i \in Profiles, row \in ProfileRow : CreateSpeakerProfile(r, i, row)
  \/ \E i \in Records, sent \in Sent :
       PatchMeeting(r, i, sent) \/ PatchTemplate(r, i, sent)
       \/ PatchSpeakerProfile(r, i, sent)
  \/ \E i \in Records :
       \/ GetMeeting(r, i) \/ GetTemplate(r, i) \/ GetSpeakerProfile(r, i)
       \/ DeleteMeeting(r, i) \/ DeleteTemplate(r, i) \/ DeleteSpeakerProfile(r, i)
  \/ ListMeetings(r) \/ ListTemplates(r) \/ ListSpeakerProfiles(r)
  \/ \E q \in Queries : MatchSpeakerProfile(r, q)
  \/ \E asked \in Voices : MatchSpeakerProfileBulk(r, asked)

Later(r) ==
  \/ Insert(r) \/ LookAgain(r) \/ Refresh(r) \/ Flush(r) \/ DeleteRow(r)
  \/ ListNext(r) \/ Refetch(r)

RecordsNext == \E r \in Requests : First(r) \/ Later(r)

RecordsSpec == RecordsInit /\ [][RecordsNext]_recordVars
-----------------------------------------------------------------------------
(* Properties.                                                             *)

\* A request that read a record before others changed or deleted it neither
\* takes their changes back nor revives it: what changes in a record that
\* stays is a column its writer was asked to set, to the value asked for, and
\* only a create adds a record.
NoLostUpdate ==
  [][/\ \A i \in DOMAIN table \cap DOMAIN table' : \A c \in Columns :
          table'[i][c] # table[i][c] =>
            \E r \in Requests : /\ req[r].pc = "flush" /\ req[r].id = i
                                /\ req[r] # req'[r]
                                /\ c \in DOMAIN req[r].fields
                                /\ table'[i][c] = req[r].fields[c]
     /\ \A i \in DOMAIN table' \ DOMAIN table :
          \E r \in Requests : req[r].pc = "insert" /\ req[r].id = i]_recordVars

\* Profiles of the scan that are similar enough, and the last of the most
\* similar ones.
Similar(q, scan) ==
  {k \in DOMAIN scan : /\ Score[q][scan[k].body] # Null
                       /\ Score[q][scan[k].body] >= Threshold}

IsBest(q, scan, k) ==
  /\ k \in Similar(q, scan)
  /\ \A l \in Similar(q, scan) :
       Score[q][scan[l].body] + (IF l > k THEN 1 ELSE 0) <= Score[q][scan[k].body]

Answers(r) == req[r].pc = "refetch" /\ req'[r].pc = "done"

\* A voice is given the most similar profile of the scan at or above the
\* threshold, or none if there is no such profile, or it has gone since: never
\* another one, and in bulk never one that has gone.
MatchIsTheBest ==
  [][\A r \in Requests : Answers(r) => \A q \in DOMAIN req[r].hits :
       LET scan == req[r].scan
           best == {k \in DOMAIN scan : IsBest(q, scan, k)}
           hit  == req'[r].hits[q] IN
       IF hit = Null THEN \A k \in best : ~Present(scan[k].id)
       ELSE /\ \E k \in best : hit = scan[k].id
            /\ req[r].bulk => Present(hit)]_recordVars

\* app.py:554: "Vanished between the matching scan and this re-fetch ... treat
\* it the same as no match".  It does not hold of a single match: session.get
\* answers with the object of the scan, which the session has, and asks nobody.
VanishedIsNoMatch ==
  [][\A r \in Requests : Answers(r) => \A q \in DOMAIN req[r].hits :
       req'[r].hits[q] # Null => Present(req'[r].hits[q])]_recordVars

\* Whoever turns the pages while records are created or changed sees every
\* record that was there at the first page: creations repeat entries, only
\* deletes hide one.
PagesMissOnlyByDeletes ==
  \A r \in Requests :
    req[r].pc = "listed" /\ ~req[r].deletes => req[r].atFirst \subseteq req[r].seen
=============================================================================
