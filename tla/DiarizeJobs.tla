---------------------------- MODULE DiarizeJobs ----------------------------
(***************************************************************************)
(* Diarization jobs of the transcription service: POST /diarize puts a job *)
(* into a JobStore and starts a task; the task runs the engine in a pool   *)
(* of one thread, gives every segment a speaker, and asks storage who the  *)
(* speakers are; GET /diarize/{job_id} reads the outcome once; a sweeper   *)
(* forgets what nobody reads.                                              *)
(*                                                                         *)
(* Tasks, requests and sweeper share one event loop, so what happens       *)
(* between two awaits is one step.                                         *)
(***************************************************************************)
EXTENDS Integers, Sequences, FiniteSets, SequencesExt

CONSTANTS
  Jobs,          \* job ids (uuid4: never used twice)
  Labels,        \* the engine's speaker labels
  NoLabel,       \* a segment without a speaker
  Profiles,      \* speaker profiles of the storage service
  NoProfile,     \* no profile matches
  Segments,      \* of the request: records with a start and an end
  Diarizations,  \* outcomes of the engine: records with turns and speakers
  Replies,       \* bodies of /speaker-profiles/match-bulk: sequences of entries
  Missing,       \* no outcome
  TTL            \* _ttl, in ticks

Span == [start : Int, end : Int]
Turn == [start : Int, end : Int, label : Labels]
Diarization == [turns : Seq(Turn), speakers : SUBSET Labels]
Entry == [key : Labels, profile : Profiles \cup {NoProfile}]

ASSUME DiarizeAssumption ==
  /\ Diarizations \subseteq Diarization /\ Replies \subseteq Seq(Entry)
  /\ Segments \subseteq Span
  /\ NoLabel \notin Labels /\ NoProfile \notin Profiles
  /\ TTL \in Nat
  /\ Missing \notin Diarizations /\ Missing \notin Replies

VARIABLES
  task,      \* where the coroutine _run of a job is
  pool,      \* _diarize_executor: submitted jobs, the first one running
  stored,    \* ids in _diarize_jobs
  status,    \* DiarizeJobState.status
  result,    \* DiarizeJobState.result
  age,       \* ticks since updated_at
  found,     \* local of _run: what the engine returned
  reply      \* history: what storage answered

storeVars == <<stored, status, result, age>>
jobVars == <<task, pool, storeVars, found, reply>>

-----------------------------------------------------------------------------
(* merge.py                                                                *)

Earlier(a, b) == IF a <= b THEN a ELSE b
Later(a, b) == IF a <= b THEN b ELSE a

Overlap(s, t) ==
  Later(0, Earlier(s.end, t.end) - Later(s.start, t.start))

\* Mutant: >= instead of >.
Better_OrEqual(s, best, t) ==
  IF Overlap(s, t) >= best.overlap
  THEN [label |-> t.label, overlap |-> Overlap(s, t)] ELSE best

\* One round of the inner loop.
Better(s, best, t) ==
  IF Overlap(s, t) > best.overlap
  THEN [label |-> t.label, overlap |-> Overlap(s, t)] ELSE best

AssignSpeakers(turns) ==
  [s \in Segments |->
     FoldLeft(LAMBDA best, t : Better(s, best, t),
              [label |-> NoLabel, overlap |-> 0], turns).label]

-----------------------------------------------------------------------------
(* speaker_match_client.py                                                 *)

\* Mutant: a reply that leaves a key out is accepted.
NamesAll_Unchecked(asked, entries) == TRUE

\* The check after the loop.
NamesAll(asked, entries) == {entries[i].key : i \in DOMAIN entries} = asked

\* The loop meets no key that was not asked for and none twice.
KeysValid(asked, entries) ==
  \A i \in DOMAIN entries :
    /\ entries[i].key \in asked
    /\ \A k \in 1..(i - 1) : entries[k].key # entries[i].key

\* hits.get(label) for every label.  No storage, no items, an error of HTTP
\* or of the body (Missing): no hits.
MatchBulk(asked, entries) ==
  LET accepted == entries # Missing /\ KeysValid(asked, entries)
                                    /\ NamesAll(asked, entries)
      Hits(l) == IF accepted
                 THEN {entries[i].profile :
                         i \in {k \in DOMAIN entries : entries[k].key = l}}
                 ELSE {} IN
  [l \in asked |-> IF Hits(l) = {} THEN NoProfile ELSE CHOOSE h \in Hits(l) : TRUE]

-----------------------------------------------------------------------------

Outcome(d, r) ==
  [segments |-> AssignSpeakers(d.turns), speakers |-> MatchBulk(d.speakers, r)]

Outcomes == {Outcome(d, r) : d \in Diarizations, r \in Replies \cup {Missing}}

ASSUME OutcomeAssumption == Missing \notin Outcomes

\* Mutant: a failed job is not terminal.
Terminal_CompletedOnly(s) == s = "COMPLETED"

Terminal(s) == s \in {"COMPLETED", "FAILED"}

JobsTypeOK ==
  /\ task \in [Jobs -> {"none", "created", "submitted", "matching", "ended"}]
  /\ pool \in Seq(Jobs)
  /\ stored \in SUBSET Jobs
  /\ status \in [Jobs -> {"PENDING", "RUNNING", "COMPLETED", "FAILED"}]
  /\ result \in [Jobs -> Outcomes \cup {Missing}]
  /\ age \in [Jobs -> 0..(TTL + 1)]
  /\ found \in [Jobs -> Diarizations \cup {Missing}]
  /\ reply \in [Jobs -> Replies \cup {Missing}]

JobsInit ==
  /\ task = [j \in Jobs |-> "none"]
  /\ pool = <<>>
  /\ stored = {}
  /\ status = [j \in Jobs |-> "PENDING"]
  /\ result = [j \in Jobs |-> Missing]
  /\ age = [j \in Jobs |-> 0]
  /\ found = [j \in Jobs |-> Missing]
  /\ reply = [j \in Jobs |-> Missing]

\* start_diarize: put() and create_task().
StartDiarize(j) ==
  /\ task[j] = "none"
  /\ task' = [task EXCEPT ![j] = "created"]
  /\ stored' = stored \cup {j}
  /\ UNCHANGED <<pool, status, result, age, found, reply>>

\* _run up to its first await.
RunSubmits(j) ==
  /\ task[j] = "created"
  /\ task' = [task EXCEPT ![j] = "submitted"]
  /\ status' = [status EXCEPT ![j] = "RUNNING"]
  /\ pool' = Append(pool, j)
  /\ UNCHANGED <<stored, result, age, found, reply>>

\* The except branch.
Failed(j) ==
  /\ status' = [status EXCEPT ![j] = "FAILED"]
  /\ result' = [result EXCEPT ![j] = Missing]
  /\ task' = [task EXCEPT ![j] = "ended"]

\* DiarizeEngine.run returns, with the pipeline that an earlier job loaded or
\* that this one loads.  With no speakers there is nobody to ask about.
EngineReturns(j) ==
  /\ pool # <<>> /\ Head(pool) = j
  /\ pool' = Tail(pool)
  /\ \E d \in Diarizations :
       /\ found' = [found EXCEPT ![j] = d]
       /\ IF d.speakers = {}
          THEN /\ status' = [status EXCEPT ![j] = "COMPLETED"]
               /\ result' = [result EXCEPT ![j] = Outcome(d, Missing)]
               /\ task' = [task EXCEPT ![j] = "ended"]
          ELSE /\ task' = [task EXCEPT ![j] = "matching"]
               /\ UNCHANGED <<status, result>>
  /\ UNCHANGED <<stored, age, reply>>

\* Loading fails (the next job tries again), or the pipeline does.
EngineRaises(j) ==
  /\ pool # <<>> /\ Head(pool) = j
  /\ pool' = Tail(pool)
  /\ Failed(j)
  /\ UNCHANGED <<stored, age, found, reply>>

\* _augment_diarization has an answer, or an error that it swallows.
MatchEnds(j) ==
  /\ task[j] = "matching"
  /\ \E r \in Replies \cup {Missing} :
       /\ reply' = [reply EXCEPT ![j] = r]
       /\ result' = [result EXCEPT ![j] = Outcome(found[j], r)]
  /\ status' = [status EXCEPT ![j] = "COMPLETED"]
  /\ task' = [task EXCEPT ![j] = "ended"]
  /\ UNCHANGED <<pool, stored, age, found>>

\* The jobs of S leave the store; nothing refers to the states of the ended
\* ones any more.
Forget(S) ==
  LET gone == {j \in S : task'[j] = "ended"}
      Without(f) == [j \in Jobs |-> IF j \in gone THEN Missing ELSE f[j]] IN
  /\ stored' = stored \ S
  /\ result' = Without(result)
  /\ found' = Without(found)
  /\ reply' = Without(reply)

\* get_diarize_job: get() refreshes updated_at; a terminal job is discarded
\* with the answer.
GetDiarizeJob(j) ==
  /\ j \in stored
  /\ age' = [age EXCEPT ![j] = 0]
  /\ UNCHANGED <<task, pool, status>>
  /\ Forget(IF Terminal(status[j]) THEN {j} ELSE {})

\* Mutant: the sweeper looks at the age alone.
Expired_AgeOnly(j) == age[j] > TTL

Expired(j) == Terminal(status[j]) /\ age[j] > TTL

Sweep ==
  /\ \E j \in stored : Expired(j)
  /\ UNCHANGED <<task, pool, status, age>>
  /\ Forget({j \in stored : Expired(j)})

\* Time passes; beyond the TTL it makes no difference any more.
Tick ==
  /\ \E j \in stored : age[j] <= TTL
  /\ age' = [j \in Jobs |->
               IF j \in stored THEN Earlier(age[j] + 1, TTL + 1) ELSE age[j]]
  /\ UNCHANGED <<task, pool, stored, status, result, found, reply>>

\* The process ends and starts again: jobs live in memory only.
Restart ==
  /\ pool' = <<>>
  /\ task' = [j \in Jobs |-> IF task[j] = "none" THEN "none" ELSE "ended"]
  /\ UNCHANGED <<status, age>>
  /\ Forget(stored)

RunStep(j) ==
  RunSubmits(j) \/ EngineReturns(j) \/ EngineRaises(j) \/ MatchEnds(j)

JobsNext ==
  \/ \E j \in Jobs : StartDiarize(j) \/ RunStep(j) \/ GetDiarizeJob(j)
  \/ Sweep \/ Tick \/ Restart

\* Coroutines that can run do; inference ends; the request to storage has a
\* timeout; the sweeper wakes up every minute.  Nobody has to poll.
Fairness ==
  /\ \A j \in Jobs : WF_jobVars(RunStep(j))
  /\ WF_jobVars(Sweep) /\ WF_jobVars(Tick)

JobsSpec == JobsInit /\ [][JobsNext]_jobVars /\ Fairness
-----------------------------------------------------------------------------
(* Properties.                                                             *)

\* The first turn that overlaps a segment most, and none if none does.
BestTurn(s, turns) ==
  {i \in DOMAIN turns :
     /\ Overlap(s, turns[i]) > 0
     /\ \A k \in DOMAIN turns :
          /\ Overlap(s, turns[k]) <= Overlap(s, turns[i])
          /\ k < i => Overlap(s, turns[k]) < Overlap(s, turns[i])}

\* Every segment of a result has the speaker of the turn that overlaps it
\* most, the earlier one of two equals, and nobody if no turn touches it.
SegmentsGetTheirSpeaker ==
  \A j \in Jobs : result[j] # Missing =>
    \A s \in Segments :
      LET best == BestTurn(s, found[j].turns) IN
      IF best = {} THEN result[j].segments[s] = NoLabel
      ELSE \A i \in best : result[j].segments[s] = found[j].turns[i].label

\* Storage decides only who the speakers are: a job fails only if the engine
\* did, and a speaker is matched only when the answer named every speaker of
\* this job once and nobody else, as it says there.
StorageOnlyNames ==
  \A j \in Jobs :
    /\ task[j] = "ended" /\ found[j] # Missing /\ j \in stored =>
         status[j] = "COMPLETED" /\ result[j] # Missing
    /\ result[j] # Missing => \A l \in found[j].speakers :
         result[j].speakers[l] # NoProfile =>
           /\ Len(reply[j]) = Cardinality(found[j].speakers)
           /\ \E i \in DOMAIN reply[j] :
                reply[j][i] = [key |-> l, profile |-> result[j].speakers[l]]

\* A job leaves the store only with its outcome: a running one is never
\* forgotten, however long it takes and whoever asks meanwhile.
OnlyOutcomesAreForgotten ==
  [][\A j \in stored \ stored' :
       \/ task[j] = "ended"
       \/ stored' = {} /\ pool' = <<>> /\ task'[j] = "ended"]_jobVars

\* Every job ends and is forgotten, whether or not anybody reads it.
JobsAreForgotten == \A j \in Jobs : j \in stored ~> j \notin stored
=============================================================================
