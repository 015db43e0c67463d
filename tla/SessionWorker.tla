--------------------------- MODULE SessionWorker ---------------------------
(***************************************************************************)
(* One transcription session: worker.py's SessionWorker (an ingest task    *)
(* and a batch task around an asyncio queue) together with the endpoints   *)
(* of app.py that start, poll and stop it and the store entry they share.  *)
(*                                                                         *)
(* Everything runs on one asyncio event loop, so an action is the code     *)
(* between two suspension points: BroadcastChannel.publish never suspends, *)
(* which makes the emission of a whole batch a single step.                *)
(***************************************************************************)
EXTENDS Naturals, Sequences, FiniteSets

CONSTANTS
  MaxSegments,  \* bound: segments the audio stream delivers in one behaviour
  MaxBatch,     \* SessionWorker(max_batch_size = 8)
  Attempts,     \* stamina.retry(attempts = 3)
  MaxRestarts,  \* bound: recordings the shell starts after the first one
  Rates,        \* which sample rates arrive: "valid" (> 0), "invalid" (<= 0)
  Stoppers      \* concurrent POST /sessions/{id}/stop requests

ASSUME SessionAssumption ==
  /\ MaxSegments \in Nat
  /\ MaxBatch \in Nat \ {0}
  /\ Attempts \in Nat \ {0}
  /\ MaxRestarts \in Nat
  /\ Rates \subseteq {"valid", "invalid"}

VARIABLES
  audio,        \* audio core: recording number and next segment_id of its VAD
  received,     \* segments_received
  queue,        \* asyncio.Queue of segments, unbounded
  batch,        \* valid_batch of the batch task, a set (kept if the task dies)
  attempt,      \* calls of the engine made for this batch
  emitted,      \* what was handed to BroadcastChannel.publish, in order
  transcribed,  \* segments_transcribed
  ingest,       \* state of the ingest task
  batcher,      \* where the batch task stands
  runner,       \* state of _run: SessionWorker.run under gather
  stopEvent,    \* _stop_event.is_set()
  atStop,       \* history: segments received when the event was first set
  stopPc,       \* where each stop request stands
  stored,       \* the session has an entry in the _sessions store
  status,       \* SessionState.status
  poll          \* a GET /sessions/{id}, which runs in a thread of its own

inVars    == <<audio, received>>
outVars   == <<emitted, transcribed>>
workVars  == <<queue, batch, attempt>>
taskVars  == <<ingest, batcher, runner>>
stopVars  == <<stopEvent, atStop, stopPc>>
entryVars == <<stored, status, poll>>
vars == <<inVars, outVars, workVars, taskVars, stopVars, entryVars>>

-----------------------------------------------------------------------------

Segment == [n    : 1..MaxSegments,        \* arrival number, a history value
            id   : Nat,                   \* AudioSegment.segment_id
            rec  : 0..MaxRestarts,        \* recording that produced it
            rate : Rates]

Emission == [seg : Segment, kind : {"text", "error"}]

TypeOK ==
  /\ audio \in [rec : 0..MaxRestarts, next : Nat]
  /\ received \in 0..MaxSegments
  /\ queue \in Seq(Segment)
  /\ batch \in SUBSET Segment
  /\ attempt \in 0..Attempts
  /\ emitted \in Seq(Emission)
  /\ transcribed \in Nat
  /\ ingest \in {"running", "cancelled", "failed"}
  /\ batcher \in {"top", "waiting", "engine", "done", "failed"}
  /\ runner \in {"gather", "failed", "cancelled"}
  /\ stopEvent \in BOOLEAN
  /\ atStop \in 0..MaxSegments
  /\ stopPc \in [Stoppers -> {"idle", "awaitBatch", "awaitIngest",
                              "returned", "raised", "notFound"}]
  /\ stored \in BOOLEAN
  /\ status \in {"started", "stopping", "failed"}
  /\ poll \in {"idle", "sawTerminal"}

\* start_session has stored the entry and run() has created both tasks.
Init ==
  /\ audio = [rec |-> 0, next |-> 0]
  /\ received = 0
  /\ queue = <<>>
  /\ batch = {}
  /\ attempt = 0
  /\ emitted = <<>>
  /\ transcribed = 0
  /\ ingest = "running"
  /\ batcher = "top"
  /\ runner = "gather"
  /\ stopEvent = FALSE
  /\ atStop = 0
  /\ stopPc = [c \in Stoppers |-> "idle"]
  /\ stored = TRUE
  /\ status = "started"
  /\ poll = "idle"

-----------------------------------------------------------------------------
(* The audio stream and the ingest task.                                   *)

\* A new recording starts while the session stays open: its pipeline counts
\* segment_ids from 0 again.
AudioRestart ==
  /\ audio.rec < MaxRestarts
  /\ audio' = [rec |-> audio.rec + 1, next |-> 0]
  /\ UNCHANGED <<received, outVars, workVars, taskVars, stopVars, entryVars>>

\* One turn of `async for seg in stream`.
IngestSegment ==
  /\ ingest = "running"
  /\ received < MaxSegments
  /\ \E r \in Rates :
       queue' = Append(queue, [n |-> received + 1, id |-> audio.next,
                               rec |-> audio.rec, rate |-> r])
  /\ received' = received + 1
  /\ audio' = [audio EXCEPT !.next = @ + 1]
  /\ UNCHANGED <<outVars, batch, attempt, taskVars, stopVars, entryVars>>

\* An exception other than AioRpcError leaves stream_segments: nothing
\* catches it before gather.  (AioRpcError only delays the next segment.)
IngestFails ==
  /\ ingest = "running"
  /\ ingest' = "failed"
  /\ UNCHANGED <<inVars, outVars, workVars, batcher,
                 runner, stopVars, entryVars>>

-----------------------------------------------------------------------------
(* The batch task.                                                         *)

ByArrival(g, h) == g.n < h.n

\* sorted(..., key = segment_id) is stable: equal ids stay in arrival order.
ById(g, h) == g.id < h.id \/ (g.id = h.id /\ g.n < h.n)

\* The segments of S listed in the order Before.
Listings(S, Before(_, _)) ==
  {f \in [1..Cardinality(S) -> S] :
     /\ {f[i] : i \in DOMAIN f} = S
     /\ \A i, j \in DOMAIN f : i < j => Before(f[i], f[j])}

\* publish() the listed segments, as text or as error segments.
Publish(f, kind) ==
  emitted' = emitted \o [i \in DOMAIN f |-> [seg |-> f[i], kind |-> kind]]

Valid(S) == {g \in S : g.rate = "valid"}

\* Mutant: the loop ignores what is still queued once stop is requested.
MayExit_ForgetQueue == stopEvent

\* `while not stop_event.is_set() or not queue.empty()` is false.
MayExit == stopEvent /\ queue = <<>>

LoopExit ==
  /\ batcher = "top"
  /\ MayExit
  /\ batcher' = "done"
  /\ UNCHANGED <<inVars, outVars, workVars, ingest,
                 runner, stopVars, entryVars>>

\* The first get() of _collect_batch finds nothing and suspends.
LoopWait ==
  /\ batcher = "top"
  /\ ~stopEvent
  /\ queue = <<>>
  /\ batcher' = "waiting"
  /\ UNCHANGED <<inVars, outVars, workVars, ingest,
                 runner, stopVars, entryVars>>

\* Mutant: the first get() has no batch_window_s timeout.
WaitMayExpire_Never == FALSE

WaitMayExpire == batcher = "waiting"

\* wait_for raises TimeoutError: an empty batch, and around the loop.
GetTimeout ==
  /\ WaitMayExpire
  /\ batcher' = "top"
  /\ UNCHANGED <<inVars, outVars, workVars, ingest,
                 runner, stopVars, entryVars>>

\* Mutant: the loop waits for a full batch and never flushes a partial one.
MayCollect_OnlyFull == batcher = "top" /\ Len(queue) >= MaxBatch

MayCollect == batcher = "top" \/ (batcher = "waiting" /\ queue # <<>>)

\* _collect_batch takes k segments (a slow loop reaches its deadline before
\* max_batch_size) and _process_batch runs to its first suspension: error
\* segments for invalid rates, then the rest goes to the executor, unless
\* converting a segment raises and ends the task.
CollectBatch ==
  /\ MayCollect
  /\ \E k \in 1..MaxBatch :
       /\ k <= Len(queue)
       /\ LET taken == {queue[i] : i \in 1..k} IN
          /\ queue' = SubSeq(queue, k + 1, Len(queue))
          /\ \E f \in Listings(taken \ Valid(taken), ByArrival) :
               Publish(f, "error")
          /\ batch' = Valid(taken)
          /\ \/ Valid(taken) = {} /\ batcher' = "top" /\ attempt' = 0
             \/ Valid(taken) # {} /\ batcher' = "engine" /\ attempt' = 1
             \/ Valid(taken) # {} /\ batcher' = "failed" /\ attempt' = 0
  /\ UNCHANGED <<inVars, transcribed, ingest, runner, stopVars, entryVars>>

MayRetry == attempt < Attempts

\* transcribe_batch raises TranscriptionEngineFailedError; stamina retries.
EngineRetry ==
  /\ batcher = "engine"
  /\ MayRetry
  /\ attempt' = attempt + 1
  /\ UNCHANGED <<inVars, outVars, queue, batch, taskVars, stopVars, entryVars>>

\* Mutant: a batch that failed is put back in the queue for another round.
FailBatch_Requeue ==
  \E f \in Listings(batch, ByArrival) :
    queue' = queue \o f /\ UNCHANGED emitted

\* Mutant: the batch is logged and dropped, no error segment goes out.
FailBatch_Drop == UNCHANGED <<queue, emitted>>

\* _emit_error for every segment of the batch.
FailBatch ==
  /\ \E f \in Listings(batch, ByArrival) : Publish(f, "error")
  /\ UNCHANGED queue

\* The batch leaves the engine without transcripts.
BatchFails ==
  /\ FailBatch
  /\ batch' = {}
  /\ attempt' = 0
  /\ batcher' = "top"
  /\ UNCHANGED <<inVars, transcribed, ingest, runner, stopVars, entryVars>>

\* The last attempt failed too.
EngineGivesUp == batcher = "engine" /\ attempt = Attempts /\ BatchFails

\* An attempt returned another number of results than segments.
ResultCountMismatch == batcher = "engine" /\ BatchFails

\* An attempt succeeds: publish the transcripts in segment_id order.
EngineReturns ==
  /\ batcher = "engine"
  /\ \E f \in Listings(batch, ById) : Publish(f, "text")
  /\ transcribed' = transcribed + Cardinality(batch)
  /\ batch' = {}
  /\ attempt' = 0
  /\ batcher' = "top"
  /\ UNCHANGED <<inVars, queue, ingest, runner, stopVars, entryVars>>

\* Any other exception (the executor is shut down) ends the batch task.
EngineCrash ==
  /\ batcher = "engine"
  /\ batcher' = "failed"
  /\ UNCHANGED <<inVars, outVars, workVars, ingest,
                 runner, stopVars, entryVars>>

-----------------------------------------------------------------------------
(* run() and the background task of start_session around it.               *)

\* gather raises the exception of the task that failed first.  A failed
\* ingest task is awaited first and raises again, which leaves the except
\* block before batch_task.cancel(): the batch task lives on.  A failed
\* batch task has its ingest task cancelled.
RunFails ==
  /\ runner = "gather"
  /\ "failed" \in {ingest, batcher}
  /\ ingest' = IF ingest = "running" THEN "cancelled" ELSE ingest
  /\ runner' = "failed"
  /\ status' = "failed"
  /\ UNCHANGED <<inVars, outVars, workVars, batcher, stopVars, stored, poll>>

\* The ingest task was cancelled by stop(): CancelledError passes both
\* `except Exception` and the status stays as it is.
RunCancelled ==
  /\ runner = "gather"
  /\ ingest = "cancelled"
  /\ batcher # "failed"
  /\ runner' = "cancelled"
  /\ UNCHANGED <<inVars, outVars, workVars, ingest,
                 batcher, stopVars, entryVars>>

-----------------------------------------------------------------------------
(* The endpoints.                                                          *)

\* stop_session up to `await self._batch_task`.
StopSession(c) ==
  /\ stopPc[c] = "idle"
  /\ IF stored
     THEN /\ stopPc' = [stopPc EXCEPT ![c] = "awaitBatch"]
          /\ status' = "stopping"
          /\ stopEvent' = TRUE
          /\ atStop' = IF stopEvent THEN atStop ELSE received
     ELSE /\ stopPc' = [stopPc EXCEPT ![c] = "notFound"]
          /\ UNCHANGED <<stopEvent, atStop, status>>
  /\ UNCHANGED <<inVars, outVars, workVars, taskVars, stored, poll>>

\* Mutant: stop() cancels the ingest task without waiting for the batch task.
BatchAwaited_No == TRUE

BatchAwaited == batcher \in {"done", "failed"}

\* stop() resumes after the batch task and cancels the ingest task.
StopCancelsIngest(c) ==
  /\ stopPc[c] = "awaitBatch"
  /\ BatchAwaited
  /\ ingest' = IF ingest = "running" THEN "cancelled" ELSE ingest
  /\ stopPc' = [stopPc EXCEPT ![c] = "awaitIngest"]
  /\ UNCHANGED <<inVars, outVars, workVars, batcher, runner,
                 stopEvent, atStop, entryVars>>

\* The cancelled ingest task is gone: the entry is discarded and the count
\* returned.  One that failed raises here, and the entry stays.
StopFinishes(c) ==
  /\ stopPc[c] = "awaitIngest"
  /\ IF ingest = "failed"
     THEN stopPc' = [stopPc EXCEPT ![c] = "raised"] /\ UNCHANGED stored
     ELSE stopPc' = [stopPc EXCEPT ![c] = "returned"] /\ stored' = FALSE
  /\ UNCHANGED <<inVars, outVars, workVars, taskVars, stopEvent,
                 atStop, status, poll>>

\* Mutant: every status but "started" is taken for the end of the session.
IsTerminal_AnyEnd == status # "started"

IsTerminal == status = "failed"

\* get_session reads a terminal status in its thread ...
GetSessionReads ==
  /\ stored /\ IsTerminal
  /\ poll = "idle"
  /\ poll' = "sawTerminal"
  /\ UNCHANGED <<inVars, outVars, workVars, taskVars, stopVars, stored, status>>

\* ... and discards the entry, whatever happened to it in the meantime.
GetSessionDiscards ==
  /\ poll = "sawTerminal"
  /\ poll' = "idle"
  /\ stored' = FALSE
  /\ UNCHANGED <<inVars, outVars, workVars, taskVars, stopVars, status>>

\* _sweep_once finds the entry terminal and idle for longer than its TTL.
Sweep ==
  /\ stored /\ IsTerminal
  /\ stored' = FALSE
  /\ UNCHANGED <<inVars, outVars, workVars, taskVars, stopVars, status, poll>>

-----------------------------------------------------------------------------

IngestStep == IngestSegment \/ IngestFails

BatchStep ==
  \/ LoopExit \/ LoopWait \/ GetTimeout \/ CollectBatch
  \/ EngineRetry \/ EngineGivesUp \/ ResultCountMismatch
  \/ EngineReturns \/ EngineCrash

RunStep == RunFails \/ RunCancelled

StopStep(c) == StopCancelsIngest(c) \/ StopFinishes(c)

Next ==
  \/ AudioRestart
  \/ IngestStep
  \/ BatchStep
  \/ RunStep
  \/ \E c \in Stoppers : StopSession(c) \/ StopStep(c)
  \/ GetSessionReads \/ GetSessionDiscards \/ Sweep

\* The event loop runs every task that can run, and an engine call ends.
\* Requests, failures and the audio stream are left to their environment.
Fairness ==
  /\ WF_vars(BatchStep)
  /\ WF_vars(RunStep)
  /\ \A c \in Stoppers : WF_vars(StopStep(c))

Spec == Init /\ [][Next]_vars /\ Fairness
-----------------------------------------------------------------------------
(* Properties.                                                             *)

Emitted == {emitted[i].seg.n : i \in DOMAIN emitted}
InBatch == {g.n : g \in batch}
Queued  == {queue[i].n : i \in DOMAIN queue}

\* Every segment the ingest task received is in exactly one place: waiting
\* in the queue, in the batch of the batch task, or handed to publish once,
\* as a transcript or as an error segment.  A task that dies takes its batch
\* and its queue with it, but nothing it had not answered was answered.
Conservation ==
  /\ Emitted \cup InBatch \cup Queued = 1..received
  /\ Emitted \cap InBatch = {}
  /\ (Emitted \cup InBatch) \cap Queued = {}
  /\ \A i, j \in DOMAIN emitted : emitted[i].seg.n = emitted[j].seg.n => i = j

\* stop() drains: when a stop request has returned and the batch task was not
\* killed by an exception, everything received before the stop event was set
\* has been answered, whatever the batch task was doing at that moment.
StopDrains ==
  (batcher = "done" /\ \E c \in Stoppers : stopPc[c] = "returned")
    => 1..atStop \subseteq Emitted

\* Within one recording transcripts are published in the order the segments
\* arrived, across batches, retries and batches that failed in between.
TranscriptsInOrder ==
  \A i, j \in DOMAIN emitted :
    ( /\ i < j
      /\ emitted[i].kind = "text" /\ emitted[j].kind = "text"
      /\ emitted[i].seg.rec = emitted[j].seg.rec )
    => emitted[i].seg.n < emitted[j].seg.n

\* Once a stop request has its answer, no later step publishes a segment.
QuietAfterStop ==
  [][(\E c \in Stoppers : stopPc[c] \in {"returned", "raised"})
       => UNCHANGED emitted]_vars

\* A session whose entry is gone can no longer be stopped.  Its batch task
\* still runs only if the ingest task failed, the one case in which run()
\* does not get to cancel it.
OrphanOnlyAfterIngestFailure ==
  (~stored /\ batcher \notin {"done", "failed"}) => ingest = "failed"

\* A stop request that found the session gets an answer, once the audio
\* stream is quiet (MaxSegments) and engine calls end.
StopReturns ==
  \A c \in Stoppers :
    stopPc[c] = "awaitBatch" ~> stopPc[c] \in {"returned", "raised"}

\* Received segments do not wait for ever: they are all answered, unless the
\* batch task ended first.
EverySegmentAnswered ==
  Queued \cup InBatch # {}
    ~> (Queued \cup InBatch = {} \/ batcher \in {"done", "failed"})

\* docs/transcription-service.md:82: "At the end of a recording, verify that
\* the number of segments queued matches the number completed before
\* finalizing the transcript."
CompletedMatchesQueued ==
  (batcher = "done" /\ \E c \in Stoppers : stopPc[c] = "returned")
    => Len(emitted) = received

\* docs/transcription-service.md:12 and :76: segment_id is "monotonic,
\* preserves ordering downstream", and one worker processes segments in
\* order, which "preserves chronological transcript ordering".
ChronologicalTranscript ==
  \A i, j \in DOMAIN emitted :
    i < j /\ emitted[i].kind = "text" /\ emitted[j].kind = "text"
    => emitted[i].seg.n < emitted[j].seg.n

=============================================================================
