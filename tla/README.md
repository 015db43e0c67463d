# A TLA+ model of bahlily

bahlily records meetings on the desktop, transcribes them locally and keeps the
transcripts. This directory models the parts of it whose correctness depends on
the order in which things happen: TLA+ modules translated from the source, TLC
configurations that check them on small instances, and TLAPS proofs for every
value of the constants.

## 1. The system

| Part | State | Operations | Talks to |
|---|---|---|---|
| Audio core (`shell/audio-core`), desktop shell (`shell/src`) | capture channels, pending chunks, mixer buffers, segment counter, broadcast channel, recording state | start, stop, pair, mix, detect speech, write, relay | transcription, by gRPC stream `StreamAudio` |
| Session worker (`transcription/worker.py`) | queue, stop event, two tasks, two counters | run, stop, ingest, batch loop | an engine in a thread pool, the broadcast |
| Session endpoints and job stores (`transcription/app.py`, `jobs.py`) | two stores of jobs with a TTL | start, poll, stop, sweep | the worker, HTTP clients |
| Transcript broadcast (`transcription/grpc_server.py`) | one bounded queue per subscriber | subscribe, publish, stream, unsubscribe | storage, by gRPC stream `StreamTranscripts` |
| Model registry (`transcription/registry.py`) | status, in-flight and cancelled sets, files | download, cancel, remove, scan | HTTP clients, a worker thread, the disk |
| Diarization jobs (`transcription/app.py`, `merge.py`, `speaker_match_client.py`) | job states and results | start, poll, run, match, merge | an executor, storage by HTTP |
| Meetings, segments, summaries, templates (`storage/app.py`, `repos.py`) | SQLite tables | create, list, get, patch, delete, batch upsert, summary | the database |
| Transcript subscriber (`storage/grpc_subscriber.py`) | connection state, backoff | connect, handle a segment | the broadcast, the database |
| Speaker profiles (`storage/app.py`, `speaker_matching.py`) | profiles, cluster embeddings, segment labels | match or create, label, merge, delete | transcription, the database |
| Transcription engines (`whisper_engine.py`, `parakeet_engine.py`) | the model, its path, its name | load, unload, transcribe a batch | the registry, the worker's thread |
| Chat (`chat/app.py`, `db.py`, `index.py`, `ingest.py`, `chat.py`) | a segment index in SQLite | ingest, delete, answer | providers of embeddings and answers |
| Orchestration, export | none | summarise, render | language models, storage |
| Calendar, shared packages, frontend | none that changes | | |

How they interact: the audio core cuts speech into numbered segments and streams
them; a session of the transcription service queues and batches them, runs an
engine, and publishes one transcript (or an error) per segment to a bounded
broadcast; the storage service subscribes to it and stores each transcript under
`(meeting_id, segment_id)`, while clients read, write in batches, label speakers
and delete meetings over HTTP.

What is hard in each part, and what makes it correct:

* **Session worker.** Two tasks and any number of HTTP requests share a queue
  and an event on one event loop. A stop may arrive while the batch task waits,
  holds a batch, or is inside an engine call that is retried; either task may
  die. Correct: a segment is never lost inside the worker or answered twice, a
  stop drains what it saw and is final, order is kept, a stop returns.
* **Meetings and subscriber.** Handlers with connections of their own interleave
  between their reads and their commits. Correct: keys hold, `segments_count` is
  the number of rows, rows disappear only with their meeting, the metadata of a
  meeting is that of its first segment.
* **Broadcast.** A slow subscriber's queue fills, a stream breaks and comes back.
  Correct: what arrives keeps its order; what is lost is lost for a known reason.
* **Registry.** Downloads run in threads, are cancelled, collide with
  removes, and clients go away. Correct: *available* means verified files, one
  writer per model directory, a cancelled download never becomes available.
* **Engines.** A model, its path and its name are separate attributes, assigned by
  request threads without a lock while batches read them. Correct: the named model
  is the one in memory, a removed one is in nobody's hands, a batch gives one
  result per audio or an error.
* **Diarization jobs.** A job outlives its request, storage answers or does not, a
  sweeper and polls forget jobs. Correct: a segment gets the speaker who overlaps
  it most, storage's answer can only add names, no outcome is forgotten unread
  before its time and none is kept for ever.
* **Single records.** A handler reads a row, decides, flushes and refreshes, while
  others change or delete it. Correct: no update is lost or revives a record, a
  match is the best one of its scan, pages miss only what was deleted.
* **Chat.** Each request has a connection; one may write at a time, readers keep
  snapshots, providers take long. Correct: a meeting's rows change as a whole,
  nobody waits for a provider with the lock, requests end, answers cite one ingest.
* **Speaker profiles.** Matching, labelling and merging read, decide and write.
  Correct: no label refers to a profile that is gone, names stay unique.
* **Audio core.** Threads, bounded channels that drop, a pairing thread that may
  block. Correct: ids are unique in a recording, what is written is paired, a
  stop ends.

`PROJECT.json` lists the components with what is modelled of each, and the
hazards, each at its line with the properties that watch it.

## 2. Plan

The modules, in order of importance; all exist.

1. `SessionWorker`: the worker, its endpoints, its entry in the session store.
2. `MeetingStore`, with `TranscriptLedger` as the abstract specification it
   implements.
3. `ModelRegistry`: downloads, cancellation, removal, restarts.
4. `SegmentFeed`: the bounded broadcasts of the audio core and of the
   transcription service, their streams and reconnecting clients, as an
   implementation of the lossy ordered channel `LossyFeed`.
5. `SpeakerProfiles`: create, rename, label, merge, delete.
6. `AudioSession`: capture channels, the pairing thread, mixer, the channel to
   the relay, and the shell's start and stop.
7. `EngineHost`: loads and removals against batches, each access to an attribute a step.
8. `ChatIndex`: connections, ingests, deletes and questions over one SQLite index.
9. `DiarizeJobs`: the jobs, the answer of storage, and the overlap algorithm of
   `merge.py` against a reference definition.
10. `StorageRecords`: the handlers on single meetings, templates and profiles, their
    lists, and the matching of voices.

All ten are proved about. The proofs of a module are in the module `...Proofs`, but
those of `EngineHost` and `DiarizeJobs`, two parts of the transcription service, share
`TranscriptionProofs`, and those of `SegmentFeed` and `StorageRecords`, what reaches
storage by gRPC and by HTTP, share `StorageProofs`. A module extends both specifications
there, which is why `DiarizeJobs` and `StorageRecords` call theirs `JobsSpec` and
`RecordsSpec`, and so with `Init`, `Next` and `TypeOK`. What could follow: the storage
service's start-up, the frontend's asynchronous loads.

## 3. The modules

### SessionWorker

One session. Everything runs on one asyncio event loop, so an action is the code
between two suspension points. `publish` never suspends, hence the emission of a
whole batch is one step, and so is `_collect_batch` once its first `get` has an
item (its other gets are `get_nowait`).

| Variables | Code |
|---|---|
| `audio` | the VAD's segment counter, which every recording starts at 0 |
| `received`, `transcribed` | `segments_received`, `segments_transcribed` |
| `queue`, `batch`, `attempt` | `_queue`, `valid_batch`, the attempt of `stamina.retry` |
| `emitted` | what was given to `BroadcastChannel.publish`, in order |
| `ingest`, `batcher`, `runner` | the two tasks and the background task that gathers them |
| `stopEvent`, `stopPc` | `_stop_event`, the progress of each stop request |
| `stored`, `status`, `poll` | the entry in `_sessions`, its status, a poll in a thread |
| `atStop` | history: what had been received when the stop event was first set |

Actions: `IngestSegment`, `IngestFails`, `AudioRestart` (stream and ingest task);
`LoopExit`, `LoopWait`, `GetTimeout`, `CollectBatch`, `EngineRetry`,
`EngineGivesUp`, `ResultCountMismatch`, `EngineReturns`, `EngineCrash` (batch
task); `RunFails`, `RunCancelled` (`run` under `gather`); `StopSession`,
`StopCancelsIngest`, `StopFinishes`, `GetSessionReads`, `GetSessionDiscards`,
`Sweep` (endpoints and sweeper). Audio data, resampling and texts are abstracted
away; a segment is its arrival number, id, recording, and whether its rate is
valid. `CollectBatch` may take fewer segments than are there, because the code's
deadline may pass first. `run` never ends normally (the stream never ends), so
the status `completed` is unreachable and left out.

### MeetingStore and TranscriptLedger

The SQLite tables and the handlers that change which rows exist. A handler's
SELECTs run before its transaction begins (the driver opens one with the first
write), so each read is of the database as committed then, and the writes are
one step. A read is a step of its own where the write relies on it: the
subscriber's `meeting.engine`, and the rows a delete loads to remove by rowid.
Where the write checks again (primary key, foreign key, unique key) the read
could only end the handler earlier.

| Variables | Code |
|---|---|
| `meetings`, `count`, `engine` | table `meetings`: `id`, `segments_count`, `engine` |
| `rows` | table `segments`, by rowid; rowids of deleted rows come back |
| `summary`, `lastSummary` | table `summaries` |
| `sub` | the subscriber between its read and its commit |
| `del` | each DELETE request between its reads and its commit |
| `late`, `hit` | history: deletes that have lost a loaded row to another; meetings a late delete took a row from |

`TranscriptLedger` is what storage promises: a text per meeting and segment,
overwritten when it is delivered again, gone with its meeting in one step. Under
the mapping `transcript <- [m \in meetings |-> [s \in SegsOf(m) |-> TextOf(m, s)]]`
every step of `MeetingStore` is a step of the ledger or none, but for one: the commit
of a delete that another one has overtaken. The ORM deletes by rowid, and SQLite gives
the rowids of deleted rows away again (no `AUTOINCREMENT`), so such a late delete may
take a row of another meeting. `ImplementsLedger` says that all it can do beyond the
ledger is `Lose`, and `CountMatchesRows` that the counter is wrong only for a meeting it
took a row from. Refinement allows steps that do nothing, so a dropped update is not its
concern but the counter's.

### ModelRegistry

One engine's registry. `download` is an async generator; its body between two
suspension points, or between two acquisitions of `self._lock`, is one action.
Its worker is a thread that reads the cancel flag without the lock, and writes
one file at a time. `cancel_download` and `remove` run in threads of the HTTP
server.

| Variables | Code |
|---|---|
| `disk` | for each file of each model: absent, or there with a good or a bad hash |
| `status`, `inFlight`, `cancelled` | `_status`, `_in_flight`, `_cancelled` |
| `dl[d].pc`, `dl[d].model` | where the generator of request `d` is, and its `name` |
| `dl[d].worker`, `dl[d].file` | where its `_download_and_verify` is, and the file it is at |
| `dropped`, `damaged` | history: downloads cancelled or left; models whose `rmtree` failed |

Actions: `DownloadStarts`, `WorkerSubmitted`, `SetupFails`, `DownloadSucceeds`,
`DownloadStops`, `DownloadRaises`, `ClientLeaves`, `ConsumerResumes`,
`CleanupEnds`, `CleanupCancelled` (the generator); `WorkerStarts`, `WorkerFetches`,
`WorkerFetchesAgain`, `WorkerReturns`, `WorkerFails` (the worker);
`CancelDownload`, `Remove`, `RemoveFails` (endpoints); `Restart`. A fetch leaves a
good or a bad file; a checksum tells which. `Init` and `Restart` scan whatever is
on the disk. A worker ends in one of three ways, because the finally block tells them
apart: it returns, it raises, or it raises `TimeoutError` (the system's, or that of a
lock on a file), which `except TimeoutError: continue` takes for a timeout of its own
wait. Then the loop goes round (`Stuck`) until a cancellation finds the worker done.

### SpeakerProfiles

The tables of known speakers, with the same reading of transactions as
MeetingStore. Labelling a cluster and merging two profiles decide from rows read
before their transaction, so each is two or more steps; creating, renaming and
deleting are checked again by a key and are one step. One meeting stands for all.

| Variables | Code |
|---|---|
| `name` | table `speaker_profiles`: the ids with a name exist |
| `rows`, `cluster`, `owner` | segments: `speaker_cluster_label`, `speaker_profile_id` |
| `pending` | table `unmatched_cluster_embeddings` |
| `label`, `merge` | each request between its reads and its commit |
| `heir`, `tag` | history: what a profile became by merges; the profile a segment was given |

Actions: `CreateProfile`, `RenameProfile`, `DeleteProfile`; `LabelFinds`,
`LabelFindsNobody`, `LabelConflicts`, `LabelRereads`, `LabelCreates`, `LabelLinks`,
`LabelFails`; `MergeReads`, `MergeCommits`, `MergeFails`; `UploadSegments`,
`PutEmbedding`, `CreateMeeting`, `DeleteMeeting`. A profile id in an upload is any
that was ever given out, because a match may be old. Winner and loser are read in
one step: if either goes between the two reads, the commit has the same effect as
if it went after them.

### AudioSession

Recording on macOS, the only platform the shell supports. The threads are a
command, which holds the lock of `AppState.core` from its first line to its last,
two capture callbacks, the thread that owns the system stream (one per start; it
may outlive its start), the pairing thread and the relay. A command is cut where it
waits: for the first message of the system stream's thread, for its end, for the
end of the pairing thread. The pairing thread is cut at its stop check, at each
receive, and between the mixer and the two segmenters.

| Variables | Code |
|---|---|
| `state`, `starting`, `stopping` | `AudioCore.state`, how far each command is |
| `session`, `recording`, `file` | `AppState.session`, the latest start, the FLAC file of each |
| `mic`, `worker`, `stopSignal` | the microphone stream, `run_capture_thread` and its stop channel |
| `queue`, `captured`, `dropped` | the capture channels and `ChunkSender.dropped` |
| `thread`, `stopSent`, `pending`, `gone` | `pair_chunks` and its locals |
| `buffer`, `heard`, `counter` | the mixer's buffers, chunks processed, the segment counter |
| `serving`, `outbox`, `relayed` | the receiver of `segment_tx`, the channel, the relay's last segment |
| `pairs`, `lead`, `unwritten` | history: what was paired; microphone chunks older than the system stream; windows lost |

Actions: `StartRecording`, `SystemStarts`, `SystemFails`, `BuildFails`,
`AbortJoins`, `SessionStarts`; `StopRecording`, `StopSends`, `StopJoins`;
`WorkerRuns`, `WorkerFails`, `WorkerEnds`; `Capture`; `Boot`, `CheckStop`,
`Receive`, `NoPair`, `Mix`, `Segment`, `Panic`; `Relay`. A chunk is its number in
its stream, a buffer its length, a segment its recording and id; what a VAD says
and whether a write fails is open. The chunks are at the mixer's rate and at most a
window long (`ShortChunks`): a callback delivers 10 to 20 ms (`capture/mod.rs:31`)
and a window holds 50 ms (`main.rs:48`), but nothing in the code enforces it.
Without it a pair can add more than the one window it drains.

### SegmentFeed and LossyFeed

The two server streams between the services: segments from the audio core to a
session (`hop = "audio"`) and transcripts from the transcription service to storage
(`hop = "transcripts"`). The code has the same shape on both hops, and the model has
one set of actions with the three differences as operators: a full `asyncio.Queue`
refuses the new item while a lagging tokio receiver skips the oldest (`Queued`); the
session's client resets its backoff when it opens a channel, storage's when it
receives a response (`OpensWith`, `Receive`); only storage keeps a status and leaves
the stream when handling an item fails (`HandleFails`). A behaviour is one hop and
one client; other subscribers have queues of their own.

| Variables | Code |
|---|---|
| `offered` | what was given to `publish`, or sent by the relay; item n is the n-th |
| `call`, `queue` | the server's side of each `StreamTranscripts` or `stream_audio`, its queue |
| `link`, `calls` | where `run` or `stream_segments` is; the streams it has opened |
| `wire` | what gRPC carries in the client's latest stream |
| `backoff`, `connected` | `_backoff` or `backoff`, `_status["connected"]` |
| `since`, `full`, `got`, `had`, `waited` | history: where a stream began, what its full queue cost, what was received, how much of it earlier, the last wait |

Actions: `Publish`, `Subscribe`, `Send`, `Unsubscribe`, `Restart` (server); `Call`,
`Receive`, `Handled`, `Breaks`, `HandleFails`, `Awakes` (client). A server learns
late that its client has gone (`Unsubscribe`), and until then goes on filling the
old queue and sending into nothing. `LossyFeed` says what is promised: some of the
published items, in order, each at most once. That a restarted recording counts its
segment ids from zero again is `SessionWorker`'s matter; here an item is its place
in the order of publication.

### EngineHost

One engine: `whisper`, `mlx` (whisper on Apple silicon, which keeps a path instead of
a model and reads it with every audio) or `parakeet`. Load and remove are plain `def`
endpoints, so each runs in a thread of the pool; batches run in the worker's thread;
nothing locks. Hence each assignment of an attribute is an action. The order of
assignments is the code's and differs: whisper asks `_model` whether it is loaded and
clears it first, parakeet asks `_loaded` and clears that first (`ModelFirst`).

| Variables | Code |
|---|---|
| `model`, `path`, `loaded` | `_model`, `_mlx_model_path`, `_loaded` |
| `disk` | what the registry has of each model; `Download` and `DownloadEnds` move it |
| `admin` | each load or remove request between two steps |
| `batch` | `transcribe_batch`: looked at `_model`, results so far, returned or raised |
| `mixed`, `contested` | history: two requests have assigned in turns; models loaded and removed at once |

Actions: `LoadModel`, `Construct`, `ConstructFails`, `SetPath`, `SetLoaded`;
`RemoveModel`, `UnloadFirst`, `UnloadSecond`, `RemoveFiles`; `StartSession`, `Check`,
`TranscribeOne`, `Recognize`, `NextBatch`. What a library answers is open: for
parakeet also how many results, and for both with which times. Parakeet's adapter moves
them into the audio; whisper's takes them as they come, so `BatchContract` promises
nothing of them. The properties speak of any number of requests and name the two
overlaps that spoil them: assignments of two requests in turns (until one is alone with
its own again), and a load of the very model that is being removed.

### ChatIndex

The index of the chat service and the requests on it. A connection is cut where it
takes a snapshot or the lock, where it waits for a provider, and at its commit. SQLite
itself is external and modelled by what the code relies on: one writer, a snapshot
from the first read of a transaction, and `SQLITE_BUSY_SNAPSHOT` for a writer whose
snapshot is old (`Aged`, `MayWrite`).

| Variables | Code |
|---|---|
| `config`, `dimension` | `_config.dimension`; what `chat_meta` says |
| `rows`, `work`, `lock` | the segments as committed, as the writer has them, the writer |
| `req` | each request: step, meeting, segments, attempts, snapshot, citations |

Actions: `Arrive`, `Connect`, `Locked`, `Setup` (connecting, which writes the schema);
`Embed`, `Delete`, `Insert`, `Commit`, `DeleteLocked`, `Fail` (ingest and delete);
`MeetingExists`, `EmbedQuestion`, `Search`, `Ask` (questions); `Restart`, perhaps with
another dimension. Vectors are left out: `Nearest` is any set of at most `TopK` rows in
scope that is as large as the scope allows.

### DiarizeJobs

The diarization endpoints, on the one event loop: an action is the code between two
awaits. `FoldLeft` over the turns is the loop of `merge.py`; the engine's outcome and
storage's reply are members of small sets, whole or garbled.

| Variables | Code |
|---|---|
| `task`, `pool`, `found` | `_run` of a job, the pool of one thread, what the engine returned |
| `stored`, `status`, `result`, `age` | `_diarize_jobs`: the entries and their states |
| `reply` | history: what storage answered |

Actions: `StartDiarize`, `RunSubmits`, `EngineReturns`, `EngineRaises`, `MatchEnds`,
`GetDiarizeJob`, `Sweep`, `Tick`, `Restart`.

### StorageRecords

The handlers that MeetingStore and SpeakerProfiles leave out because they touch one
record: create, get, patch, delete and list meetings, templates and profiles, and both
matches. A request is cut between its SELECT and its first write, and between its
commit and its refresh. Two columns stand for all: what a property can tell apart is
which column a patch was sent. `Score` is a table in place of the cosine; `Null` in it
is a vector of another dimension. The scan of a match has no `ORDER BY`, so it may come
in any order (`Scans`). `RowOf` says which columns of a kind may be NULL.

| Variables | Code |
|---|---|
| `table`, `order` | the rows, by id; of each kind, the ids in the order of its list |
| `made` | the uuids given out |
| `req` | each request: step, what it read (its identity map), what it answers |

## 4. The runs

| Run | Expected | Shows |
|---|---|---|
| `session_worker` | pass | conservation, drain, order, quiet after stop, explained orphans, with two overlapping stops; stops return, segments do not wait for ever |
| `session_order` | violation | ids restart with a recording, so a batch over two recordings is published out of order |
| `store_deletes` | pass | the counter is the number of rows; the ledger; with two deletes, what a late one can do |
| `registry_downloads` | pass | available is verified, one writer per directory, reservations are given back, a cancellation is final, every download ends whose worker raises no `TimeoutError` |
| `speakers_merges` | pass | labels follow merges, a merged speaker is lost only with a winner that had gone, embeddings are kept |
| `speakers_two_merges` | violation | two merges with swapped roles delete both profiles |
| `audio_session` | pass | nothing stranded, streams paired in order, segments in order, commands return, no stray capture |
| `segment_feed` | pass | order and no repetition across reconnects and restarts, losses accounted for, a growing wait in storage |
| `engine_host` | pass | the named model is in memory, a session is never let in without one, removed models are out of use, with two requests at a time; batches keep their contract |
| `chat_index` | pass | meetings change whole, answers cite one ingest, nobody waits for a provider with the lock, requests end |
| `diarize_jobs` | pass | segments get their speaker, storage can only add names, outcomes are kept until read or swept, and not longer |
| `storage_records` | pass | no lost update, the best match, pages that miss only what was deleted |

Bounds. `session_*`: three segments in batches of at most two give a full batch,
a partial batch and a segment that arrives during an engine call; two attempts (the
code's three in `session_order`; the proofs hold for any number) give a retry that
succeeds and one that gives up; one restart gives equal ids in one batch; two stops
overlap. `store_*`: two deletes of the same or of different meetings, two rowids so
that one is given away again while the other row stays, two segments so that a delivery
can overlap another, two texts so that an overwrite is visible; one engine, for it is
either not set or set. `registry_*`: two files so
that a failure or a cancellation falls between them, two downloads so that one
follows, or collides with, another of the same model, and two models so that they
also run side by side. `speakers_*`: two merges, with the same or swapped roles or in a
chain, and two labels that may both create the same name; three ids so that a chain has
two links and one can be created after another is gone, two names so that a rename or a
conflict has a target; one segment in one cluster, which either belongs to the profile a
merge moves or not. `audio_*`: two
recordings so that a late thread, or a late segment, of the first meets the second;
two chunks of each stream in the first, with channels of one, so that chunks are
dropped and a pair follows a pair; chunks of half a window and of a whole one so
that the buffers differ. `segment_feed`: three streams so that an old
subscription, a current one and a next one overlap and the wait reaches its limit;
four items with queues of two and a connection that holds one, so that queues fill
while the connection is full. `engine_host`: two models so that one
replaces the other, two requests so that every two of them overlap, batches of two
audios so that a model can go between them, times before, in and after the audio.
`chat_index`: an ingest, a delete and a question, so that each falls between the steps
of the others; two segments, so that half a meeting is possible; three attempts, a first one, one
in between and a last one, for the code's ten (the proofs hold for any number); two dimensions, so that a restart may find the wrong one. `diarize_jobs`: two
jobs for a pool of one; turns that tie, only touch, overlap each other, or miss a
segment; replies with a key too few or twice. `storage_records`: every pair of requests
on up to two records, pages of one, three profiles so that one can be created after
another is gone, scores below, at and above the threshold. Symmetry is used only in
runs without liveness properties (`store_*`, `speakers_*`, `engine_host`).

Fairness. `SessionWorker` assumes weak fairness of the batch task, of `run` and
of each stop request after it began: asyncio runs every task that can run, and an
engine call ends or raises. The stream, failures, requests and the sweeper are
not fair. The number of segments is bounded in the model, which stands for a
stream that pauses: a stop drains the queue, and an endless stream faster than
the engine would keep it from ending. `MeetingStore` has no fairness.
`ModelRegistry` assumes it of each generator and each worker: the event loop and
the threads run, transfers have timeouts, and the only event of a download fits
into the buffers of its client, so the consumer resumes the generator. Nothing makes a
client go away, so nothing frees a generator that is `Stuck`.
`AudioSession` assumes it of a command under way, of the pairing thread (its
receives have timeouts) and of a system stream told to stop; nobody has to press a
button, speak, or let a system stream start.

`DiarizeJobs` assumes it of each job's coroutine, the sweeper and the clock: inference
ends or raises, the request to storage has a timeout; nobody has to poll. `ChatIndex`
assumes it of each request that has come: a provider answers, refuses or is given up.
(The clients of language models have timeouts; that a local embedding server answers at
all is an assumption.) Nobody has to ask anything, and nothing is fair to a restart.

`SegmentFeed`, `EngineHost` and `StorageRecords` state safety only.

Deadlock is not checked in the session runs, where a session that has been stopped
and removed has nothing left to do, nor in the audio and feed runs, whose recordings,
items and streams are bounded, nor in the four last runs, whose requests may all have
been answered.

## 5. Findings

Two runs show a disagreement between the code and what is written about it:

1. `session_order`: sorting a batch by `segment_id` assumes ids that grow over the
   session, but they grow only within a recording.
2. `speakers_two_merges`: a merge does not look again whether its winner exists; with
   no segment to move, no foreign key does either, and both profiles are deleted.

Other divergences the models know, each with the way to see it in TLC. The predicates
are defined in the modules, next to the sentence they take literally.

| Predicate, constants | What happens |
|---|---|
| `CompletedMatchesQueued` of `SessionWorker` | `stop` does not compare the two counts that `docs/transcription-service.md:82` wants compared; segments received after the loop ended stay unanswered |
| `\A m \in meetings : count[m] = Cardinality(RowsOf(m))`, without `hit` | the ORM deletes segments by rowid, SQLite reuses rowids (no `AUTOINCREMENT`), and two overlapping deletes of one meeting can take another meeting's row: `segments_count`, which `repos.py:98` has callers maintain, is then wrong. `CountMatchesRows` and `ImplementsLedger` hold with this exception and no other |
| `MixIsAligned` of `AudioSession` | streams are paired by arrival although the microphone runs before the system stream; `docs/architecture.md:9` promises alignment |
| `ClientsBackOff` of `SegmentFeed` | `AudioCoreClient` resets its backoff when it has opened a channel, which storage's docstring (`grpc_subscriber.py:75`) warns against; `StorageBacksOff` is about storage's own client |
| a client that receives every item, against `ImplementsFeed` | `grpc_subscriber.py:136` calls the stream "at-least-once", with redelivery on a reconnect. Neither server keeps or replays anything: a new stream starts with an empty queue (`grpc_server.py`, `subscribe`), so a reconnect loses what was under way and nothing comes twice. The stream is at most once, which is what `LossyFeed` says and the run shows; segments are stored again only by a batch or by a session that counts its ids anew |
| `VanishedIsNoMatch` of `StorageRecords` | `app.py:554` expects a vanished profile to be no match, but `session.get` answers from the identity map that the scan has just filled, so a single match returns it (the bulk match selects again, and does not). `MatchIsTheBest` therefore says of a single match only that its answer is the best of the scan |
| `CurrentIsLoaded`, `LoadedMeansModel` without `mixed` | two loads set `_model` and `_loaded` in turns, and the service names another model than the one that transcribes (`docs/transcription-service.md:65`: "currently loaded model"); a load between the two assignments of an unload leaves a name without a model. Nothing locks the engine, and the endpoints run in a thread pool |
| `RemovedIsNotLoaded` without `contested` | a load of a model between its unloading and the removal of its files leaves it in memory |
| `Active(d) ~> ~Active(d)` for every download `d` of `ModelRegistry` | a `TimeoutError` that the worker itself raises is taken for a timeout of the wait (`registry.py:172-178`): the finally block goes round without a pause, and the model can be neither removed nor downloaded again, until the client leaves. `DownloadEnds` holds with this exception |
| no batch task without an entry in the store (`~stored => batcher \in {"done", "failed"}`) | `run()` awaits the failed ingest task in its own `except` (`worker.py:65`), which raises again before the batch task is cancelled: its loop lives on after the session has failed. `OrphanOnlyAfterIngestFailure` bounds this, it does not forbid it: there is no other way to such a task |

Two more need no predicate. In `chat/db.py` a retry runs in the transaction of the first
attempt: once another connection has committed, its snapshot is old and every later
attempt fails alike, so the retries help only against a lock and not against the
concurrent set-up they are meant for; `RequestsAreAnswered` shows that the request ends
all the same. And a chat delete that falls into an ingest's call of the embedding
provider is answered first and undone by the ingest's commit.

## 6. What is proved

`SessionWorkerProofs` proves, for any bounds, rates and any set of stop requests,
`TypeOK`, `Conservation`, `StopDrains`, `TranscriptsInOrder`,
`OrphanOnlyAfterIngestFailure` and `QuietAfterStop`. The inductive invariant
`IInv` says: the queue is a suffix of the arrivals, in order; what has left it is
the prefix `1..Taken`, each member of which is in the batch or was published
once; the batch is finite and lies above everything published; segments of one
recording carry ids in arrival order; and the control state is consistent (the
loop is done only with the event set, an ingest task is cancelled only after the
loop ended or run failed, and so on). `Conservation` alone is not inductive: it
does not say that the queue holds the latest arrivals in order.

`MeetingStoreProofs` proves, for any set of concurrent deletes, `TypeOK`, `NoOrphans`,
`EngineIsOfFirstSegment`, `CountMatchesRows`, `RowsGoWithTheirMeeting` and the
refinement `ImplementsLedger`. The strengthening (`RowsInv`) is that the rows a delete
has loaded are still rows of its meeting unless it is in `late`
(`LoadedRowsAreIts`): only a late one can meet a rowid that was given away again.

`ModelRegistryProofs` proves, for any models, number of files and downloads,
`TypeOK`, `AvailableIsVerified`, `ReservationsAreHeld`, `OnlyTheWorkerWrites` and
`CancelIsFinal`. The inductive invariant adds what the generator and its worker
owe each other: a generator outside its start has a model of its own
(`OneDownloadPerModel`), the worker's place fits the generator's (`WorkerFits`),
every file before the worker's current one is good (`FetchedAreGood`), a worker
that returned without a cancellation has done all files (`ReturnedIsDone`), a
model being fetched is not available, and a dropped download that still waits has
its model's flag set (`DroppedIsCancelled`). The last one is what makes a flag
kept per name enough: while the download lives, nobody can start another one and
clear it. `CleanupEnds` and `CleanupCancelled` leave the loop in different ways and end
alike (`Ends`), so one lemma serves both.

`SpeakerProfilesProofs` proves, for any constants and any number of requests,
`TypeOK`, `NamesAreUnique`, `LabelsFollowMerges` and `EmbeddingIsNotLost`; the
invariant adds that a live profile is its own heir, that tags name profiles that
existed, and that a merge has read two different ids that existed. `MergesLoseNobody`,
which it proves too, follows from that: a merge whose winner is there hands
its loser's heirs to it, and one whose winner has gone is the exception that the property
names and `speakers_two_merges` shows.

`AudioSessionProofs` proves, for any number of recordings and chunks and any
capacities, `TypeOK`, `OwnedWhileRecording`, `StreamsInOrder`, `TailIsShort`,
`EveryPairIsHeard` and `SegmentsInOrder`. The invariant adds which phases of the
two commands go together and what is open in each (`Phases`, `FilesFit`), what each
segmenter still owes (`HeardFit`), that what waits for the relay is in order, newer
than what it took and older than the counter (`OutboxFit`), and, for each stream,
how the paired, pending and queued chunks lie (`LinesFit`): `StreamsInOrder` speaks
of their concatenation, which is awkward in a step, so the invariant states the
order piece by piece and the last theorem puts the pieces together. `TailIsShort`
needs `ShortChunks`.

`StorageProofs` proves of `SegmentFeed`, for any numbers of items and streams, any capacities and
any waits, `TypeOK`, `LossesAreLags`, `ConnectedIsTrue`, `StorageBacksOff` and the
refinement `ImplementsFeed`. The invariant lines up what the client got, what is on
the wire and what is queued for its latest stream (`InLine`), says that a stream not
yet subscribed, or closed, holds nothing (`Idle`), and starts the account of a stream
at its call (`Account`): until it is subscribed nothing is on the wire, so the first
item counted is the first published after that.

`TranscriptionProofs` proves of `EngineHost`, for any models and any number of requests,
`TypeOK`, `BatchContract`, `CurrentIsLoaded`, `LoadedMeansModel` and `RemovedIsNotLoaded`.
The invariant (`EngineInv`) says that, unless requests have mixed, only one is in the
midst of its assignments (`Alone`), and which attributes are already those of its model
at each place (`Between`, `Phases`); that an uncontested model is not loaded and removed at
once (`Contests`); and that a model which is gone, or unloaded and about to go, is in
nobody's hands (`Unused`), which is how `RemovedIsNotLoaded` survives the steps of other
requests between an unload and the removal.

`ChatIndexProofs` proves, for any requests, meetings, segments and numbers of attempts,
`TypeOK`, `NobodyWaitsLocked`, `CitationsAgree` and `MeetingsChangeWhole`. The invariant
adds that who writes holds the lock and nobody else (`Locks`), that the writer's view of
the table differs from the committed one by its own request only (`Works`), and that all
committed rows of a meeting come from one ingest (`Agree`).

`TranscriptionProofs` proves of `DiarizeJobs`, for any jobs, turns, speakers and answers
of storage, `JobsTypeOK`, `SegmentsGetTheirSpeaker`, `StorageOnlyNames` and
`OnlyOutcomesAreForgotten`. The invariant `JobInv` adds that the pool holds each
submitted job once (`PoolFits`), that a job is in the store until it has ended and is
terminal only then (`RunningIsStored`), and that an outcome is `Outcome` of what the
engine found and storage answered (`OutcomeFits`). The rest is about two loops. That
`assign_speakers` finds the turn with the largest overlap is an induction over the turns
(`FoldIsBest`, below); that `match_bulk` names a speaker only if the answer names each
one once follows from counting: the keys of the entries are distinct and are the labels
asked about, so entries and labels are as many (`Matched`).

`StorageProofs` proves of `StorageRecords`, for any records, databases, page size, scores,
threshold and any number of requests, `RecordsTypeOK`, `PagesMissOnlyByDeletes`,
`NoLostUpdate` and `MatchIsTheBest`. The invariant `RecordInv` adds that each list has the
rows of its kind once (`OrderFits`), that a patch clears nothing but the body of a
template (`FieldsFit`), that a hit is the best of the scan kept with it (`HitsFit`), and, for
a client that turns pages (`PagesFit`): as long as nothing has been deleted, a record of
the first moment is still there, and if it has not been seen it is further from the end
of the list than the pages read so far. A record inserted anywhere moves others only away
from the end, so this survives creates and updates; at an empty page it gives the property.

Both loops are folds of the community modules, which are defined by a recursive function
on sets of indices. The library's induction theorems take an operator as a parameter,
which none of the provers can instantiate, but a set will do: `Least` (from `WFMin` and
`NatLessThanWellFounded`) gives every nonempty set of numbers a least member, `Induction`
follows for a set instead of a predicate, and with it that the equation of the fold has a
solution (`FoldExists`, `MatchingExists`), which the CHOOSE behind it therefore satisfies,
and that each prefix is folded to its best (`FoldIsBest`, `MatchingIsNearest`).

Assumptions on constants are the named ASSUMEs of the modules, which TLC evaluates in the
runs. Type correctness of all ten modules, `NoOrphans`, `EngineIsOfFirstSegment`,
`RowsGoWithTheirMeeting`, `TailIsShort`, `EveryPairIsHeard`, `NamesAreUnique` and
`ConnectedIsTrue` are proved and have no run: the proofs cover every instance.

Every safety property of the passing runs is proved, with no hypothesis but the ASSUMEs
of the constants. Only model-checked: liveness
(`StopReturns`, `EverySegmentAnswered`, `DownloadEnds`, `CommandsReturn`,
`NoStrayCapture`, `JobsAreForgotten`, `RequestsAreAnswered`), which the prover cannot
reason about, and the violations.

## 7. What is not modelled

Reads that change nothing and decide nothing, timestamps, authorisation, logging, the
contents of audio and text, prompts and vectors, the syntax checks on a manifest (the
registry starts from a valid one), and the disk-space check, which only keeps a download
from starting. `database is locked` after the busy timeout aborts a storage handler
without effect and would be a stuttering step.

* **Storage start-up.** Migrations and the two tasks that end together are decided by
  alembic, asyncio and uvicorn, which are not part of the repository.
* **Orchestration, export, calendar, shared packages.** They keep no state whose
  interleavings matter.
* **Frontend.** A client with copies of what the services answer; only its turning of
  pages is modelled, as the client of `StorageRecords`.
* **Audio core.** Resampling, ducking, the VAD, the inside of the FLAC writer, what
  dropping a session at exit does, a lock poisoned by a panic inside a command, and
  callbacks that stop by themselves.
* **Speaker embeddings.** `SpeakerProfiles` keeps whether a cluster has an embedding, not
  which one: that a label request founds a profile on an embedding that was replaced
  after it was read is listed as a hazard without a property.
