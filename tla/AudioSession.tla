---------------------------- MODULE AudioSession ----------------------------
(***************************************************************************)
(* Recording in the desktop shell: the commands start_recording and        *)
(* stop_recording (main.rs), Session (session.rs), the capture channels    *)
(* (capture/), the pairing thread with mixer, writer and segmenters        *)
(* (lib.rs), and the channel towards the gRPC relay.                       *)
(*                                                                         *)
(* Threads: a command, which holds the lock of AppState.core from its      *)
(* first to its last line; the two capture callbacks; the thread that      *)
(* owns the system stream (macos.rs), one per start; the pairing thread;   *)
(* the relay.  A chunk is its number in its stream, a buffer its length.   *)
(***************************************************************************)
EXTENDS Integers, Sequences

CONSTANTS
  MaxRecordings,            \* bound: starts that get as far as the system stream
  MaxChunks,                \* bound: chunks of a stream in each recording
  CAPTURE_QUEUE_CAPACITY,   \* of each capture channel
  SEGMENT_CAPACITY,         \* of the channel to the relay
  WindowSize,               \* samples of a mixer window
  ChunkSizes                \* samples of a chunk at the mixer's rate

ASSUME AudioAssumption ==
  /\ MaxRecordings \in Nat
  /\ MaxChunks \in [1..MaxRecordings -> Nat]
  /\ CAPTURE_QUEUE_CAPACITY \in Nat \ {0}
  /\ SEGMENT_CAPACITY \in Nat \ {0}
  /\ WindowSize \in Nat \ {0}

\* A callback delivers 10 to 20 ms of audio, a window holds 50 ms.
ASSUME ShortChunks == ChunkSizes \subseteq 1..WindowSize

VARIABLES
  state,      \* AudioCore.state
  starting,   \* how far start_recording is
  stopping,   \* how far stop_recording is
  session,    \* AppState.session and recording_id: a recording, or 0
  recording,  \* the latest recording somebody started
  file,       \* the FLAC file of each recording
  mic,        \* the microphone stream is open
  worker,     \* run_capture_thread of each recording
  stopSignal, \* the sender of its stop channel is gone
  captured,   \* chunks a stream has delivered to the current channels
  dropped,    \* ChunkSender.dropped
  queue,      \* the capture channels
  lead,       \* history: microphone chunks older than the system stream
  thread,     \* the pairing thread
  stopSent,   \* stop_tx was used
  pending,    \* pending_mic and pending_system: a chunk, or 0
  gone,       \* mic_disconnected and system_disconnected
  pairs,      \* history: what on_pair was called with
  buffer,     \* mic_buffer and system_buffer
  unwritten,  \* history: mixed windows that could not be written
  heard,      \* history: chunks each segmenter has processed
  counter,    \* the segment counter both segmenters share
  serving,    \* the relay holds the receiver of segment_tx
  outbox,     \* the channel to the relay
  relayed     \* the last segment the relay took

app == <<state, starting, stopping, session, recording, file>>
capture == <<mic, worker, stopSignal>>
channels == <<captured, dropped, queue, lead>>
loop == <<thread, stopSent, pending, gone, pairs>>
output == <<buffer, unwritten, heard, counter>>
relay == <<serving, outbox, relayed>>
vars == <<app, capture, channels, loop, output, relay>>

-----------------------------------------------------------------------------

Streams == {"mic", "system"}
Recordings == 0..MaxRecordings
Segments == [rec : Recordings, id : Nat]

Both(x) == [s \in Streams |-> x]

\* Where the pairing thread is when it still owns its receivers: before its
\* loop, at the stop check, at its two receives, with what they returned,
\* and before it gives the chunks of a pair to the segmenters.
Looping == {"boot", "check", "mic", "system", "pair", "mic_vad", "system_vad"}

TypeOK ==
  /\ state \in {"Idle", "Recording", "Stopping"}
  /\ starting \in {"no", "system", "build", "abort"}
  /\ stopping \in {"no", "system", "join"}
  /\ session \in Recordings
  /\ recording \in Recordings
  /\ file \in [Recordings -> {"none", "open", "closed", "partial"}]
  /\ mic \in BOOLEAN
  /\ worker \in [Recordings -> {"none", "starting", "running", "done"}]
  /\ stopSignal \in [Recordings -> BOOLEAN]
  /\ captured \in [Streams -> Nat]
  /\ dropped \in [Streams -> Nat]
  /\ queue \in [Streams -> Seq(Nat)]
  /\ lead \in Nat
  /\ thread \in Looping \cup {"none", "ended", "panicked"}
  /\ stopSent \in BOOLEAN
  /\ pending \in [Streams -> Nat]
  /\ gone \in [Streams -> BOOLEAN]
  /\ pairs \in Seq([Streams -> Nat])
  /\ buffer \in [Streams -> Nat]
  /\ unwritten \in Nat
  /\ heard \in [Streams -> Nat]
  /\ counter \in Nat
  /\ serving \in BOOLEAN
  /\ outbox \in Seq(Segments)
  /\ relayed \in Segments

\* main: the relay runs unless its address could not be bound.
Init ==
  /\ state = "Idle" /\ starting = "no" /\ stopping = "no"
  /\ session = 0 /\ recording = 0
  /\ file = [r \in Recordings |-> "none"]
  /\ mic = FALSE
  /\ worker = [r \in Recordings |-> "none"]
  /\ stopSignal = [r \in Recordings |-> FALSE]
  /\ captured = Both(0) /\ dropped = Both(0) /\ queue = Both(<<>>) /\ lead = 0
  /\ thread = "none" /\ stopSent = FALSE
  /\ pending = Both(0) /\ gone = Both(FALSE) /\ pairs = <<>>
  /\ buffer = Both(0) /\ unwritten = 0 /\ heard = Both(0) /\ counter = 0
  /\ serving \in BOOLEAN
  /\ outbox = <<>>
  /\ relayed = [rec |-> 0, id |-> 0]

-----------------------------------------------------------------------------
(* The commands.                                                           *)

\* A command runs from begin to end with the lock of core.
LockFree == starting = "no" /\ stopping = "no"

\* Mutant: the lock is held only through begin_start.
Acquires_ReleasedAfterBegin == stopping = "no"

Acquires == LockFree

\* start_recording, and Session::start with both channels new, the
\* microphone open and the thread of the system stream spawned.  A start
\* that fails before that changes nothing.
StartRecording ==
  /\ Acquires
  /\ state = "Idle"
  /\ recording < MaxRecordings
  /\ state' = "Recording"
  /\ starting' = "system"
  /\ recording' = recording + 1
  /\ mic' = TRUE
  /\ worker' = [worker EXCEPT ![recording + 1] = "starting"]
  /\ captured' = Both(0) /\ dropped' = Both(0) /\ queue' = Both(<<>>)
  /\ lead' = 0
  /\ thread' = "none" /\ stopSent' = FALSE
  /\ pending' = Both(0) /\ gone' = Both(FALSE) /\ pairs' = <<>>
  /\ buffer' = Both(0) /\ unwritten' = 0 /\ heard' = Both(0) /\ counter' = 0
  /\ UNCHANGED <<stopping, session, file, stopSignal, relay>>

\* The Err arm of start_recording.
StartFails ==
  /\ state' = "Idle"
  /\ starting' = "no"

\* The first message of the system stream's thread says that it runs.
SystemStarts ==
  /\ starting = "system"
  /\ worker[recording] = "running"
  /\ starting' = "build"
  /\ UNCHANGED <<state, stopping, session, recording, file, capture, channels,
                 loop, output, relay>>

\* Mutant: the stop sender of a late thread is kept.
SystemFails_SenderKept ==
  /\ starting = "system"
  /\ worker[recording] \in {"starting", "done"}
  /\ mic' = FALSE
  /\ StartFails
  /\ UNCHANGED <<stopping, session, recording, file, worker, stopSignal,
                 channels, loop, output, relay>>

\* The thread reports an error, or says nothing for START_TIMEOUT, and is
\* left alone without its stop sender.  Both captures are dropped.
SystemFails ==
  /\ starting = "system"
  /\ worker[recording] \in {"starting", "done"}
  /\ mic' = FALSE
  /\ stopSignal' = [stopSignal EXCEPT ![recording] = TRUE]
  /\ StartFails
  /\ UNCHANGED <<stopping, session, recording, file, worker, channels, loop,
                 output, relay>>

\* No VAD model, or no writer, which may leave an empty file: both captures
\* are told to stop.
BuildFails(left) ==
  /\ starting = "build"
  /\ file' = [file EXCEPT ![recording] = left]
  /\ mic' = FALSE
  /\ stopSignal' = [stopSignal EXCEPT ![recording] = TRUE]
  /\ starting' = "abort"
  /\ UNCHANGED <<state, stopping, session, recording, worker, channels, loop,
                 output, relay>>

\* ScreenCaptureKitSystemCapture::stop waits for its thread.
AbortJoins ==
  /\ starting = "abort"
  /\ worker[recording] = "done"
  /\ StartFails
  /\ UNCHANGED <<stopping, session, recording, file, capture, channels, loop,
                 output, relay>>

\* The pairing thread is spawned and the session stored.
SessionStarts ==
  /\ starting = "build"
  /\ file' = [file EXCEPT ![recording] = "open"]
  /\ thread' = "boot"
  /\ session' = recording
  /\ starting' = "no"
  /\ UNCHANGED <<state, stopping, recording, capture, channels, stopSent,
                 pending, gone, pairs, output, relay>>

\* stop_recording: the session is taken out and its captures are told to
\* stop.  Without a session there is nothing to wait for.
StopRecording ==
  /\ Acquires
  /\ state = "Recording"
  /\ IF session = 0
       THEN state' = "Idle" /\ UNCHANGED <<stopping, session, mic, stopSignal>>
       ELSE /\ state' = "Stopping"
            /\ stopping' = "system"
            /\ session' = 0
            /\ mic' = FALSE
            /\ stopSignal' = [stopSignal EXCEPT ![session] = TRUE]
  /\ UNCHANGED <<starting, recording, file, worker, channels, loop, output,
                 relay>>

\* Mutant: the pairing thread is not told.
StopSends_NotSent ==
  /\ stopping = "system"
  /\ worker[recording] = "done"
  /\ stopping' = "join"
  /\ UNCHANGED <<state, starting, session, recording, file, capture, channels,
                 loop, output, relay>>

\* The thread of the system stream has ended; the pairing thread is told.
StopSends ==
  /\ stopping = "system"
  /\ worker[recording] = "done"
  /\ stopSent' = TRUE
  /\ stopping' = "join"
  /\ UNCHANGED <<state, starting, session, recording, file, capture, channels,
                 thread, pending, gone, pairs, output, relay>>

\* The pairing thread has ended; its writer is finalized, which may fail,
\* unless a panic has dropped it.
StopJoins ==
  /\ stopping = "join"
  /\ thread \in {"ended", "panicked"}
  /\ IF thread = "ended"
       THEN \E left \in {"closed", "partial"} :
              file' = [file EXCEPT ![recording] = left]
       ELSE UNCHANGED file
  /\ thread' = "none"
  /\ state' = "Idle"
  /\ stopping' = "no"
  /\ UNCHANGED <<starting, session, recording, capture, channels, stopSent,
                 pending, gone, pairs, output, relay>>

Command ==
  \/ SystemStarts
  \/ SystemFails
  \/ \E left \in {"none", "partial"} : BuildFails(left)
  \/ AbortJoins
  \/ SessionStarts
  \/ StopSends
  \/ StopJoins

-----------------------------------------------------------------------------
(* Capture.                                                                *)

\* build_and_start succeeds, late or not.
WorkerRuns(r) ==
  /\ worker[r] = "starting"
  /\ worker' = [worker EXCEPT ![r] = "running"]
  /\ lead' = IF r = recording THEN captured["mic"] ELSE lead
  /\ UNCHANGED <<app, mic, stopSignal, captured, dropped, queue, loop, output,
                 relay>>

WorkerFails(r) ==
  /\ worker[r] = "starting"
  /\ worker' = [worker EXCEPT ![r] = "done"]
  /\ UNCHANGED <<app, mic, stopSignal, channels, loop, output, relay>>

\* stop.recv returns when the sender is gone: the stream is torn down.
WorkerEnds(r) ==
  /\ worker[r] = "running"
  /\ stopSignal[r]
  /\ worker' = [worker EXCEPT ![r] = "done"]
  /\ UNCHANGED <<app, mic, stopSignal, channels, loop, output, relay>>

\* The sender of a channel lives as long as its callback.
Connected(s) ==
  IF s = "mic" THEN mic ELSE worker[recording] \in {"starting", "running"}

Delivering(s) == IF s = "mic" THEN mic ELSE worker[recording] = "running"

\* The receivers live in Session::start, then in the pairing thread.
Receiving == starting \in {"system", "build"} \/ thread \in Looping

\* ChunkSender.send from the callback of stream s.
Capture(s) ==
  /\ Receiving
  /\ Delivering(s)
  /\ captured[s] < MaxChunks[recording]
  /\ captured' = [captured EXCEPT ![s] = @ + 1]
  /\ IF Len(queue[s]) < CAPTURE_QUEUE_CAPACITY
       THEN /\ queue' = [queue EXCEPT ![s] = Append(@, captured[s] + 1)]
            /\ UNCHANGED dropped
       ELSE /\ dropped' = [dropped EXCEPT ![s] = @ + 1]
            /\ UNCHANGED queue
  /\ UNCHANGED <<lead, app, capture, loop, output, relay>>

-----------------------------------------------------------------------------
(* The pairing thread.                                                     *)

Boot ==
  /\ thread = "boot"
  /\ thread' = "check"
  /\ UNCHANGED <<app, capture, channels, stopSent, pending, gone, pairs, output,
                 relay>>

\* The thread returns: its receivers go, and what they still hold.
Leaves(how) ==
  /\ thread' = how
  /\ queue' = Both(<<>>)
  /\ pending' = Both(0)
  /\ UNCHANGED <<captured, dropped, lead, stopSent, gone, pairs>>

\* The top of pair_chunks' loop.
CheckStop ==
  /\ thread = "check"
  /\ IF stopSent
       THEN Leaves("ended")
       ELSE /\ thread' = "mic"
            /\ gone' = Both(FALSE)
            /\ UNCHANGED <<channels, stopSent, pending, pairs>>
  /\ UNCHANGED <<app, capture, output, relay>>

After(s) == IF s = "mic" THEN "system" ELSE "pair"

\* Mutant: a pending chunk is overwritten.
Wanted_Always(s) == TRUE

\* A stream with a pending chunk is not received from.
Wanted(s) == pending[s] = 0

\* recv_timeout on stream s, if it is wanted: a chunk; nothing for 50 ms; or
\* nothing left and nobody to send.
Receive(s) ==
  /\ thread = s
  /\ thread' = After(s)
  /\ IF Wanted(s) /\ queue[s] # <<>>
       THEN /\ pending' = [pending EXCEPT ![s] = Head(queue[s])]
            /\ queue' = [queue EXCEPT ![s] = Tail(@)]
            /\ UNCHANGED gone
       ELSE /\ gone' = [gone EXCEPT ![s] = Wanted(s) /\ ~Connected(s)]
            /\ UNCHANGED <<pending, queue>>
  /\ UNCHANGED <<captured, dropped, lead, stopSent, pairs, app, capture, output,
                 relay>>

\* Nothing to pair: the thread gives up if both senders have gone.
NoPair ==
  /\ thread = "pair"
  /\ \E s \in Streams : pending[s] = 0
  /\ IF \A s \in Streams : gone[s]
       THEN Leaves("ended")
       ELSE /\ thread' = "check"
            /\ UNCHANGED <<channels, stopSent, pending, gone, pairs>>
  /\ UNCHANGED <<app, capture, output, relay>>

\* drain_window takes a window off both buffers if both hold one.
HasWindow(b) == \A s \in Streams : b[s] >= WindowSize

Drained(b) ==
  IF HasWindow(b) THEN [s \in Streams |-> b[s] - WindowSize] ELSE b

\* run_pipeline_once goes on to the segmenters whether or not the window
\* could be written.
AfterWrite(failed) == "mic_vad"

\* on_pair: both chunks are pushed, one window is drained and written.
Mix ==
  /\ thread = "pair"
  /\ \A s \in Streams : pending[s] # 0
  /\ pairs' = Append(pairs, pending)
  /\ pending' = Both(0)
  /\ \E size \in [Streams -> ChunkSizes] :
       LET pushed == [s \in Streams |-> buffer[s] + size[s]]
       IN  /\ buffer' = Drained(pushed)
           /\ \E failed \in IF HasWindow(pushed) THEN {0, 1} ELSE {0} :
                /\ unwritten' = unwritten + failed
                /\ thread' = AfterWrite(failed)
  /\ UNCHANGED <<app, capture, channels, stopSent, gone, heard, counter, relay>>

\* try_send: a segment is lost if the channel is full or closed.
Offered(segment) ==
  IF serving /\ Len(outbox) < SEGMENT_CAPACITY
    THEN Append(outbox, segment)
    ELSE outbox

\* Mutant: each segmenter counts for itself.
SegmentId_OwnCounter(s) == heard[s]

\* fetch_add on the counter that both segmenters hold.
SegmentId(s) == counter

\* SpeechSegmenter.process of stream s, and the try_send of its segment.
Segment(s, speech) ==
  /\ thread = (IF s = "mic" THEN "mic_vad" ELSE "system_vad")
  /\ thread' = (IF s = "mic" THEN "system_vad" ELSE "check")
  /\ heard' = [heard EXCEPT ![s] = @ + 1]
  /\ IF speech
       THEN /\ counter' = counter + 1
            /\ outbox' = Offered([rec |-> recording, id |-> SegmentId(s)])
       ELSE UNCHANGED <<counter, outbox>>
  /\ UNCHANGED <<app, capture, channels, stopSent, pending, gone, pairs, buffer,
                 unwritten, serving, relayed>>

\* A panic in the thread, without a runtime or inside on_pair, which drops
\* the writer.
Panic ==
  /\ thread \in {"boot", "mic_vad", "system_vad"}
  /\ Leaves("panicked")
  /\ file' = [file EXCEPT ![recording] = "partial"]
  /\ UNCHANGED <<state, starting, stopping, session, recording, capture, output,
                 relay>>

Pairing ==
  \/ Boot \/ CheckStop \/ NoPair \/ Mix
  \/ \E s \in Streams : Receive(s)
  \/ \E s \in Streams, speech \in BOOLEAN : Segment(s, speech)

\* The relay of AudioGrpcService takes a segment.
Relay ==
  /\ outbox # <<>>
  /\ relayed' = Head(outbox)
  /\ outbox' = Tail(outbox)
  /\ UNCHANGED <<app, capture, channels, loop, output, serving>>

-----------------------------------------------------------------------------

Next ==
  \/ StartRecording \/ StopRecording \/ Command
  \/ \E r \in Recordings : WorkerRuns(r) \/ WorkerFails(r) \/ WorkerEnds(r)
  \/ \E s \in Streams : Capture(s)
  \/ Pairing \/ Panic
  \/ Relay

Spec == Init /\ [][Next]_vars

\* The threads that have something to do go on; nobody has to press a button
\* or speak, and the system stream may take for ever to start.
FairSpec ==
  /\ Spec
  /\ WF_vars(Command)
  /\ WF_vars(Pairing)
  /\ \A r \in Recordings : WF_vars(WorkerEnds(r))
-----------------------------------------------------------------------------
(* Properties.                                                             *)

\* main.rs:33-36: start_recording holds the lock of core throughout, because
\* a stop in between "can strand a live Session".  Between two commands
\* the application either records and owns the session, or it is idle: no
\* microphone is open, no pairing thread runs and no file is open.
OwnedWhileRecording ==
  LockFree =>
    /\ state = "Recording" /\ session = recording
    \/ /\ state = "Idle" /\ session = 0
       /\ ~mic
       /\ thread = "none"
       /\ \A r \in Recordings : file[r] # "open"

Increasing(line) == \A i, j \in DOMAIN line : i < j => line[i] < line[j]

\* The chunks of stream s that were not dropped, from the first one paired to
\* the last one sent.
Line(s) ==
  [k \in DOMAIN pairs |-> pairs[k][s]]
    \o (IF pending[s] = 0 THEN <<>> ELSE <<pending[s]>>)
    \o queue[s]

\* session.rs:4 pair_chunks: whatever the two receives time out on, no chunk
\* is lost after it got into its channel, none is paired twice, and each
\* stream is paired in the order of its capture.
StreamsInOrder ==
  thread \in Looping =>
    \A s \in Streams : /\ Increasing(Line(s))
                      /\ Len(Line(s)) + dropped[s] = captured[s]

\* mixer/mod.rs:67 drain_window, called once per pair: the recording stays
\* less than a window behind the shorter of the two streams, hence this is
\* all that is missing of their pairs when it ends.
TailIsShort == \E s \in Streams : buffer[s] < WindowSize

\* Segment x was made before segment y.
Earlier(x, y) == x.rec < y.rec \/ (x.rec = y.rec /\ x.id < y.id)

\* vad/mod.rs:42 and docs/transcription-service.md:12, segment_id is
\* "monotonic": the relay gets the segments of both streams in the order of
\* their ids, and all of a recording before any of the next one.
SegmentsInOrder ==
  LET line == <<relayed>> \o outbox
  IN  /\ \A i, j \in DOMAIN line : i < j => Earlier(line[i], line[j])
      /\ \A i \in DOMAIN line : line[i].rec = recording => line[i].id < counter
                               \/ recording = 0

\* lib.rs:121: a failing disk does not keep a chunk from the segmenters, and
\* neither does a full channel.
EveryPairIsHeard == thread = "check" => heard = Both(Len(pairs))

\* session.rs:180, main.rs:85: a command comes back, although the pairing
\* thread may hold a chunk of one stream while the other one is gone.
CommandsReturn == ~LockFree ~> LockFree

\* macos.rs:302-305: the thread of a system stream that starts only after its
\* command gave up ends too.
NoStrayCapture ==
  \A r \in 1..MaxRecordings :
    worker[r] = "running" /\ (r < recording \/ state = "Idle")
      ~> worker[r] = "done"

\* docs/architecture.md:9 promises "windowed alignment of two independently
\* clocked streams": audio of the microphone from before the system stream ran
\* is not mixed with the audio of that stream.
MixIsAligned == \A k \in DOMAIN pairs : pairs[k]["mic"] > lead
=============================================================================
