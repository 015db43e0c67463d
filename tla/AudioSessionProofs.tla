------------------------- MODULE AudioSessionProofs -------------------------
(***************************************************************************)
(* The safety properties of AudioSession, for any number of recordings and *)
(* chunks, any capacities and any chunk sizes up to a window.              *)
(***************************************************************************)
EXTENDS AudioSession, SequenceTheorems, TLAPS

USE DEF app, capture, channels, loop, output, relay, Recordings

-----------------------------------------------------------------------------
(* The inductive invariant.                                                *)

AppType ==
  /\ state \in {"Idle", "Recording", "Stopping"}
  /\ starting \in {"no", "system", "build", "abort"}
  /\ stopping \in {"no", "system", "join"}
  /\ session \in Recordings
  /\ recording \in Recordings
  /\ file \in [Recordings -> {"none", "open", "closed", "partial"}]

CaptureType ==
  /\ mic \in BOOLEAN
  /\ worker \in [Recordings -> {"none", "starting", "running", "done"}]
  /\ stopSignal \in [Recordings -> BOOLEAN]

CountsType ==
  /\ captured \in [Streams -> Nat]
  /\ dropped \in [Streams -> Nat]
  /\ lead \in Nat

QueueType == queue \in [Streams -> Seq(Nat)]

LoopType ==
  /\ thread \in Looping \cup {"none", "ended", "panicked"}
  /\ stopSent \in BOOLEAN
  /\ pending \in [Streams -> Nat]
  /\ gone \in [Streams -> BOOLEAN]

PairsType == pairs \in Seq([Streams -> Nat])

OutputType ==
  /\ buffer \in [Streams -> Nat]
  /\ unwritten \in Nat
  /\ heard \in [Streams -> Nat]
  /\ counter \in Nat

RelayType ==
  /\ serving \in BOOLEAN
  /\ outbox \in Seq(Segments)
  /\ relayed \in Segments

\* Of the two commands at most one is under way, and while the application
\* does not record, nothing is open.
Phases ==
  /\ starting = "no" \/ stopping = "no"
  /\ starting # "no" => state = "Recording" /\ session = 0 /\ thread = "none"
  /\ stopping # "no" => state = "Stopping" /\ session = 0 /\ ~mic
  /\ starting = "abort" => ~mic
  /\ state = "Stopping" => stopping # "no"
  /\ state # "Idle" => recording # 0
  /\ LockFree =>
       \/ state = "Recording" /\ session = recording
       \/ state = "Idle" /\ session = 0 /\ ~mic /\ thread = "none"

\* Only the pairing thread has a file open.
FilesFit ==
  \A r \in Recordings :
    file[r] = "open" => r = recording /\ thread \in Looping \cup {"ended"}

\* How many of the pairs each segmenter still has to process.
Unheard(s) ==
  IF thread = "mic_vad" \/ (s = "system" /\ thread = "system_vad") THEN 1 ELSE 0

HeardFit ==
  /\ starting # "no" => pairs = <<>> /\ \A s \in Streams : heard[s] = 0
  /\ thread \in Looping =>
       \A s \in Streams : heard[s] + Unheard(s) = Len(pairs)

\* What is on its way to the relay is in order, and older than the counter.
OutboxFit ==
  /\ \A i, j \in DOMAIN outbox : i < j => Earlier(outbox[i], outbox[j])
  /\ \A i \in DOMAIN outbox : Earlier(relayed, outbox[i])
  /\ \A i \in DOMAIN outbox : outbox[i].rec # 0 /\ outbox[i].rec <= recording
                            /\ (outbox[i].rec = recording => outbox[i].id < counter)
  /\ relayed.rec <= recording
  /\ relayed.rec = recording /\ recording # 0 => relayed.id < counter

\* Of stream s: which chunks are queued, pending and were paired, each one later
\* than those before it, and how many.
QueueFits(s) ==
  /\ \A i \in DOMAIN queue[s] : queue[s][i] # 0 /\ queue[s][i] <= captured[s]
  /\ \A i, j \in DOMAIN queue[s] : i < j => queue[s][i] < queue[s][j]

PendingFits(s) ==
  /\ pending[s] <= captured[s]
  /\ pending[s] # 0 => \A i \in DOMAIN queue[s] : pending[s] < queue[s][i]

PairsFit(s) ==
  /\ \A k \in DOMAIN pairs : pairs[k][s] <= captured[s]
  /\ \A j, k \in DOMAIN pairs : j < k => pairs[j][s] < pairs[k][s]
  /\ \A k \in DOMAIN pairs, i \in DOMAIN queue[s] : pairs[k][s] < queue[s][i]
  /\ pending[s] # 0 => \A k \in DOMAIN pairs : pairs[k][s] < pending[s]

CountFits(s) ==
  /\ pending[s] = 0 => Len(pairs) + Len(queue[s]) + dropped[s] = captured[s]
  /\ pending[s] # 0 => Len(pairs) + Len(queue[s]) + dropped[s] + 1 = captured[s]

LineFits(s) ==
  Receiving => QueueFits(s) /\ PendingFits(s) /\ PairsFit(s) /\ CountFits(s)

LinesFit ==
  /\ thread \notin Looping => \A s \in Streams : pending[s] = 0
  /\ \A s \in Streams : LineFits(s)

IInv ==
  /\ AppType
  /\ CaptureType
  /\ CountsType
  /\ QueueType
  /\ LoopType
  /\ PairsType
  /\ OutputType
  /\ RelayType
  /\ Phases
  /\ FilesFit
  /\ TailIsShort
  /\ HeardFit
  /\ OutboxFit
  /\ LinesFit

-----------------------------------------------------------------------------
LEMMA EmptyQueues == Both(<<>>) \in [Streams -> Seq(Nat)]
<1>1. <<>> \in Seq(Nat)
  BY EmptySeq
<1> QED
  BY <1>1 DEF Both

\* Sums of three terms, as the counts of a stream use them.
LEMMA OneMore ==
  \A a, b, c \in Nat : a + 1 + b + c = a + b + c + 1 /\ a + 1 + b = a + b + 1
OBVIOUS

\* The types of what belongs to stream s, and the domains of its sequences.
StreamTyped(s) ==
  /\ captured[s] \in Nat /\ dropped[s] \in Nat /\ pending[s] \in Nat
  /\ queue[s] \in Seq(Nat) /\ Len(queue[s]) \in Nat
  /\ DOMAIN queue[s] = 1..Len(queue[s])
  /\ \A i \in DOMAIN queue[s] : queue[s][i] \in Nat
  /\ pairs \in Seq([Streams -> Nat]) /\ Len(pairs) \in Nat
  /\ DOMAIN pairs = 1..Len(pairs)
  /\ \A k \in DOMAIN pairs : pairs[k][s] \in Nat

LEMMA StreamFacts ==
  ASSUME IInv, NEW s \in Streams
  PROVE  StreamTyped(s)
<1>1. queue[s] \in Seq(Nat) /\ pairs \in Seq([Streams -> Nat])
  BY DEF IInv, QueueType, PairsType
<1>2. /\ Len(queue[s]) \in Nat /\ DOMAIN queue[s] = 1..Len(queue[s])
      /\ Len(pairs) \in Nat /\ DOMAIN pairs = 1..Len(pairs)
  BY <1>1, LenProperties
<1>3. \A i \in DOMAIN queue[s] : queue[s][i] \in Nat
  BY <1>1, <1>2, ElementOfSeq
<1>4. \A k \in DOMAIN pairs : pairs[k] \in [Streams -> Nat]
  BY <1>1, <1>2, ElementOfSeq
<1> QED
  BY <1>1, <1>2, <1>3, <1>4 DEF IInv, CountsType, LoopType, StreamTyped

LEMMA AppTypeStep ==
  ASSUME IInv, [Next]_vars
  PROVE  AppType'
<1>1. CASE StartRecording
  BY <1>1, AudioAssumption DEF IInv, AppType, Phases, LockFree, Looping,
     StartRecording, Acquires, Both
<1>2. CASE StopRecording
  BY <1>2, AudioAssumption DEF IInv, AppType, Phases, LockFree, Looping,
     StopRecording, Acquires
<1>3. CASE SystemStarts
  BY <1>3, AudioAssumption DEF IInv, AppType, Phases, LockFree, Looping,
     SystemStarts
<1>4. CASE SystemFails
  BY <1>4, AudioAssumption DEF IInv, AppType, Phases, LockFree, Looping,
     SystemFails, StartFails
<1>5. ASSUME NEW left \in {"none", "partial"}, BuildFails(left) PROVE
       AppType'
  BY <1>5, AudioAssumption DEF IInv, AppType, Phases, LockFree, Looping,
     BuildFails
<1>6. CASE AbortJoins
  BY <1>6, AudioAssumption DEF IInv, AppType, Phases, LockFree, Looping,
     AbortJoins, StartFails
<1>7. CASE SessionStarts
  BY <1>7, AudioAssumption DEF IInv, AppType, Phases, LockFree, Looping,
     SessionStarts
<1>8. CASE StopSends
  BY <1>8, AudioAssumption DEF IInv, AppType, Phases, LockFree, Looping,
     StopSends
<1>9. CASE StopJoins
  BY <1>9, AudioAssumption DEF IInv, AppType, Phases, LockFree, Looping,
     StopJoins
<1>10. CASE Panic
  BY <1>10, AudioAssumption DEF IInv, AppType, Phases, LockFree, Looping,
     Panic, Leaves, Both
<1>11. CASE UNCHANGED <<state, starting, stopping, session, recording,
       file>>
  BY <1>11 DEF IInv, AppType, LockFree, Looping
<1> QED
  BY <1>1, <1>2, <1>3, <1>4, <1>5, <1>6, <1>7, <1>8, <1>9, <1>10, <1>11 DEF
     Next, Command, Pairing, vars, WorkerRuns, WorkerFails, WorkerEnds,
     Capture, Boot, CheckStop, NoPair, Mix, Receive, Segment, Relay, Leaves

LEMMA CaptureTypeStep ==
  ASSUME IInv, [Next]_vars
  PROVE  CaptureType'
<1>1. CASE StartRecording
  BY <1>1, AudioAssumption DEF IInv, CaptureType, AppType, StartRecording,
     Acquires, LockFree, Both
<1>2. CASE StopRecording
  BY <1>2, AudioAssumption DEF IInv, CaptureType, AppType, StopRecording,
     Acquires, LockFree
<1>3. CASE SystemFails
  BY <1>3, AudioAssumption DEF IInv, CaptureType, AppType, SystemFails,
     StartFails
<1>4. ASSUME NEW left \in {"none", "partial"}, BuildFails(left) PROVE
       CaptureType'
  BY <1>4, AudioAssumption DEF IInv, CaptureType, AppType, BuildFails
<1>5. ASSUME NEW r \in Recordings, WorkerRuns(r) PROVE CaptureType'
  BY <1>5, AudioAssumption DEF IInv, CaptureType, AppType, WorkerRuns
<1>6. ASSUME NEW r \in Recordings, WorkerFails(r) PROVE CaptureType'
  BY <1>6, AudioAssumption DEF IInv, CaptureType, AppType, WorkerFails
<1>7. ASSUME NEW r \in Recordings, WorkerEnds(r) PROVE CaptureType'
  BY <1>7, AudioAssumption DEF IInv, CaptureType, AppType, WorkerEnds
<1>8. CASE UNCHANGED <<mic, worker, stopSignal>>
  BY <1>8 DEF IInv, CaptureType
<1> QED
  BY <1>1, <1>2, <1>3, <1>4, <1>5, <1>6, <1>7, <1>8 DEF Next, Command,
     Pairing, vars, SystemStarts, AbortJoins, SessionStarts, StopSends,
     StopJoins, Capture, Boot, CheckStop, NoPair, Mix, Receive, Segment,
     Panic, Relay, StartFails, Leaves

LEMMA CountsTypeStep ==
  ASSUME IInv, [Next]_vars
  PROVE  CountsType'
<1>1. CASE StartRecording
  BY <1>1, AudioAssumption DEF IInv, CountsType, AppType, CaptureType,
     Streams, StartRecording, Acquires, LockFree, Both
<1>2. ASSUME NEW r \in Recordings, WorkerRuns(r) PROVE CountsType'
  BY <1>2, AudioAssumption DEF IInv, CountsType, AppType, CaptureType,
     Streams, WorkerRuns
<1>3. ASSUME NEW s \in Streams, Capture(s) PROVE CountsType'
  BY <1>3, AudioAssumption DEF IInv, CountsType, AppType, CaptureType,
     Streams, Capture, Receiving, Looping
<1>4. CASE UNCHANGED <<captured, dropped, lead>>
  BY <1>4 DEF IInv, CountsType, Streams
<1> QED
  BY <1>1, <1>2, <1>3, <1>4 DEF Next, Command, Pairing, vars, StopRecording,
     SystemStarts, SystemFails, BuildFails, AbortJoins, SessionStarts,
     StopSends, StopJoins, WorkerFails, WorkerEnds, Boot, CheckStop, NoPair,
     Mix, Receive, Segment, Panic, Relay, StartFails, Leaves

LEMMA QueueTypeStep ==
  ASSUME IInv, [Next]_vars
  PROVE  QueueType'
<1>1. CASE StartRecording
  BY <1>1, AudioAssumption DEF IInv, QueueType, CountsType, StartRecording,
     Acquires, LockFree, Both
<1>2. ASSUME NEW s \in Streams, Capture(s) PROVE QueueType'
  <2>1. CASE queue' = queue
    BY <2>1 DEF IInv, QueueType
  <2>2. CASE queue' = [queue EXCEPT ![s] = Append(@, captured[s] + 1)]
    <3>1. captured[s] + 1 \in Nat /\ queue[s] \in Seq(Nat)
      BY DEF IInv, QueueType, CountsType
    <3>2. Append(queue[s], captured[s] + 1) \in Seq(Nat)
      BY <3>1, AppendProperties
    <3> QED
      BY <2>2, <3>2 DEF IInv, QueueType
  <2> QED
    BY <1>2, <2>1, <2>2 DEF Capture
<1>3. CASE CheckStop
  <2>1. queue' = queue \/ queue' = Both(<<>>)
    BY <1>3 DEF CheckStop, Leaves
  <2> QED
    BY <2>1, EmptyQueues DEF IInv, QueueType
<1>4. CASE NoPair
  <2>1. queue' = queue \/ queue' = Both(<<>>)
    BY <1>4 DEF NoPair, Leaves
  <2> QED
    BY <2>1, EmptyQueues DEF IInv, QueueType
<1>5. ASSUME NEW s \in Streams, Receive(s) PROVE QueueType'
  <2>1. CASE queue' = queue
    BY <2>1 DEF IInv, QueueType
  <2>2. CASE queue[s] # <<>> /\ queue' = [queue EXCEPT ![s] = Tail(@)]
    <3>1. queue[s] \in Seq(Nat)
      BY DEF IInv, QueueType
    <3>2. Tail(queue[s]) \in Seq(Nat)
      BY <2>2, <3>1, HeadTailProperties
    <3> QED
      BY <2>2, <3>2 DEF IInv, QueueType
  <2> QED
    BY <1>5, <2>1, <2>2 DEF Receive
<1>6. CASE Panic
  BY <1>6, AudioAssumption DEF IInv, QueueType, CountsType, Panic, Leaves,
     Both
<1>7. CASE UNCHANGED <<queue>>
  BY <1>7 DEF IInv, QueueType
<1> QED
  BY <1>1, <1>2, <1>3, <1>4, <1>5, <1>6, <1>7 DEF Next, Command, Pairing,
     vars, StopRecording, SystemStarts, SystemFails, BuildFails, AbortJoins,
     SessionStarts, StopSends, StopJoins, WorkerRuns, WorkerFails,
     WorkerEnds, Boot, Mix, Segment, Relay, StartFails

LEMMA LoopTypeStep ==
  ASSUME IInv, [Next]_vars
  PROVE  LoopType'
<1>1. CASE StartRecording
  BY <1>1, AudioAssumption DEF IInv, LoopType, QueueType, AppType, Looping,
     StartRecording, Acquires, LockFree, Both
<1>2. CASE SessionStarts
  BY <1>2, AudioAssumption DEF IInv, LoopType, QueueType, AppType, Looping,
     SessionStarts
<1>3. CASE StopSends
  BY <1>3, AudioAssumption DEF IInv, LoopType, QueueType, AppType, Looping,
     StopSends
<1>4. CASE StopJoins
  BY <1>4, AudioAssumption DEF IInv, LoopType, QueueType, AppType, Looping,
     StopJoins
<1>5. CASE Boot
  BY <1>5, AudioAssumption DEF IInv, LoopType, QueueType, AppType, Looping,
     Boot
<1>6. CASE CheckStop
  <2>1. thread' \in {"ended", "mic"} /\ stopSent' = stopSent
    BY <1>6 DEF CheckStop, Leaves
  <2>2. (pending' = pending \/ pending' = Both(0)) /\ (gone' = gone \/ gone' = Both(FALSE))
    BY <1>6 DEF CheckStop, Leaves
  <2>3. Both(0) \in [Streams -> Nat] /\ Both(FALSE) \in [Streams -> BOOLEAN]
    BY DEF Both
  <2>4. pending' \in [Streams -> Nat]
    BY <2>2, <2>3 DEF IInv, LoopType
  <2>5. gone' \in [Streams -> BOOLEAN]
    BY <2>2, <2>3 DEF IInv, LoopType
  <2> QED
    BY <2>1, <2>4, <2>5 DEF IInv, LoopType, Looping
<1>7. CASE NoPair
  BY <1>7, AudioAssumption DEF IInv, LoopType, QueueType, AppType, Looping,
     NoPair, Leaves, Both
<1>8. CASE Mix
  BY <1>8, AudioAssumption DEF IInv, LoopType, QueueType, AppType, Looping,
     Mix, Both, AfterWrite
<1>9. ASSUME NEW s \in Streams, Receive(s) PROVE LoopType'
  <2>1. thread' \in {"system", "pair"} /\ stopSent' = stopSent
    BY <1>9 DEF Receive, After, Streams
  <2>2. CASE queue[s] # <<>> /\ gone' = gone
             /\ pending' = [pending EXCEPT ![s] = Head(queue[s])]
    <3>1. queue[s] \in Seq(Nat)
      BY DEF IInv, QueueType
    <3>2. Head(queue[s]) \in Nat
      BY <2>2, <3>1, HeadTailProperties
    <3> QED
      BY <2>1, <2>2, <3>2 DEF IInv, LoopType, Looping
  <2>3. CASE pending' = pending
             /\ gone' = [gone EXCEPT ![s] = Wanted(s) /\ ~Connected(s)]
    BY <2>1, <2>3 DEF IInv, LoopType, Looping
  <2> QED
    BY <1>9, <2>2, <2>3 DEF Receive
<1>10. ASSUME NEW s \in Streams, NEW speech \in BOOLEAN, Segment(s, speech)
       PROVE LoopType'
  BY <1>10, AudioAssumption DEF IInv, LoopType, QueueType, AppType, Looping,
     Segment, Offered, SegmentId
<1>11. CASE Panic
  BY <1>11, AudioAssumption DEF IInv, LoopType, QueueType, AppType, Looping,
     Panic, Leaves, Both
<1>12. CASE UNCHANGED <<thread, stopSent, pending, gone>>
  BY <1>12 DEF IInv, LoopType, Looping
<1> QED
  BY <1>1, <1>2, <1>3, <1>4, <1>5, <1>6, <1>7, <1>8, <1>9, <1>10, <1>11,
     <1>12 DEF Next, Command, Pairing, vars, StopRecording, SystemStarts,
     SystemFails, BuildFails, AbortJoins, WorkerRuns, WorkerFails,
     WorkerEnds, Capture, Relay, StartFails

LEMMA PairsTypeStep ==
  ASSUME IInv, [Next]_vars
  PROVE  PairsType'
<1>1. CASE StartRecording
  BY <1>1, AudioAssumption DEF IInv, PairsType, LoopType, StartRecording,
     Acquires, LockFree, Both
<1>2. CASE Mix
  BY <1>2, AudioAssumption DEF IInv, PairsType, LoopType, Mix, Both,
     AfterWrite
<1>3. CASE UNCHANGED <<pairs>>
  BY <1>3 DEF IInv, PairsType
<1> QED
  BY <1>1, <1>2, <1>3 DEF Next, Command, Pairing, vars, StopRecording,
     SystemStarts, SystemFails, BuildFails, AbortJoins, SessionStarts,
     StopSends, StopJoins, WorkerRuns, WorkerFails, WorkerEnds, Capture,
     Boot, CheckStop, NoPair, Receive, Segment, Panic, Relay, StartFails,
     Leaves

LEMMA OutputTypeStep ==
  ASSUME IInv, [Next]_vars
  PROVE  OutputType'
<1>1. CASE StartRecording
  BY <1>1, AudioAssumption, ShortChunks DEF IInv, OutputType,
     StartRecording, Acquires, LockFree, Both
<1>2. CASE Mix
  <2>1. PICK size \in [Streams -> ChunkSizes] :
          buffer' = Drained([s \in Streams |-> buffer[s] + size[s]])
    BY <1>2 DEF Mix
  <2> DEFINE pushed == [s \in Streams |-> buffer[s] + size[s]]
  <2>2. \A s \in Streams : pushed[s] \in Nat /\ pushed[s] <= buffer[s] + WindowSize
    <3> TAKE s \in Streams
    <3>1. buffer[s] \in Nat /\ size[s] \in 1..WindowSize
      BY ShortChunks DEF IInv, OutputType
    <3> QED
      BY <3>1, AudioAssumption
  <2>3. buffer' \in [Streams -> Nat]
    BY <2>1, <2>2, AudioAssumption DEF Drained, HasWindow
  <2>4. heard' = heard /\ counter' = counter /\ unwritten' \in Nat
    BY <1>2 DEF Mix, IInv, OutputType
  <2> QED
    BY <2>3, <2>4 DEF IInv, OutputType
<1>3. ASSUME NEW s \in Streams, NEW speech \in BOOLEAN, Segment(s, speech)
       PROVE OutputType'
  BY <1>3, AudioAssumption, ShortChunks DEF IInv, OutputType, Segment,
     Offered, SegmentId
<1>4. CASE UNCHANGED <<buffer, unwritten, heard, counter>>
  BY <1>4 DEF IInv, OutputType
<1> QED
  BY <1>1, <1>2, <1>3, <1>4 DEF Next, Command, Pairing, vars, StopRecording,
     SystemStarts, SystemFails, BuildFails, AbortJoins, SessionStarts,
     StopSends, StopJoins, WorkerRuns, WorkerFails, WorkerEnds, Capture,
     Boot, CheckStop, NoPair, Receive, Panic, Relay, StartFails, Leaves

LEMMA RelayTypeStep ==
  ASSUME IInv, [Next]_vars
  PROVE  RelayType'
<1>1. ASSUME NEW s \in Streams, NEW speech \in BOOLEAN, Segment(s, speech)
       PROVE RelayType'
  <2>1. CASE outbox' = outbox
    BY <2>1, <1>1 DEF Segment, IInv, RelayType
  <2>2. CASE speech /\ outbox' = Append(outbox, [rec |-> recording, id |-> counter])
    <3>1. [rec |-> recording, id |-> counter] \in Segments
      BY DEF IInv, AppType, OutputType, Segments
    <3>2. Append(outbox, [rec |-> recording, id |-> counter]) \in Seq(Segments)
      BY <3>1, AppendProperties DEF IInv, RelayType
    <3> QED
      BY <2>2, <3>2, <1>1 DEF Segment, IInv, RelayType
  <2> QED
    BY <1>1, <2>1, <2>2 DEF Segment, Offered, SegmentId
<1>2. CASE Relay
  BY <1>2, AudioAssumption, HeadTailProperties DEF IInv, RelayType, AppType,
     OutputType, Segments, Relay
<1>3. CASE UNCHANGED <<serving, outbox, relayed>>
  BY <1>3 DEF IInv, RelayType, Segments
<1> QED
  BY <1>1, <1>2, <1>3 DEF Next, Command, Pairing, vars, StartRecording,
     StopRecording, SystemStarts, SystemFails, BuildFails, AbortJoins,
     SessionStarts, StopSends, StopJoins, WorkerRuns, WorkerFails,
     WorkerEnds, Capture, Boot, CheckStop, NoPair, Mix, Receive, Panic,
     StartFails, Leaves

LEMMA PhasesStep ==
  ASSUME IInv, [Next]_vars
  PROVE  Phases'
<1>1. CASE StartRecording
  BY <1>1, AudioAssumption DEF IInv, Phases, AppType, CaptureType, LoopType,
     LockFree, Looping, StartRecording, Acquires, Both
<1>2. CASE StopRecording
  BY <1>2, AudioAssumption DEF IInv, Phases, AppType, CaptureType, LoopType,
     LockFree, Looping, StopRecording, Acquires
<1>3. CASE SystemStarts
  BY <1>3, AudioAssumption DEF IInv, Phases, AppType, CaptureType, LoopType,
     LockFree, Looping, SystemStarts
<1>4. CASE SystemFails
  BY <1>4, AudioAssumption DEF IInv, Phases, AppType, CaptureType, LoopType,
     LockFree, Looping, SystemFails, StartFails
<1>5. ASSUME NEW left \in {"none", "partial"}, BuildFails(left) PROVE
       Phases'
  BY <1>5, AudioAssumption DEF IInv, Phases, AppType, CaptureType, LoopType,
     LockFree, Looping, BuildFails
<1>6. CASE AbortJoins
  BY <1>6, AudioAssumption DEF IInv, Phases, AppType, CaptureType, LoopType,
     LockFree, Looping, AbortJoins, StartFails
<1>7. CASE SessionStarts
  BY <1>7, AudioAssumption DEF IInv, Phases, AppType, CaptureType, LoopType,
     LockFree, Looping, SessionStarts
<1>8. CASE StopSends
  BY <1>8, AudioAssumption DEF IInv, Phases, AppType, CaptureType, LoopType,
     LockFree, Looping, StopSends
<1>9. CASE StopJoins
  BY <1>9, AudioAssumption DEF IInv, Phases, AppType, CaptureType, LoopType,
     LockFree, Looping, StopJoins
<1>10. CASE Boot
  BY <1>10, AudioAssumption DEF IInv, Phases, AppType, CaptureType,
     LoopType, LockFree, Looping, Boot
<1>11. CASE CheckStop
  BY <1>11, AudioAssumption DEF IInv, Phases, AppType, CaptureType,
     LoopType, LockFree, Looping, CheckStop, Leaves, Both
<1>12. CASE NoPair
  BY <1>12, AudioAssumption DEF IInv, Phases, AppType, CaptureType,
     LoopType, LockFree, Looping, NoPair, Leaves, Both
<1>13. CASE Mix
  BY <1>13, AudioAssumption DEF IInv, Phases, AppType, CaptureType,
     LoopType, LockFree, Looping, Mix, Both, AfterWrite
<1>14. ASSUME NEW s \in Streams, Receive(s) PROVE Phases'
  BY <1>14, AudioAssumption DEF IInv, Phases, AppType, CaptureType,
     LoopType, LockFree, Looping, Receive, After, Wanted, Streams
<1>15. ASSUME NEW s \in Streams, NEW speech \in BOOLEAN, Segment(s, speech)
       PROVE Phases'
  BY <1>15, AudioAssumption DEF IInv, Phases, AppType, CaptureType,
     LoopType, LockFree, Looping, Segment, Offered, SegmentId
<1>16. CASE Panic
  BY <1>16, AudioAssumption DEF IInv, Phases, AppType, CaptureType,
     LoopType, LockFree, Looping, Panic, Leaves, Both
<1>17. CASE UNCHANGED <<starting, stopping, state, session, thread, mic,
       recording>>
  BY <1>17 DEF IInv, Phases, LockFree, Looping
<1> QED
  BY <1>1, <1>2, <1>3, <1>4, <1>5, <1>6, <1>7, <1>8, <1>9, <1>10, <1>11,
     <1>12, <1>13, <1>14, <1>15, <1>16, <1>17 DEF Next, Command, Pairing,
     vars, WorkerRuns, WorkerFails, WorkerEnds, Capture, Relay

LEMMA FilesFitStep ==
  ASSUME IInv, [Next]_vars
  PROVE  FilesFit'
<1>1. CASE StartRecording
  BY <1>1, AudioAssumption DEF IInv, FilesFit, AppType, LoopType, Phases,
     LockFree, Looping, StartRecording, Acquires, Both
<1>2. ASSUME NEW left \in {"none", "partial"}, BuildFails(left) PROVE
       FilesFit'
  BY <1>2, AudioAssumption DEF IInv, FilesFit, AppType, LoopType, Phases,
     LockFree, Looping, BuildFails
<1>3. CASE SessionStarts
  BY <1>3, AudioAssumption DEF IInv, FilesFit, AppType, LoopType, Phases,
     LockFree, Looping, SessionStarts
<1>4. CASE StopJoins
  BY <1>4, AudioAssumption DEF IInv, FilesFit, AppType, LoopType, Phases,
     LockFree, Looping, StopJoins
<1>5. CASE Boot
  BY <1>5, AudioAssumption DEF IInv, FilesFit, AppType, LoopType, Phases,
     LockFree, Looping, Boot
<1>6. CASE CheckStop
  BY <1>6, AudioAssumption DEF IInv, FilesFit, AppType, LoopType, Phases,
     LockFree, Looping, CheckStop, Leaves, Both
<1>7. CASE NoPair
  BY <1>7, AudioAssumption DEF IInv, FilesFit, AppType, LoopType, Phases,
     LockFree, Looping, NoPair, Leaves, Both
<1>8. CASE Mix
  BY <1>8, AudioAssumption DEF IInv, FilesFit, AppType, LoopType, Phases,
     LockFree, Looping, Mix, Both, AfterWrite
<1>9. ASSUME NEW s \in Streams, Receive(s) PROVE FilesFit'
  BY <1>9, AudioAssumption DEF IInv, FilesFit, AppType, LoopType, Phases,
     LockFree, Looping, Receive, After, Wanted
<1>10. ASSUME NEW s \in Streams, NEW speech \in BOOLEAN, Segment(s, speech)
       PROVE FilesFit'
  BY <1>10, AudioAssumption DEF IInv, FilesFit, AppType, LoopType, Phases,
     LockFree, Looping, Segment, Offered, SegmentId
<1>11. CASE Panic
  BY <1>11, AudioAssumption DEF IInv, FilesFit, AppType, LoopType, Phases,
     LockFree, Looping, Panic, Leaves, Both
<1>12. CASE UNCHANGED <<file, recording, thread>>
  BY <1>12 DEF IInv, FilesFit, LockFree, Looping
<1> QED
  BY <1>1, <1>2, <1>3, <1>4, <1>5, <1>6, <1>7, <1>8, <1>9, <1>10, <1>11,
     <1>12 DEF Next, Command, Pairing, vars, StopRecording, SystemStarts,
     SystemFails, AbortJoins, StopSends, WorkerRuns, WorkerFails,
     WorkerEnds, Capture, Relay, StartFails

LEMMA TailIsShortStep ==
  ASSUME IInv, [Next]_vars
  PROVE  TailIsShort'
<1>1. CASE StartRecording
  BY <1>1, AudioAssumption, ShortChunks DEF IInv, TailIsShort, OutputType,
     StartRecording, Acquires, LockFree, Both
<1>2. CASE Mix
  <2>1. PICK size \in [Streams -> ChunkSizes] :
          buffer' = Drained([s \in Streams |-> buffer[s] + size[s]])
    BY <1>2 DEF Mix
  <2> DEFINE pushed == [s \in Streams |-> buffer[s] + size[s]]
  <2>2. \A s \in Streams : pushed[s] \in Nat /\ pushed[s] <= buffer[s] + WindowSize
    <3> TAKE s \in Streams
    <3>1. buffer[s] \in Nat /\ size[s] \in 1..WindowSize
      BY ShortChunks DEF IInv, OutputType
    <3> QED
      BY <3>1, AudioAssumption
  <2>3. \A s \in Streams : buffer[s] \in Nat
    BY DEF IInv, OutputType
  <2>4. CASE HasWindow(pushed)
    <3>1. \A s \in Streams : buffer'[s] = pushed[s] - WindowSize
      BY <2>1, <2>4 DEF Drained
    <3> QED
      BY <2>2, <2>3, <3>1, AudioAssumption DEF IInv, TailIsShort
  <2>5. CASE ~HasWindow(pushed)
    <3>1. buffer' = pushed
      BY <2>1, <2>5 DEF Drained
    <3> QED
      BY <2>2, <2>5, <3>1, AudioAssumption DEF HasWindow, TailIsShort
  <2> QED
    BY <2>4, <2>5
<1>3. CASE UNCHANGED <<buffer>>
  BY <1>3 DEF IInv, TailIsShort
<1> QED
  BY <1>1, <1>2, <1>3 DEF Next, Command, Pairing, vars, StopRecording,
     SystemStarts, SystemFails, BuildFails, AbortJoins, SessionStarts,
     StopSends, StopJoins, WorkerRuns, WorkerFails, WorkerEnds, Capture,
     Boot, CheckStop, NoPair, Receive, Segment, Panic, Relay, StartFails,
     Leaves

LEMMA HeardFitStep ==
  ASSUME IInv, [Next]_vars
  PROVE  HeardFit'
<1>1. CASE StartRecording
  BY <1>1, AudioAssumption DEF IInv, HeardFit, AppType, LoopType, PairsType,
     OutputType, Phases, Looping, Unheard, LockFree, Streams,
     StartRecording, Acquires, Both
<1>2. CASE SystemStarts
  BY <1>2, AudioAssumption DEF IInv, HeardFit, AppType, LoopType, PairsType,
     OutputType, Phases, Looping, Unheard, LockFree, Streams, SystemStarts
<1>3. CASE SystemFails
  BY <1>3, AudioAssumption DEF IInv, HeardFit, AppType, LoopType, PairsType,
     OutputType, Phases, Looping, Unheard, LockFree, Streams, SystemFails,
     StartFails
<1>4. ASSUME NEW left \in {"none", "partial"}, BuildFails(left) PROVE
       HeardFit'
  BY <1>4, AudioAssumption DEF IInv, HeardFit, AppType, LoopType, PairsType,
     OutputType, Phases, Looping, Unheard, LockFree, Streams, BuildFails
<1>5. CASE AbortJoins
  BY <1>5, AudioAssumption DEF IInv, HeardFit, AppType, LoopType, PairsType,
     OutputType, Phases, Looping, Unheard, LockFree, Streams, AbortJoins,
     StartFails
<1>6. CASE SessionStarts
  BY <1>6, AudioAssumption DEF IInv, HeardFit, AppType, LoopType, PairsType,
     OutputType, Phases, Looping, Unheard, LockFree, Streams, SessionStarts
<1>7. CASE StopJoins
  BY <1>7, AudioAssumption DEF IInv, HeardFit, AppType, LoopType, PairsType,
     OutputType, Phases, Looping, Unheard, LockFree, Streams, StopJoins
<1>8. CASE Boot
  BY <1>8, AudioAssumption DEF IInv, HeardFit, AppType, LoopType, PairsType,
     OutputType, Phases, Looping, Unheard, LockFree, Streams, Boot
<1>9. CASE CheckStop
  BY <1>9, AudioAssumption DEF IInv, HeardFit, AppType, LoopType, PairsType,
     OutputType, Phases, Looping, Unheard, LockFree, Streams, CheckStop,
     Leaves, Both
<1>10. CASE NoPair
  BY <1>10, AudioAssumption DEF IInv, HeardFit, AppType, LoopType,
     PairsType, OutputType, Phases, Looping, Unheard, LockFree, Streams,
     NoPair, Leaves, Both
<1>11. CASE Mix
  BY <1>11, AudioAssumption DEF IInv, HeardFit, AppType, LoopType,
     PairsType, OutputType, Phases, Looping, Unheard, LockFree, Streams,
     Mix, Both, AfterWrite
<1>12. ASSUME NEW s \in Streams, Receive(s) PROVE HeardFit'
  BY <1>12, AudioAssumption DEF IInv, HeardFit, AppType, LoopType,
     PairsType, OutputType, Phases, Looping, Unheard, LockFree, Streams,
     Receive, After, Wanted
<1>13. ASSUME NEW s \in Streams, NEW speech \in BOOLEAN, Segment(s, speech)
       PROVE HeardFit'
  <2> USE <1>13 DEF Segment, Streams
  <2>1. \A u \in Streams : heard[u] \in Nat /\ heard[u] + Unheard(u) = Len(pairs)
    BY DEF IInv, OutputType, HeardFit, Looping
  <2>2. pairs' = pairs /\ starting' = starting /\ starting = "no"
    BY DEF IInv, Phases
  <2>3. CASE s = "mic"
    <3>1. heard'["mic"] = Len(pairs) /\ heard'["system"] + 1 = Len(pairs)
      BY <2>1, <2>3 DEF Unheard, IInv, OutputType
    <3> QED
      BY <2>2, <2>3, <3>1 DEF HeardFit, Unheard
  <2>4. CASE s = "system"
    <3>1. heard'["mic"] = Len(pairs) /\ heard'["system"] = Len(pairs)
      BY <2>1, <2>4 DEF Unheard, IInv, OutputType
    <3> QED
      BY <2>2, <2>4, <3>1 DEF HeardFit, Unheard
  <2> QED
    BY <2>3, <2>4
<1>14. CASE Panic
  BY <1>14, AudioAssumption DEF IInv, HeardFit, AppType, LoopType,
     PairsType, OutputType, Phases, Looping, Unheard, LockFree, Streams,
     Panic, Leaves, Both
<1>15. CASE UNCHANGED <<starting, pairs, heard, thread>>
  BY <1>15 DEF IInv, HeardFit, Looping, Unheard, LockFree, Streams
<1> QED
  BY <1>1, <1>2, <1>3, <1>4, <1>5, <1>6, <1>7, <1>8, <1>9, <1>10, <1>11,
     <1>12, <1>13, <1>14, <1>15 DEF Next, Command, Pairing, vars,
     StopRecording, StopSends, WorkerRuns, WorkerFails, WorkerEnds, Capture,
     Relay

LEMMA OutboxFitStep ==
  ASSUME IInv, [Next]_vars
  PROVE  OutboxFit'
<1>1. CASE StartRecording
  <2>1. /\ \A i \in DOMAIN outbox : outbox[i] \in Segments
        /\ DOMAIN outbox = 1..Len(outbox) /\ Len(outbox) \in Nat
    BY ElementOfSeq, LenProperties DEF IInv, RelayType
  <2>2. outbox' = outbox /\ relayed' = relayed /\ recording' = recording + 1
    BY <1>1 DEF StartRecording
  <2>3. recording \in Nat /\ relayed.rec \in Nat
    BY AudioAssumption DEF IInv, AppType, RelayType, Segments
  <2> QED
    BY <2>1, <2>2, <2>3 DEF IInv, OutboxFit, Segments, Earlier
<1>2. ASSUME NEW s \in Streams, NEW speech \in BOOLEAN, Segment(s, speech)
       PROVE OutboxFit'
  <2>1. /\ \A i \in DOMAIN outbox : outbox[i] \in Segments
        /\ DOMAIN outbox = 1..Len(outbox) /\ Len(outbox) \in Nat
    BY ElementOfSeq, LenProperties DEF IInv, RelayType
  <2> USE <1>2 DEF Segment
  <2>2. recording' = recording /\ relayed' = relayed
        /\ recording # 0 /\ recording \in Nat /\ counter \in Nat
    BY AudioAssumption DEF IInv, AppType, Phases, LockFree, OutputType
  <2>3. CASE outbox' = outbox /\ (counter' = counter \/ counter' = counter + 1)
    BY <2>1, <2>2, <2>3 DEF IInv, OutboxFit, RelayType, Segments
  <2> DEFINE new == [rec |-> recording, id |-> counter]
  <2>4. CASE outbox' = Append(outbox, new) /\ counter' = counter + 1
    <3>1. new \in Segments /\ new.rec = recording /\ new.id = counter
      BY DEF IInv, AppType, OutputType, Segments
    <3>2. /\ DOMAIN outbox' = 1..Len(outbox) + 1
          /\ \A i \in DOMAIN outbox : outbox'[i] = outbox[i]
          /\ outbox'[Len(outbox) + 1] = new
      <4>1. outbox \in Seq(Segments)
        BY DEF IInv, RelayType
      <4>2. /\ outbox' \in Seq(Segments) /\ Len(outbox') = Len(outbox) + 1
            /\ \A i \in 1..Len(outbox) : outbox'[i] = outbox[i]
            /\ outbox'[Len(outbox) + 1] = new
        BY <2>4, <3>1, <4>1, AppendProperties
      <4>3. DOMAIN outbox' = 1..Len(outbox')
        BY <4>2, LenProperties
      <4> QED
        BY <2>1, <4>2, <4>3
    <3>3. \A i \in DOMAIN outbox : Earlier(outbox[i], new)
      BY <2>1, <2>2, <3>1 DEF IInv, OutboxFit, Segments, Earlier
    <3>4. Earlier(relayed, new)
      BY <2>2, <3>1 DEF IInv, OutboxFit, RelayType, Segments, Earlier
    <3>5. \A i, j \in DOMAIN outbox' : i < j => Earlier(outbox'[i], outbox'[j])
      BY <2>1, <3>2, <3>3 DEF IInv, OutboxFit
    <3>6. \A i \in DOMAIN outbox' : Earlier(relayed, outbox'[i])
      BY <2>1, <3>2, <3>4 DEF IInv, OutboxFit
    <3>7. \A i \in DOMAIN outbox' :
            outbox'[i].rec # 0 /\ outbox'[i].rec <= recording
            /\ (outbox'[i].rec = recording => outbox'[i].id < counter + 1)
      BY <2>1, <2>2, <3>1, <3>2 DEF IInv, OutboxFit, Segments
    <3>8. relayed.rec <= recording
          /\ (relayed.rec = recording => relayed.id < counter + 1)
      BY <2>2 DEF IInv, OutboxFit, RelayType, Segments
    <3> QED
      BY <2>2, <2>4, <3>5, <3>6, <3>7, <3>8 DEF OutboxFit
  <2> QED
    BY <2>3, <2>4 DEF Offered, SegmentId
<1>3. CASE Relay
  <2>1. /\ \A i \in DOMAIN outbox : outbox[i] \in Segments
        /\ DOMAIN outbox = 1..Len(outbox) /\ Len(outbox) \in Nat
    BY ElementOfSeq, LenProperties DEF IInv, RelayType
  <2>2. /\ relayed' = outbox[1] /\ 1 \in DOMAIN outbox
        /\ DOMAIN outbox' = 1..Len(outbox) - 1
        /\ \A i \in DOMAIN outbox' : outbox'[i] = outbox[i + 1]
    <3>1. outbox \in Seq(Segments) /\ outbox # <<>>
      BY <1>3 DEF IInv, RelayType, Relay
    <3>2. Tail(outbox) \in Seq(Segments) /\ Len(Tail(outbox)) = Len(outbox) - 1
          /\ \A i \in 1..Len(Tail(outbox)) : Tail(outbox)[i] = outbox[i + 1]
      BY <3>1, HeadTailProperties
    <3>3. DOMAIN Tail(outbox) = 1..Len(outbox) - 1
      BY <3>2, LenProperties
    <3>4. 1 \in DOMAIN outbox
      BY <2>1, <3>1, EmptySeq
    <3> QED
      BY <1>3, <3>1, <3>2, <3>3, <3>4 DEF Relay
  <2>3. recording' = recording /\ counter' = counter
    BY <1>3 DEF Relay
  <2>4. \A i \in DOMAIN outbox' : i + 1 \in DOMAIN outbox /\ 1 < i + 1
    BY <2>1, <2>2
  <2>5. \A i, j \in DOMAIN outbox' : i < j => i + 1 < j + 1
    BY <2>1, <2>2
  <2>6. /\ \A i, j \in DOMAIN outbox' : i < j => Earlier(outbox'[i], outbox'[j])
        /\ \A i \in DOMAIN outbox' : Earlier(relayed', outbox'[i])
    BY <2>2, <2>4, <2>5 DEF IInv, OutboxFit
  <2> QED
    BY <2>2, <2>3, <2>4, <2>6 DEF IInv, OutboxFit
<1>4. CASE UNCHANGED <<outbox, relayed, recording, counter>>
  BY <1>4 DEF IInv, OutboxFit, Earlier, Segments, Looping, LockFree
<1> QED
  BY <1>1, <1>2, <1>3, <1>4 DEF Next, Command, Pairing, vars, StopRecording,
     SystemStarts, SystemFails, BuildFails, AbortJoins, SessionStarts,
     StopSends, StopJoins, WorkerRuns, WorkerFails, WorkerEnds, Capture,
     Boot, CheckStop, NoPair, Mix, Receive, Panic, StartFails, Leaves

LEMMA LinesFitStep ==
  ASSUME IInv, [Next]_vars
  PROVE  LinesFit'
<1>1. CASE StartRecording
  BY <1>1, AudioAssumption DEF IInv, LinesFit, Phases, HeardFit, LoopType,
     QueueType, PairsType, CountsType, LineFits, QueueFits, PendingFits,
     PairsFit, CountFits, Receiving, Looping, LockFree,
     StartRecording, Acquires, Both
<1>2. CASE SystemStarts
  BY <1>2, AudioAssumption DEF IInv, LinesFit, Phases, HeardFit, LoopType,
     QueueType, PairsType, CountsType, LineFits, QueueFits, PendingFits,
     PairsFit, CountFits, Receiving, Looping, LockFree, SystemStarts
<1>3. CASE SystemFails
  BY <1>3, AudioAssumption DEF IInv, LinesFit, Phases, HeardFit, LoopType,
     QueueType, PairsType, CountsType, LineFits, QueueFits, PendingFits,
     PairsFit, CountFits, Receiving, Looping, LockFree, SystemFails,
     StartFails
<1>4. ASSUME NEW left \in {"none", "partial"}, BuildFails(left) PROVE
       LinesFit'
  BY <1>4, AudioAssumption DEF IInv, LinesFit, Phases, HeardFit, LoopType,
     QueueType, PairsType, CountsType, LineFits, QueueFits, PendingFits,
     PairsFit, CountFits, Receiving, Looping, LockFree, BuildFails
<1>5. CASE AbortJoins
  BY <1>5, AudioAssumption DEF IInv, LinesFit, Phases, HeardFit, LoopType,
     QueueType, PairsType, CountsType, LineFits, QueueFits, PendingFits,
     PairsFit, CountFits, Receiving, Looping, LockFree, AbortJoins,
     StartFails
<1>6. CASE SessionStarts
  BY <1>6, AudioAssumption DEF IInv, LinesFit, Phases, HeardFit, LoopType,
     QueueType, PairsType, CountsType, LineFits, QueueFits, PendingFits,
     PairsFit, CountFits, Receiving, Looping, LockFree, SessionStarts
<1>7. CASE StopJoins
  BY <1>7, AudioAssumption DEF IInv, LinesFit, Phases, HeardFit, LoopType,
     QueueType, PairsType, CountsType, LineFits, QueueFits, PendingFits,
     PairsFit, CountFits, Receiving, Looping, LockFree, StopJoins
<1>8. ASSUME NEW s \in Streams, Capture(s) PROVE LinesFit'
  <2>1. /\ pending' = pending /\ pairs' = pairs /\ thread' = thread
        /\ starting' = starting /\ Receiving
    BY <1>8 DEF Capture
  <2>2. thread' \notin Looping => \A u \in Streams : pending'[u] = 0
    BY <2>1 DEF IInv, LinesFit
  <2>3. ASSUME NEW u \in Streams PROVE LineFits(u)'
    <3>0. StreamTyped(u)
      BY StreamFacts
    <3>1. LineFits(u)
      BY DEF IInv, LinesFit
    <3>2. CASE u # s
      <4>1. /\ captured'[u] = captured[u] /\ dropped'[u] = dropped[u]
            /\ queue'[u] = queue[u]
        BY <1>8, <3>2 DEF Capture, IInv, CountsType, QueueType
      <4> QED
        BY <2>1, <3>1, <4>1
           DEF LineFits, Receiving, QueueFits, PendingFits, PairsFit, CountFits
    <3>3. CASE u = s
      <4>0. StreamTyped(s)
        BY <3>0, <3>3
      <4>1. captured'[s] = captured[s] + 1
        BY <1>8 DEF Capture, IInv, CountsType
      <4>2. QueueFits(s) /\ PendingFits(s) /\ PairsFit(s) /\ CountFits(s)
        BY <2>1, <3>1, <3>3 DEF LineFits
      <4>3. CASE queue'[s] = queue[s] /\ dropped'[s] = dropped[s] + 1
        <5>1. QueueFits(s)'
          <6>1. \A i \in DOMAIN queue[s] : queue[s][i] <= captured[s] + 1
            BY <4>2, <4>0 DEF QueueFits, StreamTyped
          <6> QED
            BY <4>1, <4>2, <4>3, <6>1 DEF QueueFits
        <5>2. PendingFits(s)'
          <6>1. pending[s] <= captured[s] + 1
            BY <4>2, <4>0 DEF PendingFits, StreamTyped
          <6> QED
            BY <2>1, <4>1, <4>2, <4>3, <6>1 DEF PendingFits
        <5>3. PairsFit(s)'
          <6>1. \A k \in DOMAIN pairs : pairs[k][s] <= captured[s] + 1
            BY <4>2, <4>0 DEF PairsFit, StreamTyped
          <6> QED
            BY <2>1, <4>1, <4>2, <4>3, <6>1 DEF PairsFit
        <5>4. CountFits(s)'
          <6>1. /\ captured[s] \in Nat /\ dropped[s] \in Nat
                /\ Len(queue[s]) \in Nat /\ Len(pairs) \in Nat
            BY <4>0 DEF StreamTyped
          <6>2. /\ pending'[s] = pending[s] /\ Len(pairs') = Len(pairs)
                /\ Len(queue'[s]) = Len(queue[s]) /\ dropped'[s] = dropped[s] + 1
            BY <2>1, <4>3
          <6>3. Len(pairs') + Len(queue'[s]) + dropped'[s]
                  = Len(pairs) + Len(queue[s]) + dropped[s] + 1
            BY <6>1, <6>2
          <6>4. CASE pending[s] = 0
            BY <4>1, <4>2, <6>2, <6>3, <6>4 DEF CountFits
          <6>5. CASE pending[s] # 0
            BY <4>1, <4>2, <6>2, <6>3, <6>5 DEF CountFits
          <6> QED
            BY <6>4, <6>5
        <5> QED
          BY <3>3, <5>1, <5>2, <5>3, <5>4 DEF LineFits
      <4>4. CASE queue'[s] = Append(queue[s], captured[s] + 1)
                 /\ dropped'[s] = dropped[s]
        <5>1. /\ Len(queue'[s]) = Len(queue[s]) + 1
              /\ \A i \in 1..Len(queue[s]) : queue'[s][i] = queue[s][i]
              /\ queue'[s][Len(queue[s]) + 1] = captured[s] + 1
              /\ queue'[s] \in Seq(Nat)
          <6>1. captured[s] + 1 \in Nat
            BY <4>0 DEF StreamTyped
          <6> QED
            BY <4>4, <6>1, <4>0, AppendProperties DEF StreamTyped
        <5>2. /\ DOMAIN queue'[s] = 1..Len(queue[s]) + 1
              /\ DOMAIN queue[s] = 1..Len(queue[s])
              /\ Len(queue[s]) \in Nat /\ captured[s] \in Nat
          BY <5>1, <4>0, LenProperties DEF StreamTyped
        <5>3. \A i \in DOMAIN queue'[s] :
                \/ i \in DOMAIN queue[s] /\ queue'[s][i] = queue[s][i]
                   /\ queue[s][i] \in Nat
                \/ i = Len(queue[s]) + 1 /\ queue'[s][i] = captured[s] + 1
          <6> SUFFICES ASSUME NEW i \in 1..Len(queue[s]) + 1
                       PROVE  \/ /\ i \in 1..Len(queue[s])
                                 /\ queue'[s][i] = queue[s][i]
                                 /\ queue[s][i] \in Nat
                              \/ /\ i = Len(queue[s]) + 1
                                 /\ queue'[s][i] = captured[s] + 1
            BY <5>2
          <6>1. i \in 1..Len(queue[s]) \/ i = Len(queue[s]) + 1
            BY <5>2
          <6> QED
            BY <5>1, <5>2, <6>1, <4>0 DEF StreamTyped
        <5>4. QueueFits(s)'
          <6>1. \A i \in DOMAIN queue'[s] :
                  queue'[s][i] # 0 /\ queue'[s][i] <= captured[s] + 1
            BY <4>2, <5>2, <5>3 DEF QueueFits
          <6>2. \A i, j \in DOMAIN queue'[s] :
                  i < j => queue'[s][i] < queue'[s][j]
            <7> SUFFICES ASSUME NEW i \in DOMAIN queue'[s],
                                NEW j \in DOMAIN queue'[s], i < j
                         PROVE  queue'[s][i] < queue'[s][j]
              OBVIOUS
            <7>1. i \in DOMAIN queue[s] /\ queue'[s][i] = queue[s][i]
              BY <5>2, <5>3
            <7>2. CASE j \in DOMAIN queue[s] /\ queue'[s][j] = queue[s][j]
              BY <4>2, <7>1, <7>2 DEF QueueFits
            <7>3. CASE queue'[s][j] = captured[s] + 1
              <8>1. queue[s][i] \in Nat /\ queue[s][i] <= captured[s]
                BY <4>2, <7>1, <4>0 DEF QueueFits, StreamTyped
              <8> QED
                BY <5>2, <7>1, <7>3, <8>1
            <7> QED
              BY <5>3, <7>2, <7>3
          <6> QED
            BY <4>1, <6>1, <6>2 DEF QueueFits
        <5>5. PendingFits(s)'
          <6>1. pending[s] <= captured[s] + 1
            BY <4>2, <4>0 DEF PendingFits, StreamTyped
          <6>2. pending[s] # 0 => \A i \in DOMAIN queue'[s] : pending[s] < queue'[s][i]
            BY <4>2, <5>3, <4>0 DEF PendingFits, StreamTyped
          <6> QED
            BY <2>1, <4>1, <6>1, <6>2 DEF PendingFits
        <5>6. PairsFit(s)'
          <6>1. \A k \in DOMAIN pairs : pairs[k][s] < captured[s] + 1
            BY <4>2, <4>0 DEF PairsFit, StreamTyped
          <6>2. \A k \in DOMAIN pairs : pairs[k][s] <= captured[s] + 1
            BY <4>2, <4>0 DEF PairsFit, StreamTyped
          <6>3. \A k \in DOMAIN pairs, i \in DOMAIN queue'[s] :
                  pairs[k][s] < queue'[s][i]
            BY <4>2, <5>3, <6>1 DEF PairsFit
          <6> QED
            BY <2>1, <4>1, <4>2, <6>2, <6>3 DEF PairsFit
        <5>7. CountFits(s)'
          <6>1. /\ captured[s] \in Nat /\ dropped[s] \in Nat
                /\ Len(queue[s]) \in Nat /\ Len(pairs) \in Nat
            BY <4>0 DEF StreamTyped
          <6>2. /\ pending'[s] = pending[s] /\ Len(pairs') = Len(pairs)
                /\ Len(queue'[s]) = Len(queue[s]) + 1 /\ dropped'[s] = dropped[s]
            BY <2>1, <4>4, <5>1
          <6> QED
            BY <4>1, <4>2, <6>1, <6>2 DEF CountFits
        <5> QED
          BY <3>3, <5>4, <5>5, <5>6, <5>7 DEF LineFits
      <4> QED
        BY <1>8, <4>3, <4>4 DEF Capture, IInv, CountsType, QueueType
    <3> QED
      BY <3>2, <3>3
  <2> QED
    BY <2>2, <2>3 DEF LinesFit
<1>9. CASE Boot
  BY <1>9, AudioAssumption DEF IInv, LinesFit, Phases, HeardFit, LoopType,
     QueueType, PairsType, CountsType, LineFits, QueueFits, PendingFits,
     PairsFit, CountFits, Receiving, Looping, LockFree, Boot
<1>10. CASE CheckStop
  <2>1. CASE stopSent
    BY <1>10, <2>1 DEF CheckStop, Leaves, Both, IInv, Phases, LinesFit, LineFits,
       Receiving, Looping
  <2>2. CASE ~stopSent
    BY <1>10, <2>2 DEF CheckStop, IInv, LinesFit, LineFits, QueueFits, PendingFits,
       PairsFit, CountFits, Receiving, Looping
  <2> QED
    BY <2>1, <2>2
<1>11. CASE NoPair
  BY <1>11, AudioAssumption DEF IInv, LinesFit, Phases, HeardFit, LoopType,
     QueueType, PairsType, CountsType, LineFits, QueueFits, PendingFits,
     PairsFit, CountFits, Receiving, Looping, LockFree, NoPair,
     Leaves, Both
<1>12. CASE Mix
  <2>1. /\ pairs' = Append(pairs, pending) /\ pending' = Both(0)
        /\ queue' = queue /\ captured' = captured /\ dropped' = dropped
        /\ Receiving
    BY <1>12 DEF Mix, Receiving, Looping
  <2>2. \A u \in Streams : pending[u] # 0 /\ pending'[u] = 0
    BY <1>12, <2>1 DEF Mix, Both
  <2>3. ASSUME NEW u \in Streams PROVE LineFits(u)'
    <3>0. StreamTyped(u)
      BY StreamFacts
    <3>1. QueueFits(u) /\ PendingFits(u) /\ PairsFit(u) /\ CountFits(u)
      BY <2>1 DEF IInv, LinesFit, LineFits
    <3>2. pending \in [Streams -> Nat]
      BY DEF IInv, LoopType
    <3>3. /\ Len(pairs') = Len(pairs) + 1 /\ pairs' \in Seq([Streams -> Nat])
          /\ \A k \in 1..Len(pairs) : pairs'[k] = pairs[k]
          /\ pairs'[Len(pairs) + 1] = pending
      BY <2>1, <3>2, <3>0, AppendProperties DEF StreamTyped
    <3>4. DOMAIN pairs' = 1..Len(pairs) + 1
      BY <3>3, LenProperties
    <3>6. QueueFits(u)'
      BY <2>1, <3>1 DEF QueueFits
    <3>7. PendingFits(u)'
      BY <2>1, <2>2, <3>0 DEF PendingFits, StreamTyped
    <3>8. \A k \in DOMAIN pairs' : k \in DOMAIN pairs \/ k = Len(pairs) + 1
      BY <3>4, <3>0 DEF StreamTyped
    <3>9. PairsFit(u)'
      <4>1. \A k \in DOMAIN pairs' : pairs'[k][u] <= captured[u]
        BY <3>1, <3>3, <3>8, <3>0 DEF PairsFit, PendingFits, StreamTyped
      <4>2. \A j, k \in DOMAIN pairs' : j < k => pairs'[j][u] < pairs'[k][u]
        <5> SUFFICES ASSUME NEW j \in DOMAIN pairs', NEW k \in DOMAIN pairs', j < k
                     PROVE  pairs'[j][u] < pairs'[k][u]
          OBVIOUS
        <5>1. j \in DOMAIN pairs
          BY <3>4, <3>8, <3>0 DEF StreamTyped
        <5>2. CASE k \in DOMAIN pairs
          BY <3>1, <3>3, <3>0, <5>1, <5>2 DEF PairsFit, StreamTyped
        <5>3. CASE k = Len(pairs) + 1
          BY <2>2, <3>1, <3>3, <3>0, <5>1, <5>3 DEF PairsFit, StreamTyped
        <5> QED
          BY <3>8, <5>2, <5>3
      <4>3. \A k \in DOMAIN pairs', i \in DOMAIN queue[u] :
              pairs'[k][u] < queue[u][i]
        BY <2>2, <3>1, <3>3, <3>8, <3>0 DEF PairsFit, PendingFits, StreamTyped
      <4> QED
        BY <2>1, <2>2, <4>1, <4>2, <4>3 DEF PairsFit
    <3>10. CountFits(u)'
      <4>1. Len(pairs) + Len(queue[u]) + dropped[u] + 1 = captured[u]
        BY <2>2, <3>1 DEF CountFits
      <4>2. Len(pairs') + Len(queue'[u]) + dropped'[u]
              = Len(pairs) + Len(queue[u]) + dropped[u] + 1
        <5>1. Len(queue[u]) \in Nat /\ dropped[u] \in Nat /\ Len(pairs) \in Nat
          BY <3>0 DEF StreamTyped
        <5>2. Len(pairs) + 1 + Len(queue[u]) + dropped[u]
                = Len(pairs) + Len(queue[u]) + dropped[u] + 1
          BY <5>1, OneMore
        <5> QED
          BY <2>1, <3>3, <5>2
      <4> QED
        BY <2>1, <2>2, <4>1, <4>2 DEF CountFits
    <3> QED
      BY <3>6, <3>7, <3>9, <3>10 DEF LineFits
  <2> QED
    BY <2>2, <2>3 DEF LinesFit
<1>13. ASSUME NEW s \in Streams, Receive(s) PROVE LinesFit'
  <2>1. /\ pairs' = pairs /\ captured' = captured /\ dropped' = dropped
        /\ Receiving /\ thread' \in Looping
    BY <1>13 DEF Receive, Receiving, Looping, Streams, After
  <2>2. ASSUME NEW u \in Streams PROVE LineFits(u)'
    <3>0. StreamTyped(u)
      BY StreamFacts
    <3>1. QueueFits(u) /\ PendingFits(u) /\ PairsFit(u) /\ CountFits(u)
      BY <2>1 DEF IInv, LinesFit, LineFits
    <3>2. CASE pending'[u] = pending[u] /\ queue'[u] = queue[u]
      BY <2>1, <3>1, <3>2
         DEF LineFits, QueueFits, PendingFits, PairsFit, CountFits
    <3>3. CASE /\ pending[u] = 0 /\ queue[u] # <<>>
               /\ pending'[u] = Head(queue[u]) /\ queue'[u] = Tail(queue[u])
      <4>1. /\ Head(queue[u]) = queue[u][1] /\ Tail(queue[u]) \in Seq(Nat)
            /\ Len(Tail(queue[u])) = Len(queue[u]) - 1
            /\ \A i \in 1..Len(Tail(queue[u])) : Tail(queue[u])[i] = queue[u][i + 1]
        BY <3>3, <3>0, HeadTailProperties DEF StreamTyped
      <4>2. DOMAIN Tail(queue[u]) = 1..Len(queue[u]) - 1
        BY <4>1, LenProperties
      <4>3. 1 \in DOMAIN queue[u]
        BY <3>3, <3>0, EmptySeq DEF StreamTyped
      <4>4. \A i \in DOMAIN queue'[u] :
              /\ i + 1 \in DOMAIN queue[u] /\ 1 < i + 1
              /\ queue'[u][i] = queue[u][i + 1]
        BY <3>3, <4>1, <4>2, <3>0 DEF StreamTyped
      <4>5. QueueFits(u)'
        <5>1. \A i, j \in DOMAIN queue'[u] : i < j => i + 1 < j + 1
          BY <3>3, <4>2, <3>0 DEF StreamTyped
        <5> QED
          BY <2>1, <3>1, <4>4, <5>1 DEF QueueFits
      <4>6. PendingFits(u)'
        BY <2>1, <3>1, <3>3, <4>1, <4>3, <4>4 DEF PendingFits, QueueFits
      <4>7. PairsFit(u)'
        BY <2>1, <3>1, <3>3, <4>1, <4>3, <4>4 DEF PairsFit
      <4>8. pending'[u] # 0
        BY <3>1, <3>3, <4>1, <4>3 DEF QueueFits
      <4>9. CountFits(u)'
        <5>1. Len(queue'[u]) = Len(queue[u]) - 1
          BY <3>3, <4>1
        <5> QED
          <6>1. /\ captured[u] \in Nat /\ dropped[u] \in Nat
                /\ Len(queue[u]) \in Nat /\ Len(pairs) \in Nat
            BY <3>0 DEF StreamTyped
          <6>2. /\ Len(pairs') = Len(pairs) /\ dropped'[u] = dropped[u]
                /\ captured'[u] = captured[u]
            BY <2>1
          <6> QED
            BY <3>1, <3>3, <4>8, <5>1, <6>1, <6>2 DEF CountFits
      <4> QED
        BY <4>5, <4>6, <4>7, <4>9 DEF LineFits
    <3> QED
      BY <1>13, <3>2, <3>3 DEF Receive, Wanted, IInv, LoopType, QueueType
  <2> QED
    BY <2>1, <2>2 DEF LinesFit
<1>14. ASSUME NEW s \in Streams, NEW speech \in BOOLEAN, Segment(s, speech)
       PROVE LinesFit'
  BY <1>14, AudioAssumption DEF IInv, LinesFit, Phases, HeardFit, LoopType,
     QueueType, PairsType, CountsType, LineFits, QueueFits, PendingFits,
     PairsFit, CountFits, Receiving, Looping, LockFree, Segment,
     Offered, SegmentId
<1>15. CASE Panic
  BY <1>15, AudioAssumption DEF IInv, LinesFit, Phases, HeardFit, LoopType,
     QueueType, PairsType, CountsType, LineFits, QueueFits, PendingFits,
     PairsFit, CountFits, Receiving, Looping, LockFree, Panic, Leaves,
     Both
<1>16. CASE UNCHANGED <<thread, starting, queue, pending, pairs, captured,
       dropped>>
  BY <1>16 DEF IInv, LinesFit, LineFits, QueueFits, PendingFits, PairsFit,
     CountFits, Receiving, Looping, LockFree
<1> QED
  BY <1>1, <1>2, <1>3, <1>4, <1>5, <1>6, <1>7, <1>8, <1>9, <1>10, <1>11,
     <1>12, <1>13, <1>14, <1>15, <1>16 DEF Next, Command, Pairing, vars,
     StopRecording, StopSends, WorkerRuns, WorkerFails, WorkerEnds, Relay
-----------------------------------------------------------------------------
LEMMA InitIInv == Init => IInv
<1>1. Init => LinesFit
  BY DEF Init, LinesFit, LineFits, Receiving, Looping, Both, Streams
<1>2. Init => AppType /\ CaptureType /\ CountsType
  <2>1. 0 \in Recordings
    BY AudioAssumption
  <2>2. Init => AppType
    BY <2>1 DEF Init, AppType
  <2>3. Init => CaptureType
    BY DEF Init, CaptureType
  <2>4. Init => CountsType
    BY DEF Init, CountsType, Both
  <2> QED
    BY <2>2, <2>3, <2>4
<1>3. Init => QueueType
  BY EmptyQueues DEF Init, QueueType
<1>4. Init => LoopType
  <2>1. Both(0) \in [Streams -> Nat] /\ Both(FALSE) \in [Streams -> BOOLEAN]
    BY DEF Both
  <2> QED
    BY <2>1 DEF Init, LoopType
<1>9. Init => OutputType
  BY DEF Init, OutputType, Both
<1>5. Init => PairsType /\ RelayType
  <2>1. <<>> \in Seq([Streams -> Nat]) /\ <<>> \in Seq(Segments)
    BY EmptySeq
  <2> QED
    BY <2>1, AudioAssumption DEF Init, PairsType, RelayType, Segments
<1>6. Init => Phases /\ FilesFit
  BY DEF Init, Phases, FilesFit, LockFree
<1>7. Init => TailIsShort
  BY AudioAssumption DEF Init, TailIsShort, Both, Streams
<1>8. Init => HeardFit /\ OutboxFit
  BY AudioAssumption DEF Init, HeardFit, OutboxFit, Both, Looping
<1> QED
  BY <1>1, <1>2, <1>3, <1>4, <1>5, <1>6, <1>7, <1>8, <1>9 DEF IInv

LEMMA NextIInv == IInv /\ [Next]_vars => IInv'
BY AppTypeStep, CaptureTypeStep, CountsTypeStep, QueueTypeStep, LoopTypeStep,
   PairsTypeStep, OutputTypeStep, RelayTypeStep, PhasesStep, FilesFitStep,
   TailIsShortStep, HeardFitStep, OutboxFitStep, LinesFitStep
   DEF IInv

LEMMA Invariance == Spec => []IInv
BY InitIInv, NextIInv, PTL DEF Spec

-----------------------------------------------------------------------------
(* The theorems.                                                           *)

\* The commands, the threads and the channels keep their types.
THEOREM TypeCorrect == Spec => []TypeOK
<1>1. IInv => TypeOK
  BY DEF IInv, TypeOK, AppType, CaptureType, CountsType, QueueType, LoopType,
         PairsType, OutputType, RelayType
<1> QED
  BY <1>1, Invariance, PTL

\* A start and a stop never strand a capture, a thread or an open file.
THEOREM SessionsAreOwned == Spec => []OwnedWhileRecording
<1>1. IInv => OwnedWhileRecording
  BY DEF IInv, AppType, Phases, FilesFit, OwnedWhileRecording, LockFree, Looping
<1> QED
  BY <1>1, Invariance, PTL

\* However many pairs went through it, the mixer holds back less than a
\* window of the shorter stream.
THEOREM TailStaysShort == Spec => []TailIsShort
<1>1. IInv => TailIsShort
  BY DEF IInv
<1> QED
  BY <1>1, Invariance, PTL

\* Neither a failing disk nor a full channel keeps a pair from a segmenter.
THEOREM PairsAreHeard == Spec => []EveryPairIsHeard
<1>1. IInv => EveryPairIsHeard
  BY DEF IInv, OutputType, HeardFit, EveryPairIsHeard, Unheard, Looping, Both
<1> QED
  BY <1>1, Invariance, PTL
\* The relay gets the segments of all recordings in order, whatever was
\* dropped.
THEOREM RelayedInOrder == Spec => []SegmentsInOrder
<1>1. ASSUME IInv PROVE SegmentsInOrder
  <2> DEFINE line == <<relayed>> \o outbox
  <2>1. <<relayed>> \in Seq(Segments) /\ Len(<<relayed>>) = 1
        /\ outbox \in Seq(Segments)
    BY <1>1 DEF IInv, RelayType
  <2>2. /\ Len(outbox) \in Nat /\ DOMAIN outbox = 1..Len(outbox)
        /\ \A i \in DOMAIN outbox : outbox[i] \in Segments
    BY <2>1, LenProperties, ElementOfSeq
  <2>3. /\ line \in Seq(Segments) /\ Len(line) = 1 + Len(outbox)
        /\ line[1] = relayed
        /\ \A i \in 1..Len(outbox) : line[i + 1] = outbox[i]
    <3>1. /\ line \in Seq(Segments) /\ Len(line) = 1 + Len(outbox)
          /\ \A i \in 1..1 + Len(outbox) :
               line[i] = IF i <= 1 THEN <<relayed>>[i] ELSE outbox[i - 1]
      BY <2>1, ConcatProperties
    <3>2. line[1] = relayed
      BY <2>2, <3>1
    <3>3. \A i \in 1..Len(outbox) : line[i + 1] = outbox[i]
      BY <2>2, <3>1
    <3> QED
      BY <3>1, <3>2, <3>3
  <2>4. DOMAIN line = 1..1 + Len(outbox)
    BY <2>3, LenProperties
  <2>5. \A i \in DOMAIN line : i = 1 \/ (i - 1 \in DOMAIN outbox /\ i > 1
                                        /\ line[i] = outbox[i - 1])
    BY <2>2, <2>3, <2>4
  <2> HIDE DEF line
  <2>6. \A i, j \in DOMAIN line : i < j => Earlier(line[i], line[j])
    BY <1>1, <2>2, <2>3, <2>4, <2>5 DEF IInv, OutboxFit
  <2>7. \A i \in DOMAIN line :
          line[i].rec = recording => line[i].id < counter \/ recording = 0
    BY <1>1, <2>3, <2>5 DEF IInv, OutboxFit
  <2> QED
    BY <2>6, <2>7 DEF line, SegmentsInOrder
<1> QED
  BY <1>1, Invariance, PTL

LEMMA ConcatIncreasing ==
  ASSUME NEW a \in Seq(Nat), NEW b \in Seq(Nat), Increasing(a), Increasing(b),
         \A i \in DOMAIN a, j \in DOMAIN b : a[i] < b[j]
  PROVE  Increasing(a \o b)
<1>1. /\ Len(a) \in Nat /\ DOMAIN a = 1..Len(a)
      /\ Len(b) \in Nat /\ DOMAIN b = 1..Len(b)
  BY LenProperties
<1>2. /\ a \o b \in Seq(Nat) /\ Len(a \o b) = Len(a) + Len(b)
      /\ \A i \in 1..Len(a) + Len(b) :
           (a \o b)[i] = IF i <= Len(a) THEN a[i] ELSE b[i - Len(a)]
  BY ConcatProperties
<1>3. DOMAIN (a \o b) = 1..Len(a) + Len(b)
  BY <1>2, LenProperties
<1> QED
  BY <1>1, <1>2, <1>3 DEF Increasing

\* How many chunks of stream s are pending.
Held(s) == IF pending[s] = 0 THEN 0 ELSE 1

\* No chunk is lost after its channel, none is paired twice, and both streams
\* are paired in order, whatever the timeouts and the drops.
THEOREM StreamsStayInOrder == Spec => []StreamsInOrder
<1>1. ASSUME IInv, thread \in Looping, NEW s \in Streams
      PROVE  Increasing(Line(s)) /\ Len(Line(s)) + dropped[s] = captured[s]
  <2> DEFINE p == [k \in DOMAIN pairs |-> pairs[k][s]]
             q == IF pending[s] = 0 THEN <<>> ELSE <<pending[s]>>
  <2>0. StreamTyped(s)
    BY <1>1, StreamFacts
  <2>1. QueueFits(s) /\ PendingFits(s) /\ PairsFit(s) /\ CountFits(s)
    BY <1>1 DEF IInv, LinesFit, LineFits, Receiving
  <2>2. /\ p \in Seq(Nat) /\ Len(p) = Len(pairs) /\ DOMAIN p = DOMAIN pairs
        /\ \A k \in DOMAIN p : p[k] = pairs[k][s]
    BY <2>0 DEF StreamTyped
  <2>3. /\ q \in Seq(Nat) /\ Len(q) = Held(s) /\ DOMAIN q = 1..Held(s)
        /\ \A k \in DOMAIN q : q[k] = pending[s] /\ pending[s] # 0
    <3>1. CASE pending[s] = 0
      BY <3>1, EmptySeq DEF Held
    <3>2. CASE pending[s] # 0
      BY <3>2, <2>0 DEF Held, StreamTyped
    <3> QED
      BY <3>1, <3>2
  <2> HIDE DEF p, q
  <2>4. Increasing(p) /\ Increasing(q) /\ Increasing(queue[s])
    <3>1. Increasing(p)
      BY <2>1, <2>2 DEF Increasing, PairsFit
    <3>2. Increasing(q)
      BY <2>3 DEF Increasing, Held
    <3>3. Increasing(queue[s])
      BY <2>1 DEF Increasing, QueueFits
    <3> QED
      BY <3>1, <3>2, <3>3
  <2>5. \A i \in DOMAIN p, j \in DOMAIN q : p[i] < q[j]
    BY <2>1, <2>2, <2>3 DEF PairsFit
  <2>6. Increasing(p \o q)
    BY <2>2, <2>3, <2>4, <2>5, ConcatIncreasing
  <2>7. /\ p \o q \in Seq(Nat) /\ Len(p \o q) = Len(p) + Len(q)
        /\ \A i \in 1..Len(p) + Len(q) :
             (p \o q)[i] = IF i <= Len(p) THEN p[i] ELSE q[i - Len(p)]
    BY <2>2, <2>3, ConcatProperties
  <2>8. DOMAIN (p \o q) = 1..Len(p) + Len(q)
    BY <2>7, LenProperties
  <2>9. \A i \in DOMAIN (p \o q) :
          \/ i \in DOMAIN p /\ (p \o q)[i] = p[i]
          \/ i - Len(p) \in DOMAIN q /\ (p \o q)[i] = q[i - Len(p)]
    BY <1>1, <2>2, <2>3, <2>7, <2>8, <2>0 DEF Held, StreamTyped
  <2>10. \A i \in DOMAIN (p \o q), j \in DOMAIN queue[s] : (p \o q)[i] < queue[s][j]
    BY <2>1, <2>2, <2>3, <2>9 DEF PairsFit, PendingFits
  <2>11. Increasing((p \o q) \o queue[s])
    BY <1>1, <2>4, <2>6, <2>7, <2>10, ConcatIncreasing, <2>0 DEF StreamTyped
  <2>12. Len((p \o q) \o queue[s]) = Len(p) + Len(q) + Len(queue[s])
    BY <1>1, <2>7, ConcatProperties, <2>0 DEF StreamTyped
  <2>13. Line(s) = (p \o q) \o queue[s]
    BY DEF Line, p, q
  <2> QED
    <3>1. /\ captured[s] \in Nat /\ dropped[s] \in Nat
          /\ Len(queue[s]) \in Nat /\ Len(pairs) \in Nat
      BY <2>0 DEF StreamTyped
    <3>2. CASE pending[s] = 0
      <4>1. Len(Line(s)) = Len(pairs) + Len(queue[s])
        BY <2>2, <2>3, <2>12, <2>13, <3>1, <3>2 DEF Held
      <4> QED
        BY <2>1, <2>11, <2>13, <3>1, <3>2, <4>1 DEF CountFits
    <3>3. CASE pending[s] # 0
      <4>0. Len(q) = 1
        BY <2>3, <3>3 DEF Held
      <4>1. Len(Line(s)) = Len(pairs) + Len(queue[s]) + 1
        <5>1. Len(Line(s)) = Len(pairs) + 1 + Len(queue[s])
          BY <2>2, <2>12, <2>13, <4>0
        <5>2. Len(pairs) + 1 + Len(queue[s]) = Len(pairs) + Len(queue[s]) + 1
          BY <3>1, OneMore
        <5> QED
          BY <5>1, <5>2
      <4> QED
        BY <2>1, <2>11, <2>13, <3>1, <3>3, <4>1 DEF CountFits
    <3> QED
      BY <3>2, <3>3
<1>2. IInv => StreamsInOrder
  BY <1>1 DEF StreamsInOrder
<1> QED
  BY <1>2, Invariance, PTL
=============================================================================
