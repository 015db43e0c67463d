---------------------------- MODULE SegmentFeed ----------------------------
(***************************************************************************)
(* The two streams between the services.  On the hop "audio" the audio     *)
(* core broadcasts speech segments (grpc/mod.rs) to a session's            *)
(* AudioCoreClient (grpc_client.py); on the hop "transcripts" the          *)
(* transcription service broadcasts transcripts (grpc_server.py) to the    *)
(* storage service (grpc_subscriber.py).  Both are a server stream that    *)
(* the client opens again whenever it ends; they differ in what a full     *)
(* queue drops, in when the backoff is reset and in the status that        *)
(* storage reports.  A behaviour is one hop with one client.               *)
(***************************************************************************)
EXTENDS Integers, Sequences

CONSTANTS
  MaxItems,         \* bound: items published
  MaxCalls,         \* bound: streams the client opens
  Capacity,         \* _BROADCAST_CAPACITY, BROADCAST_CAPACITY
  WireCapacity,     \* items that fit into the buffers of a connection
  InitialBackoff,   \* seconds
  MaxBackoff

ASSUME FeedAssumption ==
  /\ MaxItems \in Nat
  /\ MaxCalls \in Nat
  /\ Capacity \in Nat \ {0}
  /\ WireCapacity \in Nat \ {0}
  /\ InitialBackoff \in Nat \ {0}
  /\ MaxBackoff \in Nat
  /\ InitialBackoff <= MaxBackoff

VARIABLES
  hop,        \* which of the two streams
  offered,    \* items published so far; item n is the n-th
  call,       \* the server's side of each stream the client opened
  queue,      \* its queue in the broadcast
  since,      \* history: what had been published when it was subscribed
  full,       \* history: what its full queue cost it
  calls,      \* the client's latest stream
  link,       \* where the client is
  wire,       \* on the way to the client in its latest stream
  backoff,    \* seconds before the next attempt
  waited,     \* history: the last wait since a response, or 0
  connected,  \* _status["connected"], of storage
  got,        \* history: what the client received
  had         \* history: how much of it in its earlier streams

server == <<call, queue, since, full>>
client == <<calls, link, wire, backoff, waited, connected, got,
            had>>
vars == <<hop, offered, server, client>>

-----------------------------------------------------------------------------

Calls == 1..MaxCalls

TypeOK ==
  /\ hop \in {"audio", "transcripts"}
  /\ offered \in Nat
  /\ call \in [Calls -> {"none", "sent", "open", "closed"}]
  /\ queue \in [Calls -> Seq(Nat)]
  /\ since \in [Calls -> Nat]
  /\ full \in [Calls -> Nat]
  /\ calls \in 0..MaxCalls
  /\ link \in {"start", "reading", "handling", "sleeping"}
  /\ wire \in Seq(Nat)
  /\ backoff \in InitialBackoff..MaxBackoff
  /\ waited \in 0..MaxBackoff
  /\ connected \in BOOLEAN
  /\ got \in Seq(Nat)
  /\ had \in Nat

Init ==
  /\ hop \in {"audio", "transcripts"}
  /\ offered = 0
  /\ call = [k \in Calls |-> "none"]
  /\ queue = [k \in Calls |-> <<>>]
  /\ since = [k \in Calls |-> 0]
  /\ full = [k \in Calls |-> 0]
  /\ calls = 0
  /\ link = "start"
  /\ wire = <<>>
  /\ backoff = InitialBackoff
  /\ waited = 0
  /\ connected = FALSE
  /\ got = <<>>
  /\ had = 0

-----------------------------------------------------------------------------
(* The server.                                                             *)

Full(k) == Len(queue[k]) >= Capacity

\* What queue k holds after item n.  A full asyncio.Queue refuses the new item;
\* the receiver of a tokio broadcast that lags skips the oldest one.
Queued(k, n) ==
  IF ~Full(k) THEN Append(queue[k], n)
  ELSE IF hop = "audio" THEN Append(Tail(queue[k]), n)
  ELSE queue[k]

\* Mutant: a stream that is being opened gets what came before it.
Listens_Early(k) == call[k] \in {"sent", "open"}

\* Only a subscribed stream takes part in the broadcast.
Listens(k) == call[k] = "open"

\* BroadcastChannel.publish, and the relay's send.
Publish ==
  /\ offered < MaxItems
  /\ offered' = offered + 1
  /\ queue' = [k \in Calls |->
                 IF Listens(k) THEN Queued(k, offered + 1) ELSE queue[k]]
  /\ full' = [k \in Calls |->
                IF Listens(k) /\ Full(k) THEN full[k] + 1 ELSE full[k]]
  /\ UNCHANGED <<hop, call, since, client>>

\* The client still reads from stream k.
Attended(k) == k = calls /\ link \in {"reading", "handling"}

\* Mutant: a subscriber is sent the latest item again.
Backlog_Latest == IF offered = 0 THEN <<>> ELSE <<offered>>

\* What a subscriber finds in its queue; nothing is replayed.
Backlog == <<>>

\* StreamTranscripts and stream_audio begin, however late the call arrives.
Subscribe(k) ==
  /\ call[k] = "sent"
  /\ call' = [call EXCEPT ![k] = "open"]
  /\ queue' = [queue EXCEPT ![k] = Backlog]
  /\ since' = [since EXCEPT ![k] = offered]
  /\ UNCHANGED <<hop, offered, full, client>>

\* The stream hands the head of its queue to the connection; without a client
\* it goes nowhere.
Send(k) ==
  /\ call[k] = "open"
  /\ queue[k] # <<>>
  /\ queue' = [queue EXCEPT ![k] = Tail(@)]
  /\ IF Attended(k)
       THEN /\ Len(wire) < WireCapacity
            /\ wire' = Append(wire, Head(queue[k]))
       ELSE UNCHANGED wire
  /\ UNCHANGED <<hop, offered, call, since, full, calls, link, backoff, waited,
                 connected, got, had>>

\* The server learns that the client of stream k has left: unsubscribe.
Unsubscribe(k) ==
  /\ call[k] \in {"sent", "open"}
  /\ ~Attended(k)
  /\ call' = [call EXCEPT ![k] = "closed"]
  /\ queue' = [queue EXCEPT ![k] = <<>>]
  /\ UNCHANGED <<hop, offered, since, full, client>>

\* The server's process ends and another one begins, with a broadcast that
\* has no subscribers.
Restart ==
  /\ \E k \in Calls : call[k] \in {"sent", "open"}
  /\ call' = [k \in Calls |-> IF call[k] = "none" THEN "none" ELSE "closed"]
  /\ queue' = [k \in Calls |-> <<>>]
  /\ UNCHANGED <<hop, offered, since, full, client>>

-----------------------------------------------------------------------------
(* The client.                                                             *)

\* Mutant: as the other client does.
OpensWith_Initial == InitialBackoff

\* AudioCoreClient resets its backoff once it has a channel, which says nothing
\* about the server; TranscriptionSubscriber does not.
OpensWith == IF hop = "audio" THEN InitialBackoff ELSE backoff

\* The client opens a channel and calls.
Call ==
  /\ link = "start"
  /\ calls < MaxCalls
  /\ calls' = calls + 1
  /\ call' = [call EXCEPT ![calls + 1] = "sent"]
  /\ link' = "reading"
  /\ wire' = <<>>
  /\ backoff' = OpensWith
  /\ had' = Len(got)
  /\ UNCHANGED <<hop, offered, queue, since, full, waited, connected, got>>

\* A response: storage notes that it is connected, and resets its backoff.
Receive ==
  /\ link = "reading"
  /\ wire # <<>>
  /\ link' = "handling"
  /\ got' = Append(got, Head(wire))
  /\ wire' = Tail(wire)
  /\ waited' = 0
  /\ IF hop = "transcripts"
       THEN backoff' = InitialBackoff /\ connected' = TRUE
       ELSE UNCHANGED <<backoff, connected>>
  /\ UNCHANGED <<hop, offered, server, calls, had>>

\* _handle_segment returns; the session has taken the segment.
Handled ==
  /\ link = "handling"
  /\ link' = "reading"
  /\ UNCHANGED <<hop, offered, server, calls, wire, backoff, waited, connected,
                 got, had>>

\* The finally of _stream_once.
EndsWith(failed) == FALSE

\* The stream is over for the client: what is under way in it is lost.
Ends(failed) ==
  /\ link' = "sleeping"
  /\ wire' = <<>>
  /\ connected' = EndsWith(failed)
  /\ UNCHANGED <<hop, offered, server, calls, backoff, waited, got, had>>

\* The connection cannot be made or breaks, or the server ends the stream.
Breaks ==
  /\ link = "reading"
  /\ \E failed \in BOOLEAN : Ends(failed)

\* _handle_segment raises: storage leaves the stream.
HandleFails ==
  /\ hop = "transcripts"
  /\ link = "handling"
  /\ Ends(TRUE)

\* The next wait.
Doubled == IF 2 * backoff < MaxBackoff THEN 2 * backoff ELSE MaxBackoff

\* The wait is over and doubled for the next time.
Awakes ==
  /\ link = "sleeping"
  /\ link' = "start"
  /\ waited' = backoff
  /\ backoff' = Doubled
  /\ UNCHANGED <<hop, offered, server, calls, wire, connected, got, had>>

-----------------------------------------------------------------------------

Next ==
  \/ Publish \/ Restart
  \/ \E k \in Calls : Subscribe(k) \/ Send(k) \/ Unsubscribe(k)
  \/ Call \/ Receive \/ Handled \/ Breaks \/ HandleFails \/ Awakes

Spec == Init /\ [][Next]_vars

-----------------------------------------------------------------------------
(* Properties.                                                             *)

\* Across reconnections, restarts and full queues the client receives what was
\* published in order and never twice.  grpc_subscriber.py:136 calls the stream
\* "at-least-once" and expects a reconnect to deliver again; the servers replay
\* nothing, so what a broken stream had under way is lost: LossyFeed.
Feed == INSTANCE LossyFeed

ImplementsFeed == Feed!Spec

\* grpc_server.py:35 publish, grpc/mod.rs:54: while a stream lasts, each item
\* published since it was subscribed has been received, is on its way, is queued
\* or is one of those that the full queue is known to have lost.
LossesAreLags ==
  calls # 0 /\ Attended(calls) /\ call[calls] = "open" =>
    offered - since[calls]
      = Len(got) - had + Len(wire) + Len(queue[calls]) + full[calls]

\* grpc_subscriber.py:94: the health endpoint never reports a stream that has
\* ended, also when it ended without an error.
ConnectedIsTrue == connected => link \in {"reading", "handling"} /\ got # <<>>

\* Between two waits without a response in between the wait grows to its limit.
WaitsGrow ==
  link = "sleeping" /\ waited # 0 => backoff > waited \/ backoff = MaxBackoff

\* grpc_subscriber.py:75: an open channel "proves nothing about the peer", hence
\* a service that is down is asked less and less often.
StorageBacksOff == hop = "transcripts" => WaitsGrow

\* The same of both clients.
ClientsBackOff == WaitsGrow
=============================================================================
