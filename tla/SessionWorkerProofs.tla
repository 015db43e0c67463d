------------------------ MODULE SessionWorkerProofs ------------------------
(***************************************************************************)
(* The safety properties of SessionWorker, for every number of segments,   *)
(* batch size, number of attempts, number of recordings and set of stop    *)
(* requests.                                                               *)
(*                                                                         *)
(* The argument: the queue always holds the last segments received, in     *)
(* arrival order, so what left it is a prefix 1..Taken; each segment of    *)
(* that prefix is either in the batch or was published once.  stop() is    *)
(* correct because the loop can end only with an empty queue, when Taken   *)
(* equals received.                                                        *)
(***************************************************************************)
EXTENDS SessionWorker, FiniteSetTheorems, SequenceTheorems, TLAPS

-----------------------------------------------------------------------------
(* The inductive invariant.                                                *)

Taken == received - Len(queue)

\* The queue is the suffix of what was received.
QueueIsSuffix ==
  /\ Len(queue) <= received
  /\ \A i \in 1..Len(queue) : queue[i].n = Taken + i

\* The prefix taken from it is in the batch or answered, and never both.
PrefixAnswered ==
  /\ Emitted \cup InBatch = 1..Taken
  /\ Emitted \cap InBatch = {}

AnsweredOnce ==
  \A i, j \in DOMAIN emitted : emitted[i].seg.n = emitted[j].seg.n => i = j

\* The arrival number identifies a segment of S.
Distinct(S) == \A g, h \in S : g.n = h.n => g = h

BatchIsFinite == IsFiniteSet(batch) /\ Distinct(batch)

NoBatchBetweenRounds == batcher \in {"top", "waiting", "done"} => batch = {}

DataInv ==
  /\ QueueIsSuffix
  /\ PrefixAnswered
  /\ AnsweredOnce
  /\ BatchIsFinite
  /\ NoBatchBetweenRounds

\* Segment ids of one recording grow with arrival; audio.next is above them.
QueueIdsGrow ==
  /\ \A i \in 1..Len(queue) :
       /\ queue[i].rec <= audio.rec
       /\ queue[i].rec = audio.rec => queue[i].id < audio.next
  /\ \A i, j \in 1..Len(queue) :
       i < j /\ queue[i].rec = queue[j].rec => queue[i].id < queue[j].id

BatchIdsGrow ==
  \A g, h \in batch : g.rec = h.rec /\ g.n < h.n => g.id < h.id

\* No transcript of the batch in work, or of a later one, has been published.
TextBeforeBatch ==
  \A i \in DOMAIN emitted, g \in batch :
    emitted[i].kind = "text" => emitted[i].seg.n < g.n

OrderInv ==
  /\ QueueIdsGrow
  /\ BatchIdsGrow
  /\ TextBeforeBatch
  /\ TranscriptsInOrder

\* The loop ends only when asked to, with everything up to the stop taken.
EndsDrained ==
  /\ atStop <= received
  /\ ~stopEvent => \A c \in Stoppers : stopPc[c] \in {"idle", "notFound"}
  /\ batcher = "done" => stopEvent /\ atStop <= Taken

StopSawEnd ==
  \A c \in Stoppers :
    stopPc[c] \in {"awaitIngest", "returned", "raised"}
      => batcher \in {"done", "failed"}

\* A terminal status was set, or read, after one of the tasks failed.
TerminalMeansFailed ==
  /\ status = "failed" \/ poll = "sawTerminal" => "failed" \in {ingest, batcher}
  /\ ~stored => batcher \in {"done", "failed"} \/ ingest = "failed"

ControlInv == EndsDrained /\ StopSawEnd /\ TerminalMeansFailed

IInv == TypeOK /\ DataInv /\ OrderInv /\ ControlInv

-----------------------------------------------------------------------------
(* Lemmas about the operators.                                             *)

\* f has each segment of S at exactly one of the positions 1..m.
Lists(f, m, S) ==
  /\ m \in Nat
  /\ f \in [1..m -> S]
  /\ S = {f[i] : i \in 1..m}
  /\ \A i, j \in 1..m : f[i].n = f[j].n => i = j

\* No segment of S has been published.
Unanswered(S) == \A i \in DOMAIN emitted, g \in S : emitted[i].seg.n # g.n

\* A listing in arrival order is a sequence over S that has every element of
\* S and no segment twice.
LEMMA ByArrivalListing ==
  ASSUME NEW S \in SUBSET Segment, IsFiniteSet(S),
         NEW f \in Listings(S, ByArrival)
  PROVE  Lists(f, Cardinality(S), S)
<1>1. Cardinality(S) \in Nat
  BY FS_CardinalityType
<1>2. /\ f \in [1..Cardinality(S) -> S]
      /\ S = {f[i] : i \in 1..Cardinality(S)}
      /\ \A i, j \in 1..Cardinality(S) : i < j => f[i].n < f[j].n
  BY DEF Listings, ByArrival
<1>3. \A i \in 1..Cardinality(S) : f[i].n \in Nat
  BY <1>2, SessionAssumption DEF Segment
<1> QED
  BY <1>1, <1>2, <1>3 DEF Lists

\* ById is a strict order.
LEMMA ByIdIsStrict ==
  ASSUME NEW g \in Segment
  PROVE  ~ ById(g, g)
BY SessionAssumption DEF ById, Segment

\* The same for a listing in segment_id order, when n identifies a segment.
LEMMA ByIdListing ==
  ASSUME NEW S \in SUBSET Segment, IsFiniteSet(S), Distinct(S),
         NEW f \in Listings(S, ById)
  PROVE  /\ Lists(f, Cardinality(S), S)
         /\ \A i, j \in 1..Cardinality(S) : i < j => ById(f[i], f[j])
<1>1. Cardinality(S) \in Nat
  BY FS_CardinalityType
<1>2. /\ f \in [1..Cardinality(S) -> S]
      /\ S = {f[i] : i \in 1..Cardinality(S)}
      /\ \A i, j \in 1..Cardinality(S) : i < j => ById(f[i], f[j])
  BY DEF Listings
<1>3. ASSUME NEW i \in 1..Cardinality(S), NEW j \in 1..Cardinality(S),
             f[i].n = f[j].n
      PROVE  i = j
  <2>1. f[i] = f[j] /\ f[i] \in Segment
    BY <1>2, <1>3 DEF Distinct
  <2>2. ~ ById(f[i], f[j]) /\ ~ ById(f[j], f[i])
    BY <2>1, ByIdIsStrict
  <2> QED
    BY <2>2, <1>1, <1>2
<1> QED
  BY <1>1, <1>2, <1>3 DEF Lists

\* publish appends, and keeps what was published.
LEMMA PublishAppends ==
  ASSUME emitted \in Seq(Emission),
         NEW m \in Nat, NEW f \in [1..m -> Segment],
         NEW kind \in {"text", "error"}, Publish(f, kind)
  PROVE  /\ emitted' \in Seq(Emission)
         /\ Len(emitted') = Len(emitted) + m
         /\ \A i \in 1..Len(emitted) : emitted'[i] = emitted[i]
         /\ \A i \in 1..m : emitted'[Len(emitted) + i] = [seg |-> f[i], kind |-> kind]
<1> DEFINE new == [i \in 1..m |-> [seg |-> f[i], kind |-> kind]]
<1>1. emitted' = emitted \o new
  BY DEF Publish
<1>2. new \in [1..m -> Emission]
  BY DEF Emission
<1>3. new \in Seq(Emission) /\ Len(new) = m
  BY <1>2, SeqDef, LenProperties
<1>4. /\ emitted \o new \in Seq(Emission)
      /\ Len(emitted \o new) = Len(emitted) + Len(new)
      /\ \A i \in 1..Len(emitted) : (emitted \o new)[i] = emitted[i]
      /\ \A i \in 1..m : (emitted \o new)[Len(emitted) + i] = new[i]
  BY <1>3
<1> QED
  BY <1>1, <1>3, <1>4

\* Publishing the segments of S, none of which was published before, adds
\* exactly them to the answered ones, each once.
LEMMA PublishAnswers ==
  ASSUME emitted \in Seq(Emission), AnsweredOnce,
         NEW S \in SUBSET Segment, Unanswered(S), NEW m, NEW f, Lists(f, m, S),
         NEW kind \in {"text", "error"}, Publish(f, kind)
  PROVE  /\ emitted' \in Seq(Emission)
         /\ Emitted' = Emitted \cup {g.n : g \in S}
         /\ AnsweredOnce'
<1> DEFINE l == Len(emitted)
<1>1. l \in Nat /\ DOMAIN emitted = 1..l
  OBVIOUS
<1>2. m \in Nat /\ f \in [1..m -> S] /\ f \in [1..m -> Segment]
  BY DEF Lists
<1>3. /\ emitted' \in Seq(Emission)
      /\ Len(emitted') = l + m
      /\ \A i \in 1..l : emitted'[i] = emitted[i]
      /\ \A i \in 1..m : emitted'[l + i] = [seg |-> f[i], kind |-> kind]
  BY <1>2, PublishAppends
<1>4. DOMAIN emitted' = 1..(l + m)
  BY <1>1, <1>2, <1>3
<1>5. ASSUME NEW i \in 1..m
      PROVE  emitted'[l + i].seg.n = f[i].n
  <2>1. emitted'[l + i] = [seg |-> f[i], kind |-> kind]
    BY <1>3
  <2> QED
    BY <2>1
<1>6. ASSUME NEW i \in 1..(l + m)
      PROVE  \/ i \in 1..l
             \/ \E j \in 1..m : i = l + j
  <2>1. CASE i <= l
    BY <2>1, <1>1, <1>2
  <2>2. CASE i > l
    <3>1. i - l \in 1..m /\ i = l + (i - l)
      BY <2>2, <1>1, <1>2
    <3> QED
      BY <3>1
  <2> QED
    BY <2>1, <2>2, <1>1, <1>2
<1>7. Emitted' = Emitted \cup {g.n : g \in S}
  <2>1. Emitted' = {emitted'[i].seg.n : i \in 1..(l + m)}
    BY <1>4 DEF Emitted
  <2>2. Emitted = {emitted[i].seg.n : i \in 1..l}
    BY <1>1 DEF Emitted
  <2>3. ASSUME NEW i \in 1..(l + m)
        PROVE  emitted'[i].seg.n \in Emitted \cup {g.n : g \in S}
    <3>1. CASE i \in 1..l
      BY <3>1, <2>2, <1>3
    <3>2. ASSUME NEW j \in 1..m, i = l + j
          PROVE  emitted'[i].seg.n \in {g.n : g \in S}
      BY <3>2, <1>2, <1>5
    <3> QED
      BY <3>1, <3>2, <1>6
  <2>4. ASSUME NEW i \in 1..l
        PROVE  emitted[i].seg.n \in Emitted'
    <3>1. i \in 1..(l + m) /\ emitted'[i] = emitted[i]
      BY <1>1, <1>2, <1>3
    <3> QED
      BY <3>1, <2>1
  <2>5. ASSUME NEW g \in S
        PROVE  g.n \in Emitted'
    <3>1. PICK j \in 1..m : g = f[j]
      BY DEF Lists
    <3>2. l + j \in 1..(l + m)
      BY <1>1, <1>2
    <3> QED
      BY <3>1, <3>2, <1>5, <2>1
  <2>6. Emitted' \subseteq Emitted \cup {g.n : g \in S}
    <3> SUFFICES ASSUME NEW x \in Emitted'
                 PROVE  x \in Emitted \cup {g.n : g \in S}
      OBVIOUS
    <3>1. PICK i \in 1..(l + m) : x = emitted'[i].seg.n
      BY <2>1
    <3> QED
      BY <3>1, <2>3 DEF Lists
  <2>7. Emitted \subseteq Emitted'
    BY <2>2, <2>4
  <2>8. {g.n : g \in S} \subseteq Emitted'
    BY <2>5
  <2> QED
    BY <2>6, <2>7, <2>8
<1>8. AnsweredOnce'
  <2> SUFFICES ASSUME NEW i \in 1..(l + m), NEW j \in 1..(l + m),
                      emitted'[i].seg.n = emitted'[j].seg.n
               PROVE  i = j
    BY <1>4 DEF AnsweredOnce
  <2>1. CASE i \in 1..l /\ j \in 1..l
    <3>1. emitted[i].seg.n = emitted[j].seg.n
      BY <2>1, <1>3
    <3> QED
      BY <3>1, <2>1, <1>1 DEF AnsweredOnce
  <2>2. ASSUME NEW h \in 1..l, NEW k \in 1..m
        PROVE  emitted'[h].seg.n # emitted'[l + k].seg.n
    <3>1. emitted'[h].seg.n = emitted[h].seg.n
      BY <1>3
    <3>2. emitted'[l + k].seg.n = f[k].n /\ f[k] \in S
      BY <1>2, <1>5
    <3>3. h \in DOMAIN emitted
      BY <1>1
    <3> QED
      BY <3>1, <3>2, <3>3 DEF Unanswered
  <2>3. ASSUME NEW h \in 1..m, NEW k \in 1..m, i = l + h, j = l + k
        PROVE  i = j
    <3>1. f[h].n = f[k].n
      BY <2>3, <1>5
    <3> QED
      BY <3>1, <2>3 DEF Lists
  <2> QED
    BY <2>1, <2>2, <2>3, <1>6
<1> QED
  BY <1>3, <1>7, <1>8

\* The first k elements of the queue form a finite set of segments.
LEMMA QueuePrefix ==
  ASSUME queue \in Seq(Segment), NEW k \in Nat, k <= Len(queue)
  PROVE  /\ {queue[i] : i \in 1..k} \in SUBSET Segment
         /\ IsFiniteSet({queue[i] : i \in 1..k})
<1> DEFINE T == {queue[i] : i \in 1..k}
           f == [i \in 1..k |-> queue[i]]
<1>1. T \in SUBSET Segment
  OBVIOUS
<1>2. f \in Surjection(1..k, T)
  BY DEF Surjection
<1>3. IsFiniteSet(1..k)
  BY FS_Interval
<1>4. IsFiniteSet(T)
  BY <1>2, <1>3, FS_Surjection
<1> QED
  BY <1>1, <1>4

-----------------------------------------------------------------------------
(* Type correctness.                                                       *)

\* Publishing a listing of a finite set of segments keeps emitted's type.
LEMMA PublishType ==
  ASSUME emitted \in Seq(Emission), NEW S \in SUBSET Segment, IsFiniteSet(S),
         NEW kind \in {"text", "error"},
         \/ \E f \in Listings(S, ByArrival) : Publish(f, kind)
         \/ /\ Distinct(S)
            /\ \E f \in Listings(S, ById) : Publish(f, kind)
  PROVE  emitted' \in Seq(Emission)
<1>1. CASE \E f \in Listings(S, ByArrival) : Publish(f, kind)
  <2>1. PICK f \in Listings(S, ByArrival) : Publish(f, kind)
    BY <1>1
  <2>2. Cardinality(S) \in Nat /\ f \in [1..Cardinality(S) -> Segment]
    BY ByArrivalListing DEF Lists
  <2> QED
    BY <2>1, <2>2, PublishAppends
<1>2. CASE /\ Distinct(S)
           /\ \E f \in Listings(S, ById) : Publish(f, kind)
  <2>1. PICK f \in Listings(S, ById) : Publish(f, kind)
    BY <1>2
  <2>2. Distinct(S)
    BY <1>2
  <2>3. Lists(f, Cardinality(S), S)
    BY <2>2, ByIdListing
  <2>4. Cardinality(S) \in Nat /\ f \in [1..Cardinality(S) -> Segment]
    BY <2>3 DEF Lists
  <2> QED
    BY <2>1, <2>4, PublishAppends
<1> QED
  BY <1>1, <1>2

\* Every step keeps the variables in their types.
LEMMA TypeStep ==
  ASSUME TypeOK, BatchIsFinite, [Next]_vars
  PROVE  TypeOK'
<1> USE SessionAssumption
<1>1. CASE AudioRestart
  BY <1>1 DEF AudioRestart, TypeOK, outVars, workVars, taskVars, stopVars, entryVars
<1>2. CASE IngestSegment
  <2>1. PICK r \in Rates :
          queue' = Append(queue, [n |-> received + 1, id |-> audio.next,
                                  rec |-> audio.rec, rate |-> r])
    BY <1>2 DEF IngestSegment
  <2>2. [n |-> received + 1, id |-> audio.next, rec |-> audio.rec, rate |-> r]
          \in Segment
    BY <1>2 DEF IngestSegment, TypeOK, Segment
  <2>3. queue' \in Seq(Segment)
    BY <2>1, <2>2 DEF TypeOK
  <2>4. received' \in 0..MaxSegments
    BY <1>2 DEF IngestSegment, TypeOK
  <2>5. audio' \in [rec : 0..MaxRestarts, next : Nat]
    <3>1. audio \in [rec : 0..MaxRestarts, next : Nat]
      BY DEF TypeOK
    <3>2. audio' = [audio EXCEPT !.next = audio.next + 1]
      BY <1>2 DEF IngestSegment
    <3>3. audio.next + 1 \in Nat
      BY <3>1
    <3> QED
      BY <3>1, <3>2, <3>3
  <2> QED
    BY <1>2, <2>3, <2>4, <2>5
    DEF IngestSegment, TypeOK, outVars, taskVars, stopVars, entryVars
<1>3. CASE IngestFails
  BY <1>3 DEF IngestFails, TypeOK, inVars, outVars, workVars, stopVars, entryVars
<1>4. CASE LoopExit
  BY <1>4 DEF LoopExit, TypeOK, inVars, outVars, workVars, stopVars, entryVars
<1>5. CASE LoopWait
  BY <1>5 DEF LoopWait, TypeOK, inVars, outVars, workVars, stopVars, entryVars
<1>6. CASE GetTimeout
  BY <1>6 DEF GetTimeout, TypeOK, inVars, outVars, workVars, stopVars, entryVars
<1>7. CASE CollectBatch
  <2> DEFINE taken(k) == {queue[i] : i \in 1..k}
  <2>1. PICK k \in 1..MaxBatch :
          /\ k <= Len(queue)
          /\ queue' = SubSeq(queue, k + 1, Len(queue))
          /\ \E f \in Listings(taken(k) \ Valid(taken(k)), ByArrival) :
               Publish(f, "error")
          /\ batch' = Valid(taken(k))
          /\ \/ batcher' = "top" /\ attempt' = 0
             \/ batcher' = "engine" /\ attempt' = 1
             \/ batcher' = "failed" /\ attempt' = 0
    BY <1>7 DEF CollectBatch
  <2>2. taken(k) \in SUBSET Segment /\ IsFiniteSet(taken(k))
    <3>1. k \in Nat /\ k <= Len(queue) /\ queue \in Seq(Segment)
      BY <2>1 DEF TypeOK
    <3> QED
      BY <3>1, QueuePrefix
  <2>3. IsFiniteSet(taken(k) \ Valid(taken(k)))
    BY <2>2, FS_Subset DEF Valid
  <2>4. emitted' \in Seq(Emission)
    BY <2>1, <2>2, <2>3, PublishType DEF TypeOK
  <2>5. queue' \in Seq(Segment)
    BY <2>1 DEF TypeOK
  <2>6. batch' \in SUBSET Segment
    BY <2>1, <2>2 DEF Valid
  <2>7. batcher' \in {"top", "engine", "failed"} /\ attempt' \in 0..Attempts
    BY <2>1
  <2> QED
    BY <1>7, <2>4, <2>5, <2>6, <2>7
    DEF CollectBatch, TypeOK, inVars, stopVars, entryVars
<1>8. CASE EngineRetry
  BY <1>8 DEF EngineRetry, MayRetry, TypeOK, inVars, outVars, taskVars,
              stopVars, entryVars
<1>9. CASE EngineGivesUp \/ ResultCountMismatch
  <2>1. BatchFails
    BY <1>9 DEF EngineGivesUp, ResultCountMismatch
  <2>2. emitted' \in Seq(Emission)
    BY <2>1, PublishType DEF BatchFails, FailBatch, TypeOK, BatchIsFinite
  <2> QED
    BY <2>1, <2>2 DEF BatchFails, FailBatch, TypeOK, inVars, stopVars, entryVars
<1>10. CASE EngineReturns
  <2>1. emitted' \in Seq(Emission)
    BY <1>10, PublishType DEF EngineReturns, TypeOK, BatchIsFinite
  <2>2. Cardinality(batch) \in Nat
    BY FS_CardinalityType DEF BatchIsFinite
  <2>3. transcribed' \in Nat
    BY <1>10, <2>2 DEF EngineReturns, TypeOK
  <2> QED
    BY <1>10, <2>1, <2>3 DEF EngineReturns, TypeOK, inVars, stopVars, entryVars
<1>11. CASE EngineCrash
  BY <1>11 DEF EngineCrash, TypeOK, inVars, outVars, workVars, stopVars, entryVars
<1>12. CASE RunFails
  BY <1>12 DEF RunFails, TypeOK, inVars, outVars, workVars, stopVars
<1>13. CASE RunCancelled
  BY <1>13 DEF RunCancelled, TypeOK, inVars, outVars, workVars, stopVars, entryVars
<1>14. ASSUME NEW c \in Stoppers, StopSession(c)
       PROVE  TypeOK'
  BY <1>14 DEF StopSession, TypeOK, inVars, outVars, workVars, taskVars
<1>15. ASSUME NEW c \in Stoppers, StopStep(c)
       PROVE  TypeOK'
  <2>1. CASE StopCancelsIngest(c)
    BY <2>1 DEF StopCancelsIngest, TypeOK, inVars, outVars, workVars, entryVars
  <2>2. CASE StopFinishes(c)
    BY <2>2 DEF StopFinishes, TypeOK, inVars, outVars, workVars, taskVars
  <2> QED
    BY <1>15, <2>1, <2>2 DEF StopStep
<1>16. CASE GetSessionReads \/ GetSessionDiscards \/ Sweep
  BY <1>16 DEF GetSessionReads, GetSessionDiscards, Sweep, TypeOK, inVars,
               outVars, workVars, taskVars, stopVars
<1>17. CASE UNCHANGED vars
  BY <1>17 DEF vars, TypeOK, inVars, outVars, workVars, taskVars, stopVars,
               entryVars
<1> QED
  BY <1>1, <1>2, <1>3, <1>4, <1>5, <1>6, <1>7, <1>8, <1>9, <1>10, <1>11,
     <1>12, <1>13, <1>14, <1>15, <1>16, <1>17
  DEF Next, IngestStep, BatchStep, RunStep

-----------------------------------------------------------------------------
(* Every received segment is in one place.                                 *)

\* A segment received joins the queue behind the others.
LEMMA IngestKeepsData ==
  ASSUME TypeOK, DataInv, IngestSegment
  PROVE  DataInv'
<1>1. PICK r \in Rates :
        queue' = Append(queue, [n |-> received + 1, id |-> audio.next,
                                rec |-> audio.rec, rate |-> r])
  BY DEF IngestSegment
<1> DEFINE new == [n |-> received + 1, id |-> audio.next,
                   rec |-> audio.rec, rate |-> r]
<1>2. received \in Nat /\ queue \in Seq(Segment) /\ received' = received + 1
  BY SessionAssumption DEF TypeOK, IngestSegment
<1>3. new \in Segment
  BY SessionAssumption DEF TypeOK, Segment, IngestSegment
<1>4. /\ Len(queue') = Len(queue) + 1
      /\ \A i \in 1..Len(queue) : queue'[i] = queue[i]
      /\ queue'[Len(queue) + 1] = new
  BY <1>1, <1>2, <1>3
<1>5. Taken' = Taken
  BY <1>2, <1>4 DEF Taken
<1>6. QueueIsSuffix'
  <2>1. Len(queue') <= received'
    BY <1>2, <1>4 DEF DataInv, QueueIsSuffix
  <2>2. ASSUME NEW i \in 1..Len(queue')
        PROVE  queue'[i].n = Taken + i
    <3>1. CASE i \in 1..Len(queue)
      BY <3>1, <1>4 DEF DataInv, QueueIsSuffix
    <3>2. CASE i = Len(queue) + 1
      <4>1. queue'[i].n = received + 1
        BY <3>2, <1>4
      <4> QED
        BY <4>1, <3>2, <1>2 DEF Taken
    <3> QED
      BY <3>1, <3>2, <1>2, <1>4
  <2> QED
    BY <2>1, <2>2, <1>5 DEF QueueIsSuffix
<1>7. UNCHANGED <<batch, emitted, batcher>>
  BY DEF IngestSegment, outVars, taskVars
<1> QED
  BY <1>5, <1>6, <1>7 DEF DataInv, PrefixAnswered, AnsweredOnce, BatchIsFinite,
                          NoBatchBetweenRounds, Emitted, InBatch

\* The first k queued segments move to the batch or are answered at once.
LEMMA CollectKeepsData ==
  ASSUME TypeOK, DataInv, CollectBatch
  PROVE  DataInv'
<1> DEFINE taken(k) == {queue[i] : i \in 1..k}
<1>1. PICK k \in 1..MaxBatch :
        /\ k <= Len(queue)
        /\ queue' = SubSeq(queue, k + 1, Len(queue))
        /\ \E f \in Listings(taken(k) \ Valid(taken(k)), ByArrival) :
             Publish(f, "error")
        /\ batch' = Valid(taken(k))
        /\ \/ Valid(taken(k)) = {} /\ batcher' = "top"
           \/ batcher' \in {"engine", "failed"}
  BY DEF CollectBatch
<1> DEFINE T == taken(k)
           bad == T \ Valid(T)
<1>2. /\ k \in Nat /\ received \in Nat /\ queue \in Seq(Segment)
      /\ Len(queue) \in Nat /\ received' = received
  BY SessionAssumption DEF TypeOK, CollectBatch, inVars
<1>3. T \in SUBSET Segment /\ IsFiniteSet(T) /\ Valid(T) \subseteq T
  BY <1>1, <1>2, QueuePrefix DEF Valid
<1>4. batch = {}
  BY DEF CollectBatch, MayCollect, DataInv, NoBatchBetweenRounds
<1>5. \A i \in 1..k : queue[i].n = Taken + i
  BY <1>1, <1>2 DEF DataInv, QueueIsSuffix
<1>6. Taken \in Nat
  BY <1>2 DEF Taken, DataInv, QueueIsSuffix
<1>7. {g.n : g \in T} = (Taken + 1)..(Taken + k)
  <2>1. ASSUME NEW m \in (Taken + 1)..(Taken + k)
        PROVE  \E i \in 1..k : queue[i].n = m
    <3>1. m - Taken \in 1..k /\ Taken + (m - Taken) = m
      BY <1>2, <1>6
    <3> QED
      BY <3>1, <1>5
  <2>2. \A i \in 1..k : queue[i].n \in (Taken + 1)..(Taken + k)
    BY <1>2, <1>5, <1>6
  <2> QED
    BY <2>1, <2>2
<1>8. Distinct(T)
  BY <1>2, <1>5, <1>6 DEF Distinct
<1>9. Len(queue') = Len(queue) - k /\ Taken' = Taken + k
  <2>1. \A i \in (k + 1)..Len(queue) : queue[i] \in Segment
    BY <1>2
  <2>2. Len(queue') = Len(queue) - k
    BY <2>1, <1>1, <1>2, SubSeqProperties
  <2> QED
    BY <2>2, <1>2 DEF Taken
<1>10. QueueIsSuffix'
  <2>1. ASSUME NEW i \in 1..Len(queue')
        PROVE  queue'[i].n = Taken + k + i
    <3>1. queue'[i] = queue[k + i] /\ k + i \in 1..Len(queue)
      BY <1>1, <1>2, <1>9
    <3>2. queue[k + i].n = Taken + (k + i)
      BY <3>1 DEF DataInv, QueueIsSuffix
    <3> QED
      BY <3>1, <3>2, <1>2, <1>6
  <2>2. Len(queue') <= received'
    BY <1>2, <1>9 DEF DataInv, QueueIsSuffix
  <2> QED
    BY <2>1, <2>2, <1>9 DEF QueueIsSuffix
<1>11. Emitted = 1..Taken
  BY <1>4 DEF DataInv, PrefixAnswered, InBatch
<1>12. Unanswered(bad)
  <2>1. \A i \in DOMAIN emitted : emitted[i].seg.n \in 1..Taken
    BY <1>11 DEF Emitted
  <2>2. \A g \in bad : g.n \in (Taken + 1)..(Taken + k)
    BY <1>7
  <2> QED
    BY <2>1, <2>2, <1>6 DEF Unanswered
<1>13. IsFiniteSet(bad) /\ bad \in SUBSET Segment
  BY <1>3, FS_Subset
<1>14. Emitted' = Emitted \cup {g.n : g \in bad} /\ AnsweredOnce'
  <2>1. PICK f \in Listings(bad, ByArrival) : Publish(f, "error")
    BY <1>1
  <2>2. Lists(f, Cardinality(bad), bad)
    BY <1>13, ByArrivalListing
  <2>3. emitted \in Seq(Emission) /\ AnsweredOnce
    BY DEF TypeOK, DataInv
  <2> QED
    BY <2>1, <2>2, <2>3, <1>12, <1>13, PublishAnswers
<1>15. PrefixAnswered'
  <2>1. InBatch' = {g.n : g \in Valid(T)}
    BY <1>1 DEF InBatch
  <2>2. {g.n : g \in bad} \cup {g.n : g \in Valid(T)} = {g.n : g \in T}
    BY <1>3
  <2>3. 1..(Taken + k) = (1..Taken) \cup ((Taken + 1)..(Taken + k))
    BY <1>2, <1>6
  <2>4. Emitted' \cup InBatch' = 1..Taken'
    BY <2>1, <2>2, <2>3, <1>7, <1>9, <1>11, <1>14
  <2>5. {g.n : g \in bad} \cap {g.n : g \in Valid(T)} = {}
    BY <1>3, <1>8 DEF Distinct
  <2>6. {g.n : g \in Valid(T)} \cap (1..Taken) = {}
    <3>1. {g.n : g \in Valid(T)} \subseteq (Taken + 1)..(Taken + k)
      BY <1>3, <1>7
    <3>2. ((Taken + 1)..(Taken + k)) \cap (1..Taken) = {}
      BY <1>2, <1>6
    <3> QED
      BY <3>1, <3>2
  <2>7. Emitted' \cap InBatch' = {}
    BY <2>1, <2>5, <2>6, <1>11, <1>14
  <2> QED
    BY <2>4, <2>7 DEF PrefixAnswered
<1>16. BatchIsFinite'
  BY <1>1, <1>3, <1>8, FS_Subset DEF BatchIsFinite, Distinct
<1>17. NoBatchBetweenRounds'
  BY <1>1 DEF NoBatchBetweenRounds
<1> QED
  BY <1>10, <1>14, <1>15, <1>16, <1>17 DEF DataInv

\* The batch leaves the engine: each of its segments is answered.
LEMMA AnswerKeepsData ==
  ASSUME TypeOK, DataInv, NEW kind \in {"text", "error"},
         \/ \E f \in Listings(batch, ByArrival) : Publish(f, kind)
         \/ \E f \in Listings(batch, ById) : Publish(f, kind),
         batch' = {}, UNCHANGED <<received, queue>>
  PROVE  DataInv'
<1>1. batch \in SUBSET Segment /\ IsFiniteSet(batch) /\ Distinct(batch)
  BY DEF TypeOK, DataInv, BatchIsFinite
<1>2. PICK f : /\ f \in Listings(batch, ByArrival) \/ f \in Listings(batch, ById)
               /\ Publish(f, kind)
  OBVIOUS
<1>3. Lists(f, Cardinality(batch), batch)
  BY <1>1, <1>2, ByArrivalListing, ByIdListing
<1>4. Unanswered(batch)
  BY DEF DataInv, PrefixAnswered, Emitted, InBatch, Unanswered
<1>5. Emitted' = Emitted \cup {g.n : g \in batch} /\ AnsweredOnce'
  BY <1>1, <1>2, <1>3, <1>4, PublishAnswers DEF TypeOK, DataInv
<1>6. InBatch' = {} /\ Taken' = Taken
  BY DEF InBatch, Taken
<1>7. PrefixAnswered'
  BY <1>5, <1>6 DEF DataInv, PrefixAnswered, InBatch
<1>8. QueueIsSuffix'
  BY <1>6 DEF DataInv, QueueIsSuffix
<1>9. BatchIsFinite' /\ NoBatchBetweenRounds'
  BY FS_EmptySet DEF BatchIsFinite, Distinct, NoBatchBetweenRounds
<1> QED
  BY <1>5, <1>7, <1>8, <1>9 DEF DataInv

\* The steps of the other actions leave the data alone.
LEMMA OthersKeepData ==
  ASSUME DataInv, UNCHANGED <<received, queue, batch, emitted>>,
         batcher' = batcher \/ batch = {} \/ batcher' \in {"engine", "failed"}
  PROVE  DataInv'
<1>1. QueueIsSuffix'
  BY DEF DataInv, QueueIsSuffix, Taken
<1>2. PrefixAnswered'
  BY DEF DataInv, PrefixAnswered, Taken, Emitted, InBatch
<1>3. AnsweredOnce' /\ BatchIsFinite'
  BY DEF DataInv, AnsweredOnce, BatchIsFinite, Distinct
<1>4. NoBatchBetweenRounds'
  BY DEF DataInv, NoBatchBetweenRounds
<1> QED
  BY <1>1, <1>2, <1>3, <1>4 DEF DataInv

\* Every step keeps the segments in one place.
LEMMA DataStep ==
  ASSUME TypeOK, DataInv, [Next]_vars
  PROVE  DataInv'
<1>1. CASE IngestSegment
  BY <1>1, IngestKeepsData
<1>2. CASE CollectBatch
  BY <1>2, CollectKeepsData
<1>3. CASE EngineGivesUp \/ ResultCountMismatch
  BY <1>3, AnswerKeepsData
  DEF EngineGivesUp, ResultCountMismatch, BatchFails, FailBatch, inVars
<1>4. CASE EngineReturns
  BY <1>4, AnswerKeepsData DEF EngineReturns, inVars
<1>5. CASE LoopExit \/ LoopWait \/ GetTimeout
  <2>1. batch = {}
    BY <1>5 DEF LoopExit, LoopWait, GetTimeout, WaitMayExpire, DataInv,
                NoBatchBetweenRounds
  <2> QED
    BY <1>5, <2>1, OthersKeepData
    DEF LoopExit, LoopWait, GetTimeout, inVars, outVars, workVars
<1>6. CASE EngineRetry \/ EngineCrash
  BY <1>6, OthersKeepData
  DEF EngineRetry, EngineCrash, inVars, outVars, workVars, taskVars
<1>7. CASE AudioRestart \/ IngestFails \/ RunFails \/ RunCancelled
  BY <1>7, OthersKeepData
  DEF AudioRestart, IngestFails, RunFails, RunCancelled, inVars, outVars,
      workVars, taskVars
<1>8. ASSUME NEW c \in Stoppers, StopSession(c) \/ StopStep(c)
      PROVE  DataInv'
  BY <1>8, OthersKeepData
  DEF StopSession, StopStep, StopCancelsIngest, StopFinishes, inVars, outVars,
      workVars, taskVars
<1>9. CASE GetSessionReads \/ GetSessionDiscards \/ Sweep
  BY <1>9, OthersKeepData
  DEF GetSessionReads, GetSessionDiscards, Sweep, inVars, outVars, workVars,
      taskVars
<1>10. CASE UNCHANGED vars
  BY <1>10, OthersKeepData DEF vars, inVars, outVars, workVars, taskVars
<1> QED
  BY <1>1, <1>2, <1>3, <1>4, <1>5, <1>6, <1>7, <1>8, <1>9, <1>10
  DEF Next, IngestStep, BatchStep, RunStep

-----------------------------------------------------------------------------
(* Transcripts in order.                                                   *)

\* Error segments do not disturb the order of the transcripts.
LEMMA ErrorsKeepOrder ==
  ASSUME emitted \in Seq(Emission), TranscriptsInOrder,
         NEW m \in Nat, NEW f \in [1..m -> Segment], Publish(f, "error")
  PROVE  /\ TranscriptsInOrder'
         /\ \A i \in DOMAIN emitted' :
              emitted'[i].kind = "text"
                => i \in DOMAIN emitted /\ emitted'[i] = emitted[i]
<1> DEFINE l == Len(emitted)
<1>1. l \in Nat /\ DOMAIN emitted = 1..l
  OBVIOUS
<1>2. /\ emitted' \in Seq(Emission)
      /\ Len(emitted') = l + m
      /\ \A i \in 1..l : emitted'[i] = emitted[i]
      /\ \A i \in 1..m : emitted'[l + i] = [seg |-> f[i], kind |-> "error"]
  BY PublishAppends
<1>3. ASSUME NEW i \in DOMAIN emitted', emitted'[i].kind = "text"
      PROVE  i \in 1..l
  <2>1. i \in 1..(l + m)
    BY <1>2
  <2>2. ASSUME i > l
        PROVE  FALSE
    <3>1. i - l \in 1..m /\ l + (i - l) = i
      BY <2>1, <2>2, <1>1
    <3>2. emitted'[i] = [seg |-> f[i - l], kind |-> "error"]
      BY <3>1, <1>2
    <3> QED
      BY <3>2, <1>3
  <2> QED
    BY <2>1, <2>2, <1>1
<1>4. TranscriptsInOrder'
  BY <1>1, <1>2, <1>3 DEF TranscriptsInOrder
<1> QED
  BY <1>1, <1>2, <1>3, <1>4

\* Ids grow along the queue, also past a segment that joins it.
LEMMA IngestKeepsOrder ==
  ASSUME TypeOK, OrderInv, IngestSegment
  PROVE  OrderInv'
<1>1. PICK r \in Rates :
        queue' = Append(queue, [n |-> received + 1, id |-> audio.next,
                                rec |-> audio.rec, rate |-> r])
  BY DEF IngestSegment
<1> DEFINE new == [n |-> received + 1, id |-> audio.next,
                   rec |-> audio.rec, rate |-> r]
<1>2. /\ queue \in Seq(Segment) /\ new \in Segment
      /\ audio \in [rec : 0..MaxRestarts, next : Nat]
      /\ audio' = [audio EXCEPT !.next = audio.next + 1]
  BY SessionAssumption DEF TypeOK, Segment, IngestSegment
<1>3. audio'.rec = audio.rec /\ audio'.next = audio.next + 1
  BY <1>2
<1>4. /\ Len(queue) \in Nat
      /\ Len(queue') = Len(queue) + 1
      /\ \A i \in 1..Len(queue) : queue'[i] = queue[i]
      /\ queue'[Len(queue) + 1] = new
  BY <1>1, <1>2
<1>5. \A i \in 1..Len(queue) : queue[i].id \in Nat /\ queue[i].rec \in Nat
  <2>1. \A g \in Segment : g.id \in Nat /\ g.rec \in Nat
    BY SessionAssumption DEF Segment
  <2>2. \A i \in 1..Len(queue) : queue[i] \in Segment
    BY <1>2
  <2> QED
    BY <2>1, <2>2
<1>6. \A i \in 1..Len(queue') : i \in 1..Len(queue) \/ i = Len(queue) + 1
  BY <1>4
<1>7. ASSUME NEW i \in 1..Len(queue')
      PROVE  /\ queue'[i].rec <= audio'.rec
             /\ queue'[i].rec = audio'.rec => queue'[i].id < audio'.next
  <2>1. CASE i \in 1..Len(queue)
    BY <2>1, <1>2, <1>3, <1>4, <1>5 DEF OrderInv, QueueIdsGrow
  <2>2. CASE i = Len(queue) + 1
    BY <2>2, <1>2, <1>3, <1>4
  <2> QED
    BY <2>1, <2>2, <1>6
<1>8. ASSUME NEW i \in 1..Len(queue'), NEW j \in 1..Len(queue'), i < j,
             queue'[i].rec = queue'[j].rec
      PROVE  queue'[i].id < queue'[j].id
  <2>1. i \in 1..Len(queue)
    BY <1>4, <1>8
  <2>2. CASE j \in 1..Len(queue)
    BY <2>1, <2>2, <1>4, <1>8 DEF OrderInv, QueueIdsGrow
  <2>3. CASE j = Len(queue) + 1
    <3>1. queue[i].rec = audio.rec /\ queue'[j].id = audio.next
      BY <2>1, <2>3, <1>4, <1>8
    <3> QED
      BY <3>1, <2>1, <1>4 DEF OrderInv, QueueIdsGrow
  <2> QED
    BY <2>2, <2>3, <1>6
<1>9. QueueIdsGrow'
  BY <1>7, <1>8 DEF QueueIdsGrow
<1>10. UNCHANGED <<batch, emitted>>
  BY DEF IngestSegment, outVars
<1>11. BatchIdsGrow' /\ TextBeforeBatch' /\ TranscriptsInOrder'
  BY <1>10 DEF OrderInv, BatchIdsGrow, TextBeforeBatch, TranscriptsInOrder
<1> QED
  BY <1>9, <1>11 DEF OrderInv

\* The batch inherits its order from the queue; the texts published so far
\* are of segments taken before.
LEMMA CollectKeepsOrder ==
  ASSUME TypeOK, DataInv, OrderInv, CollectBatch
  PROVE  OrderInv'
<1> DEFINE taken(k) == {queue[i] : i \in 1..k}
<1>1. PICK k \in 1..MaxBatch :
        /\ k <= Len(queue)
        /\ queue' = SubSeq(queue, k + 1, Len(queue))
        /\ \E f \in Listings(taken(k) \ Valid(taken(k)), ByArrival) :
             Publish(f, "error")
        /\ batch' = Valid(taken(k))
  BY DEF CollectBatch
<1> DEFINE T == taken(k)
           bad == T \ Valid(T)
<1>2. /\ k \in Nat /\ received \in Nat /\ queue \in Seq(Segment)
      /\ Len(queue) \in Nat /\ audio' = audio
  BY SessionAssumption DEF TypeOK, CollectBatch, inVars
<1>3. Taken \in Nat
  BY <1>2 DEF Taken, DataInv, QueueIsSuffix
<1>4. T \in SUBSET Segment /\ IsFiniteSet(T) /\ Valid(T) \subseteq T
  BY <1>1, <1>2, QueuePrefix DEF Valid
<1>5. Cardinality(bad) \in Nat
  BY <1>4, FS_Subset, FS_CardinalityType
<1>6. PICK f \in [1..Cardinality(bad) -> Segment] : Publish(f, "error")
  <2>1. PICK f \in Listings(bad, ByArrival) : Publish(f, "error")
    BY <1>1
  <2>2. f \in [1..Cardinality(bad) -> Segment]
    BY <1>4 DEF Listings
  <2> QED
    BY <2>1, <2>2
<1>7. /\ TranscriptsInOrder'
      /\ \A i \in DOMAIN emitted' :
           emitted'[i].kind = "text"
             => i \in DOMAIN emitted /\ emitted'[i] = emitted[i]
  BY <1>5, <1>6, ErrorsKeepOrder DEF TypeOK, OrderInv
<1>8. QueueIdsGrow'
  <2>1. \A i \in (k + 1)..Len(queue) : queue[i] \in Segment
    BY <1>2
  <2>2. /\ Len(queue') = Len(queue) - k
        /\ \A i \in 1..Len(queue') : queue'[i] = queue[k + i]
    BY <2>1, <1>1, <1>2, SubSeqProperties
  <2>3. \A i \in 1..Len(queue') : k + i \in 1..Len(queue)
    BY <2>2, <1>1, <1>2
  <2>4. ASSUME NEW i \in 1..Len(queue')
        PROVE  /\ queue'[i].rec <= audio.rec
               /\ queue'[i].rec = audio.rec => queue'[i].id < audio.next
    BY <2>2, <2>3 DEF OrderInv, QueueIdsGrow
  <2>5. ASSUME NEW i \in 1..Len(queue'), NEW j \in 1..Len(queue'), i < j,
               queue'[i].rec = queue'[j].rec
        PROVE  queue'[i].id < queue'[j].id
    <3>1. k + i < k + j /\ queue[k + i].rec = queue[k + j].rec
      BY <2>2, <2>5, <1>2
    <3>2. queue[k + i].id < queue[k + j].id
      BY <3>1, <2>3 DEF OrderInv, QueueIdsGrow
    <3> QED
      BY <3>2, <2>2
  <2> QED
    BY <2>4, <2>5, <1>2 DEF QueueIdsGrow
<1>9. \A i \in 1..k : queue[i].n = Taken + i
  BY <1>1, <1>2 DEF DataInv, QueueIsSuffix
<1>10. BatchIdsGrow'
  <2> SUFFICES ASSUME NEW g \in T, NEW h \in T, g.rec = h.rec, g.n < h.n
               PROVE  g.id < h.id
    BY <1>1, <1>4 DEF BatchIdsGrow
  <2>1. PICK i \in 1..k : g = queue[i]
    OBVIOUS
  <2>2. PICK j \in 1..k : h = queue[j]
    OBVIOUS
  <2>3. i < j
    BY <2>1, <2>2, <1>2, <1>3, <1>9
  <2>4. i \in 1..Len(queue) /\ j \in 1..Len(queue)
    BY <1>1, <1>2
  <2> QED
    BY <2>1, <2>2, <2>3, <2>4 DEF OrderInv, QueueIdsGrow
<1>11. TextBeforeBatch'
  <2> SUFFICES ASSUME NEW i \in DOMAIN emitted', NEW g \in T,
                      emitted'[i].kind = "text"
               PROVE  emitted'[i].seg.n < g.n
    BY <1>1, <1>4 DEF TextBeforeBatch
  <2>1. i \in DOMAIN emitted /\ emitted'[i] = emitted[i]
    BY <1>7
  <2>2. emitted[i].seg.n \in 1..Taken
    BY <2>1 DEF DataInv, PrefixAnswered, Emitted
  <2>3. \E j \in 1..k : g.n = Taken + j
    BY <1>9
  <2> QED
    BY <2>1, <2>2, <2>3, <1>2, <1>3
<1> QED
  BY <1>7, <1>8, <1>10, <1>11 DEF OrderInv

\* A batch that failed publishes no transcript.
LEMMA FailKeepsOrder ==
  ASSUME TypeOK, DataInv, OrderInv, BatchFails
  PROVE  OrderInv'
<1>1. PICK f \in Listings(batch, ByArrival) : Publish(f, "error")
  BY DEF BatchFails, FailBatch
<1>2. Cardinality(batch) \in Nat /\ f \in [1..Cardinality(batch) -> Segment]
  BY FS_CardinalityType DEF TypeOK, DataInv, BatchIsFinite, Listings
<1>3. TranscriptsInOrder'
  BY <1>1, <1>2, ErrorsKeepOrder DEF TypeOK, OrderInv
<1>4. QueueIdsGrow' /\ BatchIdsGrow' /\ TextBeforeBatch'
  BY DEF BatchFails, FailBatch, inVars, OrderInv, QueueIdsGrow, BatchIdsGrow,
         TextBeforeBatch
<1> QED
  BY <1>3, <1>4 DEF OrderInv

\* The transcripts of a batch follow the earlier ones, and among those of one
\* recording segment_id order is arrival order.
LEMMA ReturnKeepsOrder ==
  ASSUME TypeOK, DataInv, OrderInv, EngineReturns
  PROVE  OrderInv'
<1>1. PICK f \in Listings(batch, ById) : Publish(f, "text")
  BY DEF EngineReturns
<1> DEFINE l == Len(emitted)
           m == Cardinality(batch)
<1>2. batch \in SUBSET Segment /\ IsFiniteSet(batch) /\ Distinct(batch)
  BY DEF TypeOK, DataInv, BatchIsFinite
<1>3. Lists(f, m, batch) /\ \A i, j \in 1..m : i < j => ById(f[i], f[j])
  BY <1>2, ByIdListing
<1>4. /\ m \in Nat /\ f \in [1..m -> batch] /\ f \in [1..m -> Segment]
      /\ l \in Nat /\ DOMAIN emitted = 1..l
  BY <1>2, <1>3 DEF Lists, TypeOK
<1>5. /\ emitted' \in Seq(Emission)
      /\ Len(emitted') = l + m
      /\ \A i \in 1..l : emitted'[i] = emitted[i]
      /\ \A i \in 1..m : emitted'[l + i] = [seg |-> f[i], kind |-> "text"]
  BY <1>1, <1>4, PublishAppends DEF TypeOK
<1>6. ASSUME NEW i \in 1..m, NEW j \in 1..m, i < j, f[i].rec = f[j].rec
      PROVE  f[i].n < f[j].n
  <2>1. f[i] \in batch /\ f[j] \in batch /\ f[i] \in Segment /\ f[j] \in Segment
    BY <1>4
  <2>2. /\ f[i].n \in Nat /\ f[j].n \in Nat /\ f[i].id \in Nat /\ f[j].id \in Nat
    BY <2>1, SessionAssumption DEF Segment
  <2>3. ById(f[i], f[j])
    BY <1>3, <1>6
  <2>4. f[i].id < f[j].id \/ (f[i].id = f[j].id /\ f[i].n < f[j].n)
    BY <2>3 DEF ById
  <2>5. f[j].n < f[i].n => f[j].id < f[i].id
    BY <2>1, <1>6 DEF OrderInv, BatchIdsGrow
  <2>6. f[i].n # f[j].n
    BY <1>3, <1>6 DEF Lists
  <2> QED
    BY <2>2, <2>4, <2>5, <2>6
<1>7. ASSUME NEW i \in 1..(l + m)
      PROVE  i \in 1..l \/ \E h \in 1..m : i = l + h
  <2>1. CASE i > l
    <3>1. i - l \in 1..m /\ l + (i - l) = i
      BY <1>4, <2>1
    <3> QED
      BY <3>1
  <2> QED
    BY <2>1, <1>4
<1>8. TranscriptsInOrder'
  <2> SUFFICES ASSUME NEW i \in 1..(l + m), NEW j \in 1..(l + m), i < j,
                      emitted'[i].kind = "text", emitted'[j].kind = "text",
                      emitted'[i].seg.rec = emitted'[j].seg.rec
               PROVE  emitted'[i].seg.n < emitted'[j].seg.n
    BY <1>4, <1>5 DEF TranscriptsInOrder
  <2>1. CASE i \in 1..l /\ j \in 1..l
    <3>1. emitted'[i] = emitted[i] /\ emitted'[j] = emitted[j]
      BY <2>1, <1>5
    <3> QED
      BY <3>1, <2>1, <1>4 DEF OrderInv, TranscriptsInOrder
  <2>2. ASSUME i \in 1..l, NEW k \in 1..m, j = l + k
        PROVE  emitted'[i].seg.n < emitted'[j].seg.n
    <3>1. emitted'[i] = emitted[i] /\ f[k] \in batch
      BY <2>2, <1>4, <1>5
    <3>2. emitted'[l + k] = [seg |-> f[k], kind |-> "text"]
      BY <2>2, <1>5
    <3>3. emitted'[j].seg = f[k]
      BY <3>2, <2>2
    <3> QED
      BY <3>1, <3>3, <2>2, <1>4 DEF OrderInv, TextBeforeBatch
  <2>3. ASSUME NEW h \in 1..m, NEW k \in 1..m, i = l + h, j = l + k
        PROVE  emitted'[i].seg.n < emitted'[j].seg.n
    <3>1. /\ emitted'[l + h] = [seg |-> f[h], kind |-> "text"]
          /\ emitted'[l + k] = [seg |-> f[k], kind |-> "text"]
      BY <2>3, <1>5
    <3>2. emitted'[i].seg = f[h] /\ emitted'[j].seg = f[k]
      BY <3>1, <2>3
    <3>3. h < k
      BY <2>3, <1>4
    <3> QED
      BY <3>2, <3>3, <1>6
  <2>4. ASSUME j \in 1..l, NEW h \in 1..m, i = l + h
        PROVE  FALSE
    BY <2>4, <1>4
  <2> QED
    BY <2>1, <2>2, <2>3, <2>4, <1>7
<1>9. QueueIdsGrow' /\ BatchIdsGrow' /\ TextBeforeBatch'
  BY DEF EngineReturns, inVars, OrderInv, QueueIdsGrow, BatchIdsGrow,
         TextBeforeBatch
<1> QED
  BY <1>8, <1>9 DEF OrderInv

\* A new recording is above the recordings of all queued segments.
LEMMA RestartKeepsOrder ==
  ASSUME TypeOK, OrderInv, AudioRestart
  PROVE  OrderInv'
<1>1. /\ UNCHANGED <<queue, batch, emitted>>
      /\ audio'.rec = audio.rec + 1 /\ audio.rec \in Nat
  BY SessionAssumption DEF AudioRestart, TypeOK, outVars, workVars
<1>2. \A i \in 1..Len(queue) : queue[i].rec \in Nat
  <2>1. \A g \in Segment : g.rec \in Nat
    BY SessionAssumption DEF Segment
  <2>2. \A i \in 1..Len(queue) : queue[i] \in Segment
    BY DEF TypeOK
  <2> QED
    BY <2>1, <2>2
<1>3. QueueIdsGrow'
  BY <1>1, <1>2 DEF OrderInv, QueueIdsGrow
<1>4. BatchIdsGrow' /\ TextBeforeBatch' /\ TranscriptsInOrder'
  BY <1>1 DEF OrderInv, BatchIdsGrow, TextBeforeBatch, TranscriptsInOrder
<1> QED
  BY <1>3, <1>4 DEF OrderInv

LEMMA OthersKeepOrder ==
  ASSUME OrderInv, UNCHANGED <<audio, queue, batch, emitted>>
  PROVE  OrderInv'
BY DEF OrderInv, QueueIdsGrow, BatchIdsGrow, TextBeforeBatch, TranscriptsInOrder

\* Every step keeps the order.
LEMMA OrderStep ==
  ASSUME TypeOK, DataInv, OrderInv, [Next]_vars
  PROVE  OrderInv'
<1>1. CASE AudioRestart
  BY <1>1, RestartKeepsOrder
<1>2. CASE IngestSegment
  BY <1>2, IngestKeepsOrder
<1>3. CASE CollectBatch
  BY <1>3, CollectKeepsOrder
<1>4. CASE EngineGivesUp \/ ResultCountMismatch
  BY <1>4, FailKeepsOrder DEF EngineGivesUp, ResultCountMismatch
<1>5. CASE EngineReturns
  BY <1>5, ReturnKeepsOrder
<1>6. CASE LoopExit \/ LoopWait \/ GetTimeout \/ EngineRetry \/ EngineCrash
  BY <1>6, OthersKeepOrder
  DEF LoopExit, LoopWait, GetTimeout, EngineRetry, EngineCrash, inVars,
      outVars, workVars
<1>7. CASE IngestFails \/ RunFails \/ RunCancelled
  BY <1>7, OthersKeepOrder
  DEF IngestFails, RunFails, RunCancelled, inVars, outVars, workVars
<1>8. ASSUME NEW c \in Stoppers, StopSession(c) \/ StopStep(c)
      PROVE  OrderInv'
  BY <1>8, OthersKeepOrder
  DEF StopSession, StopStep, StopCancelsIngest, StopFinishes, inVars, outVars,
      workVars
<1>9. CASE GetSessionReads \/ GetSessionDiscards \/ Sweep
  BY <1>9, OthersKeepOrder
  DEF GetSessionReads, GetSessionDiscards, Sweep, inVars, outVars, workVars
<1>10. CASE UNCHANGED vars
  BY <1>10, OthersKeepOrder DEF vars, inVars, outVars, workVars
<1> QED
  BY <1>1, <1>2, <1>3, <1>4, <1>5, <1>6, <1>7, <1>8, <1>9, <1>10
  DEF Next, IngestStep, BatchStep, RunStep

-----------------------------------------------------------------------------
(* The tasks and the endpoints.                                            *)

\* Queue and batch task: what left the queue only grows.
LEMMA TakenGrows ==
  ASSUME TypeOK, DataInv, [Next]_vars
  PROVE  /\ received \in Nat /\ received' \in Nat /\ Taken \in Nat
         /\ received <= received' /\ Taken <= Taken'
<1>1. /\ received \in Nat /\ queue \in Seq(Segment) /\ Len(queue) \in Nat
      /\ Len(queue) <= received /\ Taken \in Nat
  BY SessionAssumption DEF TypeOK, DataInv, QueueIsSuffix, Taken
<1>2. CASE IngestSegment
  <2>1. PICK r \in Rates :
          queue' = Append(queue, [n |-> received + 1, id |-> audio.next,
                                  rec |-> audio.rec, rate |-> r])
    BY <1>2 DEF IngestSegment
  <2>2. received' = received + 1 /\ Len(queue') = Len(queue) + 1
    BY <1>1, <1>2, <2>1 DEF IngestSegment
  <2> QED
    BY <1>1, <2>2 DEF Taken
<1>3. CASE CollectBatch
  <2>1. PICK k \in 1..MaxBatch :
          k <= Len(queue) /\ queue' = SubSeq(queue, k + 1, Len(queue))
    BY <1>3 DEF CollectBatch
  <2>2. k \in Nat /\ received' = received
    BY <1>3, SessionAssumption DEF CollectBatch, inVars
  <2>3. \A i \in (k + 1)..Len(queue) : queue[i] \in Segment
    BY <1>1, <2>2
  <2>4. Len(queue') = Len(queue) - k
    BY <1>1, <2>1, <2>2, <2>3, SubSeqProperties
  <2> QED
    BY <1>1, <2>2, <2>4 DEF Taken
<1>4. CASE UNCHANGED <<received, queue>>
  BY <1>1, <1>4 DEF Taken
<1> QED
  BY <1>2, <1>3, <1>4
  DEF Next, IngestStep, BatchStep, RunStep, StopStep, AudioRestart,
      IngestFails, LoopExit, LoopWait, GetTimeout, EngineRetry, EngineGivesUp,
      ResultCountMismatch, BatchFails, FailBatch, EngineReturns, EngineCrash,
      RunFails, RunCancelled, StopSession, StopCancelsIngest, StopFinishes,
      GetSessionReads, GetSessionDiscards, Sweep, vars, inVars, workVars

\* Every step keeps the tasks and the endpoints consistent.
LEMMA ControlStep ==
  ASSUME TypeOK, DataInv, ControlInv, [Next]_vars
  PROVE  ControlInv'
<1> USE DEF ControlInv, EndsDrained, StopSawEnd, TerminalMeansFailed, TypeOK
<1>1. /\ received \in Nat /\ received' \in Nat /\ Taken \in Nat
      /\ received <= received' /\ Taken <= Taken' /\ Taken' \in Int
      /\ atStop \in Nat
  BY TakenGrows, SessionAssumption DEF Taken
<1>2. CASE AudioRestart \/ IngestSegment \/ IngestFails
  BY <1>1, <1>2
  DEF AudioRestart, IngestSegment, IngestFails, inVars, outVars, workVars,
      taskVars, stopVars, entryVars
<1>3. CASE LoopExit
  <2>1. stopEvent /\ Len(queue) = 0
    BY <1>3 DEF LoopExit, MayExit
  <2>2. Taken' = received /\ received' = received
    BY <1>1, <1>3, <2>1 DEF LoopExit, inVars, workVars, Taken
  <2> QED
    BY <1>1, <1>3, <2>1, <2>2
    DEF LoopExit, inVars, stopVars, entryVars
<1>4. CASE LoopWait \/ GetTimeout \/ CollectBatch \/ EngineRetry \/ EngineCrash
  BY <1>1, <1>4
  DEF LoopWait, GetTimeout, WaitMayExpire, CollectBatch, MayCollect,
      EngineRetry, EngineCrash, inVars, taskVars, stopVars, entryVars
<1>5. CASE EngineGivesUp \/ ResultCountMismatch \/ EngineReturns
  BY <1>1, <1>5
  DEF EngineGivesUp, ResultCountMismatch, BatchFails, EngineReturns, inVars,
      stopVars, entryVars
<1>6. CASE RunFails \/ RunCancelled
  BY <1>1, <1>6
  DEF RunFails, RunCancelled, inVars, stopVars, entryVars
<1>7. ASSUME NEW c \in Stoppers, StopSession(c)
      PROVE  ControlInv'
  BY <1>1, <1>7 DEF StopSession, inVars, taskVars
<1>8. ASSUME NEW c \in Stoppers, StopCancelsIngest(c)
      PROVE  ControlInv'
  BY <1>1, <1>8 DEF StopCancelsIngest, BatchAwaited, inVars, entryVars
<1>9. ASSUME NEW c \in Stoppers, StopFinishes(c)
      PROVE  ControlInv'
  BY <1>1, <1>9 DEF StopFinishes, inVars, taskVars
<1>10. CASE GetSessionReads \/ GetSessionDiscards \/ Sweep
  BY <1>1, <1>10
  DEF GetSessionReads, GetSessionDiscards, Sweep, IsTerminal, inVars, taskVars,
      stopVars
<1>11. CASE UNCHANGED vars
  BY <1>1, <1>11 DEF vars, inVars, taskVars, stopVars, entryVars
<1> QED
  BY <1>2, <1>3, <1>4, <1>5, <1>6, <1>7, <1>8, <1>9, <1>10, <1>11
  DEF Next, IngestStep, BatchStep, RunStep, StopStep

-----------------------------------------------------------------------------
(* The theorems.                                                           *)

LEMMA InitIInv == Init => IInv
<1> SUFFICES ASSUME Init
             PROVE  IInv
  OBVIOUS
<1> USE SessionAssumption
<1>1. /\ audio = [rec |-> 0, next |-> 0] /\ received = 0 /\ atStop = 0
      /\ queue = <<>> /\ emitted = <<>> /\ batch = {}
      /\ ingest = "running" /\ batcher = "top" /\ runner = "gather"
      /\ stopEvent = FALSE /\ stopPc = [c \in Stoppers |-> "idle"]
      /\ stored = TRUE /\ status = "started" /\ poll = "idle"
      /\ attempt = 0 /\ transcribed = 0
  BY DEF Init
<1>2. received = 0 /\ atStop = 0 /\ attempt = 0 /\ transcribed = 0 /\ batch = {}
  BY <1>1
<1>3. TypeOK
  <2>1. queue \in Seq(Segment) /\ emitted \in Seq(Emission)
    BY <1>1, EmptySeq
  <2>2. audio \in [rec : 0..MaxRestarts, next : Nat]
    BY <1>1
  <2>3. /\ received \in 0..MaxSegments /\ atStop \in 0..MaxSegments
        /\ attempt \in 0..Attempts /\ transcribed \in Nat
        /\ batch \in SUBSET Segment
    BY <1>2
  <2>4. stopPc \in [Stoppers -> {"idle", "awaitBatch", "awaitIngest",
                                 "returned", "raised", "notFound"}]
    BY <1>1
  <2>5. /\ ingest = "running" /\ batcher = "top" /\ runner = "gather"
        /\ stopEvent = FALSE /\ stored = TRUE
        /\ status = "started" /\ poll = "idle"
    BY <1>1
  <2> QED
    BY <2>1, <2>2, <2>3, <2>4, <2>5 DEF TypeOK
<1>4. DataInv
  <2>1. Len(queue) = 0 /\ Taken = 0
    <3>1. Len(queue) = 0
      BY <1>1, EmptySeq
    <3> QED
      BY <1>2, <3>1 DEF Taken
  <2>2. Emitted = {} /\ InBatch = {}
    BY <1>1 DEF Emitted, InBatch
  <2>3. 1..Taken = {}
    BY <2>1
  <2>4. QueueIsSuffix
    BY <1>1, <2>1 DEF QueueIsSuffix
  <2>5. PrefixAnswered
    BY <2>2, <2>3 DEF PrefixAnswered
  <2>6. AnsweredOnce /\ NoBatchBetweenRounds
    BY <1>1 DEF AnsweredOnce, NoBatchBetweenRounds
  <2>7. BatchIsFinite
    BY <1>1, FS_EmptySet DEF BatchIsFinite, Distinct
  <2> QED
    BY <2>4, <2>5, <2>6, <2>7 DEF DataInv
<1>5. OrderInv
  BY <1>1 DEF OrderInv, QueueIdsGrow, BatchIdsGrow, TextBeforeBatch, TranscriptsInOrder
<1>6. ControlInv
  BY <1>1 DEF ControlInv, EndsDrained, StopSawEnd, TerminalMeansFailed
<1> QED
  BY <1>3, <1>4, <1>5, <1>6 DEF IInv

\* The inductive invariant holds in every reachable state.
THEOREM Invariance == Spec => []IInv
<1>1. IInv /\ [Next]_vars => IInv'
  BY TypeStep, DataStep, OrderStep, ControlStep DEF IInv, DataInv
<1> QED
  BY InitIInv, <1>1, PTL DEF Spec

\* Every variable keeps its type, whatever the audio stream, the engine and
\* the requests do.
THEOREM TypeCorrect == Spec => []TypeOK
BY Invariance, PTL DEF IInv

LEMMA QueuedIsSuffix ==
  ASSUME TypeOK, DataInv
  PROVE  Queued = (Taken + 1)..received
<1>1. /\ queue \in Seq(Segment) /\ received \in Nat /\ Len(queue) \in Nat
      /\ DOMAIN queue = 1..Len(queue) /\ Taken \in Nat
      /\ received = Taken + Len(queue)
  BY SessionAssumption DEF TypeOK, DataInv, QueueIsSuffix, Taken
<1>2. \A i \in 1..Len(queue) : queue[i].n = Taken + i
  BY DEF DataInv, QueueIsSuffix
<1>3. ASSUME NEW x \in (Taken + 1)..received
      PROVE  x \in Queued
  <2>1. x - Taken \in 1..Len(queue) /\ Taken + (x - Taken) = x
    BY <1>1
  <2> QED
    BY <2>1, <1>1, <1>2 DEF Queued
<1>4. ASSUME NEW x \in Queued
      PROVE  x \in (Taken + 1)..received
  <2>1. PICK i \in 1..Len(queue) : x = queue[i].n
    BY <1>1 DEF Queued
  <2> QED
    BY <2>1, <1>1, <1>2
<1> QED
  BY <1>3, <1>4

\* Whatever fails and whoever stops the session, each received segment is
\* queued, in the batch, or was published once.
THEOREM SegmentsConserved == Spec => []Conservation
<1>1. IInv => Conservation
  <2> SUFFICES ASSUME IInv
               PROVE  Conservation
    OBVIOUS
  <2>1. Queued = (Taken + 1)..received
    BY QueuedIsSuffix DEF IInv
  <2>2. received \in Nat /\ Taken \in Nat /\ Taken <= received
    BY SessionAssumption
    DEF IInv, TypeOK, DataInv, QueueIsSuffix, Taken
  <2>3. Emitted \cup InBatch = 1..Taken /\ Emitted \cap InBatch = {}
    BY DEF IInv, DataInv, PrefixAnswered
  <2>4. (1..Taken) \cup ((Taken + 1)..received) = 1..received
    BY <2>2
  <2>5. (1..Taken) \cap ((Taken + 1)..received) = {}
    BY <2>2
  <2> QED
    BY <2>1, <2>3, <2>4, <2>5
    DEF Conservation, IInv, DataInv, AnsweredOnce
<1> QED
  BY Invariance, <1>1, PTL

\* stop() has drained the session when it answers, unless the batch task died.
THEOREM StopIsDrained == Spec => []StopDrains
<1>1. IInv => StopDrains
  <2> SUFFICES ASSUME IInv, batcher = "done"
               PROVE  1..atStop \subseteq Emitted
    BY DEF StopDrains
  <2>1. InBatch = {}
    BY DEF IInv, DataInv, NoBatchBetweenRounds, InBatch
  <2>2. Emitted = 1..Taken
    BY <2>1 DEF IInv, DataInv, PrefixAnswered
  <2>3. atStop \in Nat /\ Taken \in Int /\ atStop <= Taken
    BY SessionAssumption
    DEF IInv, ControlInv, EndsDrained, TypeOK, Taken
  <2> QED
    BY <2>2, <2>3
<1> QED
  BY Invariance, <1>1, PTL

\* Transcripts of one recording are published in arrival order.
THEOREM RecordingInOrder == Spec => []TranscriptsInOrder
BY Invariance, PTL DEF IInv, OrderInv

\* A session that can no longer be stopped has ended, or its ingest failed.
THEOREM OrphansExplained == Spec => []OrphanOnlyAfterIngestFailure
<1>1. IInv => OrphanOnlyAfterIngestFailure
  BY DEF IInv, ControlInv, TerminalMeansFailed, OrphanOnlyAfterIngestFailure
<1> QED
  BY Invariance, <1>1, PTL

\* No step publishes a segment after a stop request was answered.
THEOREM StoppedIsQuiet == Spec => QuietAfterStop
<1>1. ASSUME IInv, [Next]_vars,
             \E c \in Stoppers : stopPc[c] \in {"returned", "raised"}
      PROVE  UNCHANGED emitted
  <2>1. batcher \in {"done", "failed"}
    BY <1>1 DEF IInv, ControlInv, StopSawEnd
  <2> QED
    BY <1>1, <2>1
    DEF Next, IngestStep, BatchStep, RunStep, StopStep, AudioRestart,
        IngestSegment, IngestFails, LoopExit, LoopWait, GetTimeout,
        WaitMayExpire, CollectBatch, MayCollect, EngineRetry, EngineGivesUp,
        ResultCountMismatch, EngineReturns, EngineCrash, RunFails,
        RunCancelled, StopSession, StopCancelsIngest, StopFinishes,
        GetSessionReads, GetSessionDiscards, Sweep, vars, outVars
<1>2. IInv /\ [Next]_vars =>
        [(\E c \in Stoppers : stopPc[c] \in {"returned", "raised"})
           => UNCHANGED emitted]_vars
  BY <1>1
<1> QED
  BY Invariance, <1>2, PTL DEF Spec, QuietAfterStop
=============================================================================
