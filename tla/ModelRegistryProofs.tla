------------------------ MODULE ModelRegistryProofs ------------------------
(***************************************************************************)
(* The safety properties of ModelRegistry, for any models, any number of   *)
(* files and any number of downloads in progress.                          *)
(***************************************************************************)
EXTENDS ModelRegistry, TLAPS

USE DEF Files, Download, GeneratorStates, WorkerStates, registryVars,
        Active, Working, MoreFiles, AllGood, NoDownload

-----------------------------------------------------------------------------
(* The inductive invariant.                                                *)

ActiveHasModel ==
  \A d \in Downloads :
    IF Active(d) THEN dl[d].model \in Models ELSE dl[d] = NoDownload

\* Where the worker can be, by where the generator is.
WorkerFits ==
  \A d \in Downloads :
    /\ dl[d].pc = "reserved" => dl[d].worker = "none"
    /\ dl[d].pc \in {"awaiting", "cleanup"} => dl[d].worker # "none"
    /\ dl[d].pc = "offered" => dl[d].worker = "returned"
    /\ dl[d].worker = "retry" => MoreFiles(d)

OneDownloadPerModel ==
  \A d, e \in Downloads :
    Active(d) /\ Active(e) /\ dl[d].model = dl[e].model => d = e

\* What a worker has accepted stays as it is while the model is reserved.
FetchedAreGood ==
  \A d \in Downloads : Active(d) =>
    \A f \in Files : f < dl[d].file => disk[dl[d].model][f] = "good"

ReturnedIsDone ==
  \A d \in Downloads : dl[d].worker = "returned" =>
    dl[d].model \in cancelled \/ ~MoreFiles(d)

NotAvailableWhileFetched ==
  \A d \in Downloads :
    dl[d].pc \in {"reserved", "awaiting"} \/ Working(d)
      => status[dl[d].model] # "AVAILABLE"

DroppedIsCancelled ==
  \A d \in dropped :
    dl[d].pc \in {"reserved", "awaiting"} => dl[d].model \in cancelled

IInv ==
  /\ TypeOK
  /\ ActiveHasModel
  /\ WorkerFits
  /\ ReservationsAreHeld
  /\ OneDownloadPerModel
  /\ FetchedAreGood
  /\ ReturnedIsDone
  /\ NotAvailableWhileFetched
  /\ AvailableIsVerified
  /\ DroppedIsCancelled

-----------------------------------------------------------------------------
\* A download with some of its fields set is a download.
LEMMA MovedDownload ==
  ASSUME NEW r \in Download, NEW p \in GeneratorStates, NEW w \in WorkerStates
  PROVE  Moved(r, p, w) \in Download
BY DEF Moved

LEMMA WorkerMoved ==
  ASSUME NEW r \in Download, NEW w \in WorkerStates
  PROVE  [r EXCEPT !.worker = w] \in Download
OBVIOUS

LEMMA NextFileDownload ==
  ASSUME NEW r \in Download, r.file + 1 \in 1..(NumFiles + 1)
  PROVE  AtNextFile(r) \in Download
BY DEF AtNextFile

LEMMA DownloadStartsInv ==
  ASSUME IInv, NEW d \in Downloads, NEW m \in Models, DownloadStarts(d, m)
  PROVE  IInv'
<1>1. TypeOK'
  BY RegistryAssumption DEF IInv, TypeOK, ActiveHasModel, DownloadStarts
<1>2. ActiveHasModel'
  BY <1>1, RegistryAssumption DEF IInv, ActiveHasModel, TypeOK,
         DownloadStarts
<1>3. WorkerFits'
  BY <1>1, RegistryAssumption DEF IInv, WorkerFits, TypeOK, DownloadStarts
<1>4. ReservationsAreHeld'
  BY <1>1, RegistryAssumption DEF IInv, ActiveHasModel, ReservationsAreHeld,
         TypeOK, WorkerFits, DownloadStarts
<1>5. OneDownloadPerModel'
  BY <1>1, RegistryAssumption DEF IInv, ActiveHasModel, OneDownloadPerModel,
         ReservationsAreHeld, TypeOK, DownloadStarts
<1>6. FetchedAreGood'
  BY <1>1, RegistryAssumption DEF IInv, FetchedAreGood, TypeOK,
         DownloadStarts
<1>7. ReturnedIsDone'
  BY <1>1, RegistryAssumption DEF IInv, ActiveHasModel, OneDownloadPerModel,
         ReservationsAreHeld, ReturnedIsDone, TypeOK, DownloadStarts
<1>8. NotAvailableWhileFetched'
  BY <1>1, RegistryAssumption DEF IInv, NotAvailableWhileFetched, TypeOK,
         DownloadStarts
<1>9. AvailableIsVerified'
  BY DEF IInv, AvailableIsVerified, DownloadStarts
<1>10. DroppedIsCancelled'
  BY <1>1, RegistryAssumption DEF IInv, ActiveHasModel, DroppedIsCancelled,
         OneDownloadPerModel, ReservationsAreHeld, TypeOK, DownloadStarts
<1> QED
  BY <1>1, <1>2, <1>3, <1>4, <1>5, <1>6, <1>7, <1>8, <1>9, <1>10 DEF IInv

LEMMA WorkerSubmittedInv ==
  ASSUME IInv, NEW d \in Downloads, WorkerSubmitted(d)
  PROVE  IInv'
<1>1. TypeOK'
  BY DEF IInv, TypeOK, WorkerSubmitted, Moved
<1>2. ActiveHasModel'
  BY <1>1, RegistryAssumption DEF IInv, ActiveHasModel, TypeOK,
         WorkerSubmitted, Moved
<1>3. WorkerFits'
  BY <1>1, RegistryAssumption DEF IInv, WorkerFits, TypeOK, WorkerSubmitted, Moved
<1>4. ReservationsAreHeld'
  BY <1>1, RegistryAssumption DEF IInv, ReservationsAreHeld, TypeOK,
         WorkerSubmitted, Moved
<1>5. OneDownloadPerModel'
  BY <1>1, RegistryAssumption DEF IInv, OneDownloadPerModel, TypeOK,
         WorkerSubmitted, Moved
<1>6. FetchedAreGood'
  BY <1>1, RegistryAssumption DEF IInv, FetchedAreGood, TypeOK,
         WorkerSubmitted, Moved
<1>7. ReturnedIsDone'
  BY <1>1, RegistryAssumption DEF IInv, ReturnedIsDone, TypeOK,
         WorkerSubmitted, Moved
<1>8. NotAvailableWhileFetched'
  BY <1>1, RegistryAssumption DEF IInv, NotAvailableWhileFetched, TypeOK,
         WorkerSubmitted, Moved
<1>9. AvailableIsVerified'
  BY DEF IInv, AvailableIsVerified, WorkerSubmitted, Moved
<1>10. DroppedIsCancelled'
  BY DEF IInv, DroppedIsCancelled, WorkerSubmitted, Moved
<1> QED
  BY <1>1, <1>2, <1>3, <1>4, <1>5, <1>6, <1>7, <1>8, <1>9, <1>10 DEF IInv

LEMMA SetupFailsInv ==
  ASSUME IInv, NEW d \in Downloads, SetupFails(d)
  PROVE  IInv'
<1>1. TypeOK'
  BY RegistryAssumption DEF IInv, TypeOK, ActiveHasModel, SetupFails,
         Released
<1>2. ActiveHasModel'
  BY <1>1, RegistryAssumption DEF IInv, ActiveHasModel, TypeOK, SetupFails,
         Released
<1>3. WorkerFits'
  BY <1>1, RegistryAssumption DEF IInv, WorkerFits, TypeOK, SetupFails,
         Released
<1>4. ReservationsAreHeld'
  BY <1>1, RegistryAssumption DEF IInv, ActiveHasModel, OneDownloadPerModel,
         ReservationsAreHeld, TypeOK, SetupFails, Released
<1>5. OneDownloadPerModel'
  BY <1>1, RegistryAssumption DEF IInv, OneDownloadPerModel, TypeOK,
         SetupFails, Released
<1>6. FetchedAreGood'
  BY <1>1, RegistryAssumption DEF IInv, FetchedAreGood, TypeOK, SetupFails,
         Released
<1>7. ReturnedIsDone'
  BY <1>1, RegistryAssumption DEF IInv, ActiveHasModel, OneDownloadPerModel,
         ReservationsAreHeld, ReturnedIsDone, TypeOK, SetupFails, Released
<1>8. NotAvailableWhileFetched'
  BY <1>1, RegistryAssumption DEF IInv, NotAvailableWhileFetched, TypeOK,
         SetupFails, Released
<1>9. AvailableIsVerified'
  BY DEF IInv, AvailableIsVerified, SetupFails, Released
<1>10. DroppedIsCancelled'
  BY <1>1, RegistryAssumption DEF IInv, ActiveHasModel, DroppedIsCancelled,
         OneDownloadPerModel, ReservationsAreHeld, TypeOK, SetupFails,
         Released
<1> QED
  BY <1>1, <1>2, <1>3, <1>4, <1>5, <1>6, <1>7, <1>8, <1>9, <1>10 DEF IInv

LEMMA DownloadSucceedsInv ==
  ASSUME IInv, NEW d \in Downloads, DownloadSucceeds(d)
  PROVE  IInv'
<1>1. TypeOK'
  BY DEF IInv, TypeOK, DownloadSucceeds, Cancelled
<1>2. ActiveHasModel'
  BY DEF IInv, ActiveHasModel, DownloadSucceeds, Cancelled
<1>3. WorkerFits'
  BY DEF IInv, WorkerFits, DownloadSucceeds, Cancelled
<1>4. ReservationsAreHeld'
  BY <1>1, RegistryAssumption DEF IInv, ReservationsAreHeld, TypeOK,
         DownloadSucceeds, Cancelled
<1>5. OneDownloadPerModel'
  BY DEF IInv, OneDownloadPerModel, DownloadSucceeds, Cancelled
<1>6. FetchedAreGood'
  BY DEF IInv, FetchedAreGood, DownloadSucceeds, Cancelled
<1>7. ReturnedIsDone'
  BY DEF IInv, ReturnedIsDone, DownloadSucceeds, Cancelled
<1>8. NotAvailableWhileFetched'
  BY <1>1, RegistryAssumption DEF IInv, ActiveHasModel,
         NotAvailableWhileFetched, OneDownloadPerModel, ReservationsAreHeld,
         TypeOK, DownloadSucceeds, Cancelled
<1>9. AvailableIsVerified'
  BY <1>1, RegistryAssumption DEF IInv, TypeOK, ActiveHasModel, WorkerFits,
         ReservationsAreHeld, OneDownloadPerModel, FetchedAreGood,
         ReturnedIsDone, NotAvailableWhileFetched, AvailableIsVerified,
         DroppedIsCancelled, DownloadSucceeds, Cancelled
<1>10. DroppedIsCancelled'
  BY DEF IInv, DroppedIsCancelled, DownloadSucceeds, Cancelled
<1> QED
  BY <1>1, <1>2, <1>3, <1>4, <1>5, <1>6, <1>7, <1>8, <1>9, <1>10 DEF IInv

LEMMA DownloadStopsInv ==
  ASSUME IInv, NEW d \in Downloads, DownloadStops(d)
  PROVE  IInv'
<1>1. TypeOK'
  BY DEF IInv, TypeOK, DownloadStops, Cancelled
<1>2. ActiveHasModel'
  BY DEF IInv, ActiveHasModel, DownloadStops, Cancelled
<1>3. WorkerFits'
  BY DEF IInv, WorkerFits, DownloadStops, Cancelled
<1>4. ReservationsAreHeld'
  BY <1>1, RegistryAssumption DEF IInv, ReservationsAreHeld, TypeOK,
         DownloadStops, Cancelled
<1>5. OneDownloadPerModel'
  BY DEF IInv, OneDownloadPerModel, DownloadStops, Cancelled
<1>6. FetchedAreGood'
  BY DEF IInv, FetchedAreGood, DownloadStops, Cancelled
<1>7. ReturnedIsDone'
  BY DEF IInv, ReturnedIsDone, DownloadStops, Cancelled
<1>8. NotAvailableWhileFetched'
  BY DEF IInv, NotAvailableWhileFetched, DownloadStops, Cancelled
<1>9. AvailableIsVerified'
  BY DEF IInv, AvailableIsVerified, DownloadStops, Cancelled
<1>10. DroppedIsCancelled'
  BY DEF IInv, DroppedIsCancelled, DownloadStops, Cancelled
<1> QED
  BY <1>1, <1>2, <1>3, <1>4, <1>5, <1>6, <1>7, <1>8, <1>9, <1>10 DEF IInv

LEMMA DownloadRaisesInv ==
  ASSUME IInv, NEW d \in Downloads, DownloadRaises(d)
  PROVE  IInv'
<1>1. TypeOK'
  BY DEF IInv, TypeOK, DownloadRaises
<1>2. ActiveHasModel'
  BY <1>1, RegistryAssumption DEF IInv, ActiveHasModel, TypeOK,
         DownloadRaises
<1>3. WorkerFits'
  BY <1>1, RegistryAssumption DEF IInv, WorkerFits, TypeOK, DownloadRaises
<1>4. ReservationsAreHeld'
  BY <1>1, RegistryAssumption DEF IInv, ReservationsAreHeld, TypeOK,
         DownloadRaises
<1>5. OneDownloadPerModel'
  BY <1>1, RegistryAssumption DEF IInv, OneDownloadPerModel, TypeOK,
         DownloadRaises
<1>6. FetchedAreGood'
  BY <1>1, RegistryAssumption DEF IInv, FetchedAreGood, TypeOK,
         DownloadRaises
<1>7. ReturnedIsDone'
  BY <1>1, RegistryAssumption DEF IInv, ReturnedIsDone, TypeOK,
         DownloadRaises
<1>8. NotAvailableWhileFetched'
  BY <1>1, RegistryAssumption DEF IInv, NotAvailableWhileFetched, TypeOK,
         DownloadRaises
<1>9. AvailableIsVerified'
  BY DEF IInv, AvailableIsVerified, DownloadRaises
<1>10. DroppedIsCancelled'
  BY DEF IInv, DroppedIsCancelled, DownloadRaises
<1> QED
  BY <1>1, <1>2, <1>3, <1>4, <1>5, <1>6, <1>7, <1>8, <1>9, <1>10 DEF IInv

LEMMA ClientLeavesInv ==
  ASSUME IInv, NEW d \in Downloads, ClientLeaves(d)
  PROVE  IInv'
<1>1. TypeOK'
  <2> PICK w \in WorkerStates \ {"none"} :
        dl' = [dl EXCEPT ![d] = Moved(@, "cleanup", w)]
    BY DEF IInv, TypeOK, WorkerFits, ClientLeaves, Moved
  <2>1. dl' \in [Downloads -> Download]
    <3>1. dl \in [Downloads -> Download] /\ dl[d] \in Download
      BY DEF IInv, TypeOK
    <3>2. Moved(dl[d], "cleanup", w) \in Download
      BY <3>1, MovedDownload
    <3> QED
      BY <3>1, <3>2
  <2>2. dl[d].model \in Models
    BY DEF IInv, ActiveHasModel, ClientLeaves, Moved
  <2> QED
    BY <2>1, <2>2 DEF IInv, TypeOK, ClientLeaves, Moved
<1>2. ActiveHasModel'
  BY <1>1, RegistryAssumption DEF IInv, ActiveHasModel, TypeOK, ClientLeaves, Moved
<1>3. WorkerFits'
  <2>1. /\ dl'[d].pc = "cleanup" /\ dl'[d].worker # "none"
        /\ dl'[d].worker = "retry" => dl[d].worker = "retry"
        /\ dl'[d].file = dl[d].file
    BY DEF IInv, TypeOK, WorkerFits, ClientLeaves, Moved
  <2>2. \A e \in Downloads \ {d} : dl'[e] = dl[e]
    BY DEF IInv, TypeOK, ClientLeaves, Moved
  <2> QED
    BY <2>1, <2>2 DEF IInv, WorkerFits
<1>4. ReservationsAreHeld'
  BY <1>1, RegistryAssumption DEF IInv, ReservationsAreHeld, TypeOK,
         ClientLeaves, Moved
<1>5. OneDownloadPerModel'
  BY <1>1, RegistryAssumption DEF IInv, OneDownloadPerModel, TypeOK,
         ClientLeaves, Moved
<1>6. FetchedAreGood'
  BY <1>1, RegistryAssumption DEF IInv, FetchedAreGood, TypeOK, ClientLeaves, Moved
<1>7. ReturnedIsDone'
  BY <1>1, RegistryAssumption DEF IInv, ReturnedIsDone, TypeOK, ClientLeaves, Moved
<1>8. NotAvailableWhileFetched'
  BY <1>1, RegistryAssumption DEF IInv, NotAvailableWhileFetched, TypeOK,
         ClientLeaves, Moved
<1>9. AvailableIsVerified'
  BY DEF IInv, AvailableIsVerified, ClientLeaves, Moved
<1>10. DroppedIsCancelled'
  BY DEF IInv, DroppedIsCancelled, ClientLeaves, Moved
<1> QED
  BY <1>1, <1>2, <1>3, <1>4, <1>5, <1>6, <1>7, <1>8, <1>9, <1>10 DEF IInv

LEMMA ConsumerResumesInv ==
  ASSUME IInv, NEW d \in Downloads, ConsumerResumes(d)
  PROVE  IInv'
<1>1. TypeOK'
  BY DEF IInv, TypeOK, ConsumerResumes
<1>2. ActiveHasModel'
  BY <1>1, RegistryAssumption DEF IInv, ActiveHasModel, TypeOK,
         ConsumerResumes
<1>3. WorkerFits'
  BY <1>1, RegistryAssumption DEF IInv, WorkerFits, TypeOK, ConsumerResumes
<1>4. ReservationsAreHeld'
  BY <1>1, RegistryAssumption DEF IInv, ReservationsAreHeld, TypeOK,
         ConsumerResumes
<1>5. OneDownloadPerModel'
  BY <1>1, RegistryAssumption DEF IInv, OneDownloadPerModel, TypeOK,
         ConsumerResumes
<1>6. FetchedAreGood'
  BY <1>1, RegistryAssumption DEF IInv, FetchedAreGood, TypeOK,
         ConsumerResumes
<1>7. ReturnedIsDone'
  BY <1>1, RegistryAssumption DEF IInv, ReturnedIsDone, TypeOK,
         ConsumerResumes
<1>8. NotAvailableWhileFetched'
  BY <1>1, RegistryAssumption DEF IInv, NotAvailableWhileFetched, TypeOK,
         ConsumerResumes
<1>9. AvailableIsVerified'
  BY DEF IInv, AvailableIsVerified, ConsumerResumes
<1>10. DroppedIsCancelled'
  BY DEF IInv, DroppedIsCancelled, ConsumerResumes
<1> QED
  BY <1>1, <1>2, <1>3, <1>4, <1>5, <1>6, <1>7, <1>8, <1>9, <1>10 DEF IInv

\* The generator of d ends in its finally block, however it leaves the loop.
Ends(d) ==
  /\ dl[d].pc = "cleanup"
  /\ dl[d].worker \in {"returned", "timedOut", "raised"}
  /\ Released(dl[d].model)
  /\ dl' = [dl EXCEPT ![d] = NoDownload]
  /\ UNCHANGED <<disk, status, dropped, damaged>>

LEMMA CleanupInv ==
  ASSUME IInv, NEW d \in Downloads, Ends(d)
  PROVE  IInv'
<1>1. TypeOK'
  BY RegistryAssumption DEF IInv, TypeOK, ActiveHasModel, Ends, Released
<1>2. ActiveHasModel'
  BY <1>1, RegistryAssumption DEF IInv, ActiveHasModel, TypeOK, Ends, Released
<1>3. WorkerFits'
  BY <1>1, RegistryAssumption DEF IInv, WorkerFits, TypeOK, Ends, Released
<1>4. ReservationsAreHeld'
  BY <1>1, RegistryAssumption DEF IInv, ActiveHasModel, OneDownloadPerModel,
         ReservationsAreHeld, TypeOK, Ends, Released
<1>5. OneDownloadPerModel'
  BY <1>1, RegistryAssumption DEF IInv, OneDownloadPerModel, TypeOK,
         Ends, Released
<1>6. FetchedAreGood'
  BY <1>1, RegistryAssumption DEF IInv, FetchedAreGood, TypeOK, Ends, Released
<1>7. ReturnedIsDone'
  BY <1>1, RegistryAssumption DEF IInv, ActiveHasModel, OneDownloadPerModel,
         ReservationsAreHeld, ReturnedIsDone, TypeOK, Ends, Released
<1>8. NotAvailableWhileFetched'
  BY <1>1, RegistryAssumption DEF IInv, NotAvailableWhileFetched, TypeOK,
         Ends, Released
<1>9. AvailableIsVerified'
  BY DEF IInv, AvailableIsVerified, Ends, Released
<1>10. DroppedIsCancelled'
  BY <1>1, RegistryAssumption DEF IInv, ActiveHasModel, DroppedIsCancelled,
         OneDownloadPerModel, ReservationsAreHeld, TypeOK, Ends, Released
<1> QED
  BY <1>1, <1>2, <1>3, <1>4, <1>5, <1>6, <1>7, <1>8, <1>9, <1>10 DEF IInv

LEMMA WorkerStartsInv ==
  ASSUME IInv, NEW d \in Downloads, WorkerStarts(d)
  PROVE  IInv'
<1>1. TypeOK'
  BY DEF IInv, TypeOK, WorkerStarts
<1>2. ActiveHasModel'
  BY <1>1, RegistryAssumption DEF IInv, ActiveHasModel, TypeOK, WorkerFits,
         WorkerStarts
<1>3. WorkerFits'
  BY <1>1, RegistryAssumption DEF IInv, WorkerFits, TypeOK, WorkerStarts
<1>4. ReservationsAreHeld'
  BY <1>1, RegistryAssumption DEF IInv, ReservationsAreHeld, TypeOK,
         WorkerStarts
<1>5. OneDownloadPerModel'
  BY <1>1, RegistryAssumption DEF IInv, OneDownloadPerModel, TypeOK,
         WorkerStarts
<1>6. FetchedAreGood'
  BY <1>1, RegistryAssumption DEF IInv, FetchedAreGood, TypeOK, WorkerStarts
<1>7. ReturnedIsDone'
  BY <1>1, RegistryAssumption DEF IInv, ReturnedIsDone, TypeOK, WorkerStarts
<1>8. NotAvailableWhileFetched'
  BY <1>1, RegistryAssumption DEF IInv, NotAvailableWhileFetched, TypeOK,
         WorkerStarts
<1>9. AvailableIsVerified'
  BY DEF IInv, AvailableIsVerified, WorkerStarts
<1>10. DroppedIsCancelled'
  BY DEF IInv, DroppedIsCancelled, WorkerStarts
<1> QED
  BY <1>1, <1>2, <1>3, <1>4, <1>5, <1>6, <1>7, <1>8, <1>9, <1>10 DEF IInv

LEMMA WorkerReturnsInv ==
  ASSUME IInv, NEW d \in Downloads, WorkerReturns(d)
  PROVE  IInv'
<1>1. TypeOK'
  BY DEF IInv, TypeOK, WorkerReturns
<1>2. ActiveHasModel'
  BY <1>1, RegistryAssumption DEF IInv, ActiveHasModel, TypeOK, WorkerFits,
         WorkerReturns
<1>3. WorkerFits'
  BY <1>1, RegistryAssumption DEF IInv, WorkerFits, TypeOK, WorkerReturns
<1>4. ReservationsAreHeld'
  BY <1>1, RegistryAssumption DEF IInv, ReservationsAreHeld, TypeOK,
         WorkerReturns
<1>5. OneDownloadPerModel'
  BY <1>1, RegistryAssumption DEF IInv, OneDownloadPerModel, TypeOK,
         WorkerReturns
<1>6. FetchedAreGood'
  BY <1>1, RegistryAssumption DEF IInv, FetchedAreGood, TypeOK, WorkerReturns
<1>7. ReturnedIsDone'
  BY <1>1, RegistryAssumption DEF IInv, ReturnedIsDone, TypeOK, WorkerReturns
<1>8. NotAvailableWhileFetched'
  BY <1>1, RegistryAssumption DEF IInv, NotAvailableWhileFetched, TypeOK,
         WorkerReturns
<1>9. AvailableIsVerified'
  BY DEF IInv, AvailableIsVerified, WorkerReturns
<1>10. DroppedIsCancelled'
  BY DEF IInv, DroppedIsCancelled, WorkerReturns
<1> QED
  BY <1>1, <1>2, <1>3, <1>4, <1>5, <1>6, <1>7, <1>8, <1>9, <1>10 DEF IInv

LEMMA WorkerFetchesInv ==
  ASSUME IInv, NEW d \in Downloads, WorkerFetches(d)
  PROVE  IInv'
<1>1. TypeOK'
  <2>1. dl[d].file + 1 \in 1..(NumFiles + 1)
    BY RegistryAssumption DEF IInv, TypeOK, WorkerFits, WorkerFetches, AtNextFile
  <2>2. \/ dl' = [dl EXCEPT ![d] = AtNextFile(@)]
        \/ dl' = [dl EXCEPT ![d].worker = "retry"]
    BY DEF WorkerFetches, AtNextFile
  <2>3. dl' \in [Downloads -> Download]
    <3>1. dl \in [Downloads -> Download] /\ dl[d] \in Download
      BY DEF IInv, TypeOK
    <3>2. AtNextFile(dl[d]) \in Download
      BY <2>1, <3>1, NextFileDownload
    <3>3. [dl[d] EXCEPT !.worker = "retry"] \in Download
      BY <3>1, WorkerMoved DEF WorkerStates
    <3> QED
      BY <2>2, <3>1, <3>2, <3>3
  <2>4. disk' \in [Models -> [Files -> {"absent", "bad", "good"}]]
    <3>1. disk[dl[d].model] \in [Files -> {"absent", "bad", "good"}]
      BY DEF IInv, TypeOK, ActiveHasModel, WorkerFits, WorkerFetches, AtNextFile
    <3>2. PICK found \in {"bad", "good"} :
            disk' = [disk EXCEPT ![dl[d].model][dl[d].file] = found]
      BY DEF WorkerFetches, AtNextFile
    <3>3. [disk[dl[d].model] EXCEPT ![dl[d].file] = found]
            \in [Files -> {"absent", "bad", "good"}]
      BY <3>1
    <3> QED
      BY <3>2, <3>3 DEF IInv, TypeOK
  <2> QED
    BY <2>3, <2>4 DEF IInv, TypeOK, WorkerFetches, AtNextFile
<1>2. ActiveHasModel'
  BY <1>1, RegistryAssumption DEF IInv, ActiveHasModel, TypeOK, WorkerFits,
         WorkerFetches, AtNextFile
<1>3. WorkerFits'
  BY <1>1, RegistryAssumption DEF IInv, WorkerFits, TypeOK, WorkerFetches, AtNextFile
<1>4. ReservationsAreHeld'
  BY <1>1, RegistryAssumption DEF IInv, ReservationsAreHeld, TypeOK,
         WorkerFetches, AtNextFile
<1>5. OneDownloadPerModel'
  BY <1>1, RegistryAssumption DEF IInv, OneDownloadPerModel, TypeOK,
         WorkerFetches, AtNextFile
<1>6. FetchedAreGood'
  BY <1>1, RegistryAssumption DEF IInv, ActiveHasModel, FetchedAreGood,
         OneDownloadPerModel, ReservationsAreHeld, TypeOK, WorkerFetches, AtNextFile
<1>7. ReturnedIsDone'
  BY <1>1, RegistryAssumption DEF IInv, ReturnedIsDone, TypeOK, WorkerFetches, AtNextFile
<1>8. NotAvailableWhileFetched'
  BY <1>1, RegistryAssumption DEF IInv, NotAvailableWhileFetched, TypeOK,
         WorkerFetches, AtNextFile
<1>9. AvailableIsVerified'
  BY <1>1, RegistryAssumption DEF IInv, TypeOK, ActiveHasModel, WorkerFits,
         ReservationsAreHeld, OneDownloadPerModel, FetchedAreGood,
         ReturnedIsDone, NotAvailableWhileFetched, AvailableIsVerified,
         DroppedIsCancelled, WorkerFetches, AtNextFile
<1>10. DroppedIsCancelled'
  BY DEF IInv, DroppedIsCancelled, WorkerFetches, AtNextFile
<1> QED
  BY <1>1, <1>2, <1>3, <1>4, <1>5, <1>6, <1>7, <1>8, <1>9, <1>10 DEF IInv

LEMMA WorkerFetchesAgainInv ==
  ASSUME IInv, NEW d \in Downloads, WorkerFetchesAgain(d)
  PROVE  IInv'
<1>1. TypeOK'
  <2>1. dl[d].file + 1 \in 1..(NumFiles + 1)
    BY RegistryAssumption DEF IInv, TypeOK, WorkerFits, WorkerFetchesAgain, AtNextFile
  <2>2. \/ dl' = [dl EXCEPT ![d] = AtNextFile(@)]
        \/ dl' = [dl EXCEPT ![d].worker = "raised"]
    BY DEF WorkerFetchesAgain, AtNextFile, Accepted
  <2>3. dl' \in [Downloads -> Download]
    <3>1. dl \in [Downloads -> Download] /\ dl[d] \in Download
      BY DEF IInv, TypeOK
    <3>2. AtNextFile(dl[d]) \in Download
      BY <2>1, <3>1, NextFileDownload
    <3>3. [dl[d] EXCEPT !.worker = "raised"] \in Download
      BY <3>1, WorkerMoved DEF WorkerStates
    <3> QED
      BY <2>2, <3>1, <3>2, <3>3
  <2>4. disk' \in [Models -> [Files -> {"absent", "bad", "good"}]]
    <3>1. disk[dl[d].model] \in [Files -> {"absent", "bad", "good"}]
      BY DEF IInv, TypeOK, ActiveHasModel, WorkerFits, WorkerFetchesAgain, AtNextFile
    <3>2. PICK found \in {"bad", "good"} :
            disk' = [disk EXCEPT ![dl[d].model][dl[d].file] = found]
      BY DEF WorkerFetchesAgain, AtNextFile
    <3>3. [disk[dl[d].model] EXCEPT ![dl[d].file] = found]
            \in [Files -> {"absent", "bad", "good"}]
      BY <3>1
    <3> QED
      BY <3>2, <3>3 DEF IInv, TypeOK
  <2> QED
    BY <2>3, <2>4 DEF IInv, TypeOK, WorkerFetchesAgain, AtNextFile
<1>2. ActiveHasModel'
  BY <1>1, RegistryAssumption DEF IInv, ActiveHasModel, TypeOK, WorkerFits,
         WorkerFetchesAgain, AtNextFile, Accepted
<1>3. WorkerFits'
  BY <1>1, RegistryAssumption DEF IInv, WorkerFits, TypeOK,
         WorkerFetchesAgain, AtNextFile, Accepted
<1>4. ReservationsAreHeld'
  BY <1>1, RegistryAssumption DEF IInv, ReservationsAreHeld, TypeOK,
         WorkerFetchesAgain, AtNextFile, Accepted
<1>5. OneDownloadPerModel'
  BY <1>1, RegistryAssumption DEF IInv, OneDownloadPerModel, TypeOK,
         WorkerFetchesAgain, AtNextFile, Accepted
<1>6. FetchedAreGood'
  <2> SUFFICES ASSUME NEW e \in Downloads, Active(e)', NEW f \in Files, f < dl'[e].file
               PROVE  disk'[dl'[e].model][f] = "good"
    BY DEF FetchedAreGood
  <2>1. Active(e) /\ Active(d) /\ dl'[e].model = dl[e].model
    BY DEF IInv, TypeOK, ActiveHasModel, WorkerFetchesAgain, AtNextFile
  <2>2. CASE e = d
    <3>1. CASE f < dl[d].file
      BY <2>1, <2>2, <3>1 DEF IInv, TypeOK, ActiveHasModel, FetchedAreGood, WorkerFetchesAgain, AtNextFile
    <3>2. CASE ~(f < dl[d].file)
      <4>1. f = dl[d].file /\ dl'[d].file = dl[d].file + 1
        BY <2>2, <3>2, RegistryAssumption DEF IInv, TypeOK, WorkerFetchesAgain, AtNextFile
      <4>2. PICK found \in {"bad", "good"} :
              /\ disk' = [disk EXCEPT ![dl[d].model][dl[d].file] = found]
              /\ dl' = IF Accepted(found)
                       THEN [dl EXCEPT ![d] = AtNextFile(@)]
                       ELSE [dl EXCEPT ![d].worker = "raised"]
        BY DEF WorkerFetchesAgain
      <4>3. found = "good"
        <5>1. dl[d] \in Download /\ dl[d].file + 1 # dl[d].file
          BY RegistryAssumption DEF IInv, TypeOK
        <5>2. ~Accepted(found) => dl'[d].file = dl[d].file
          BY <4>2 DEF IInv, TypeOK
        <5> QED
          BY <4>1, <5>1, <5>2 DEF Accepted
      <4>4. disk'[dl[d].model][dl[d].file] = "good"
        BY <2>1, <4>1, <4>2, <4>3 DEF IInv, TypeOK, ActiveHasModel
      <4> QED
        BY <2>1, <2>2, <4>1, <4>4
    <3> QED
      BY <3>1, <3>2
  <2>3. CASE e # d
    <3>1. dl[e].model # dl[d].model /\ dl'[e] = dl[e]
      BY <2>1, <2>3 DEF IInv, TypeOK, OneDownloadPerModel, WorkerFetchesAgain, AtNextFile, Accepted
    <3> QED
      BY <2>1, <3>1 DEF IInv, TypeOK, ActiveHasModel, FetchedAreGood, WorkerFetchesAgain, AtNextFile
  <2> QED
    BY <2>2, <2>3
<1>7. ReturnedIsDone'
  BY <1>1, RegistryAssumption DEF IInv, ReturnedIsDone, TypeOK,
         WorkerFetchesAgain, AtNextFile, Accepted
<1>8. NotAvailableWhileFetched'
  BY <1>1, RegistryAssumption DEF IInv, NotAvailableWhileFetched, TypeOK,
         WorkerFetchesAgain, AtNextFile, Accepted
<1>9. AvailableIsVerified'
  BY <1>1, RegistryAssumption DEF IInv, TypeOK, ActiveHasModel, WorkerFits,
         ReservationsAreHeld, OneDownloadPerModel, FetchedAreGood,
         ReturnedIsDone, NotAvailableWhileFetched, AvailableIsVerified,
         DroppedIsCancelled, WorkerFetchesAgain, AtNextFile, Accepted
<1>10. DroppedIsCancelled'
  BY DEF IInv, DroppedIsCancelled, WorkerFetchesAgain, AtNextFile, Accepted
<1> QED
  BY <1>1, <1>2, <1>3, <1>4, <1>5, <1>6, <1>7, <1>8, <1>9, <1>10 DEF IInv

LEMMA WorkerFailsInv ==
  ASSUME IInv, NEW d \in Downloads, WorkerFails(d)
  PROVE  IInv'
<1>1. TypeOK'
  <2>1. PICK end \in WorkerStates : dl' = [dl EXCEPT ![d].worker = end]
    BY DEF WorkerFails, WorkerStates
  <2>2. dl \in [Downloads -> Download] /\ dl[d] \in Download
    BY DEF IInv, TypeOK
  <2>3. [dl[d] EXCEPT !.worker = end] \in Download
    BY <2>2, WorkerMoved
  <2>4. dl' \in [Downloads -> Download]
    BY <2>1, <2>2, <2>3
  <2> QED
    BY <2>4 DEF IInv, TypeOK, WorkerFails
<1>2. ActiveHasModel'
  BY <1>1, RegistryAssumption DEF IInv, ActiveHasModel, TypeOK, WorkerFits,
         WorkerFails
<1>3. WorkerFits'
  BY <1>1, RegistryAssumption DEF IInv, WorkerFits, TypeOK, WorkerFails
<1>4. ReservationsAreHeld'
  BY <1>1, RegistryAssumption DEF IInv, ReservationsAreHeld, TypeOK,
         WorkerFails
<1>5. OneDownloadPerModel'
  BY <1>1, RegistryAssumption DEF IInv, OneDownloadPerModel, TypeOK,
         WorkerFails
<1>6. FetchedAreGood'
  BY <1>1, RegistryAssumption DEF IInv, FetchedAreGood, TypeOK, WorkerFails
<1>7. ReturnedIsDone'
  BY <1>1, RegistryAssumption DEF IInv, ReturnedIsDone, TypeOK, WorkerFails
<1>8. NotAvailableWhileFetched'
  BY <1>1, RegistryAssumption DEF IInv, NotAvailableWhileFetched, TypeOK,
         WorkerFails
<1>9. AvailableIsVerified'
  BY DEF IInv, AvailableIsVerified, WorkerFails
<1>10. DroppedIsCancelled'
  BY DEF IInv, DroppedIsCancelled, WorkerFails
<1> QED
  BY <1>1, <1>2, <1>3, <1>4, <1>5, <1>6, <1>7, <1>8, <1>9, <1>10 DEF IInv

LEMMA CancelDownloadInv ==
  ASSUME IInv, NEW m \in Models, CancelDownload(m)
  PROVE  IInv'
<1>1. TypeOK'
  BY DEF IInv, TypeOK, CancelDownload
<1>2. ActiveHasModel'
  BY <1>1, RegistryAssumption DEF IInv, ActiveHasModel, TypeOK,
         CancelDownload
<1>3. WorkerFits'
  BY <1>1, RegistryAssumption DEF IInv, WorkerFits, TypeOK, CancelDownload
<1>4. ReservationsAreHeld'
  BY <1>1, RegistryAssumption DEF IInv, ReservationsAreHeld, TypeOK,
         CancelDownload
<1>5. OneDownloadPerModel'
  BY <1>1, RegistryAssumption DEF IInv, OneDownloadPerModel, TypeOK,
         CancelDownload
<1>6. FetchedAreGood'
  BY <1>1, RegistryAssumption DEF IInv, FetchedAreGood, TypeOK,
         CancelDownload
<1>7. ReturnedIsDone'
  BY <1>1, RegistryAssumption DEF IInv, ReturnedIsDone, TypeOK,
         CancelDownload
<1>8. NotAvailableWhileFetched'
  BY <1>1, RegistryAssumption DEF IInv, NotAvailableWhileFetched, TypeOK,
         CancelDownload
<1>9. AvailableIsVerified'
  BY DEF IInv, AvailableIsVerified, CancelDownload
<1>10. DroppedIsCancelled'
  BY DEF IInv, DroppedIsCancelled, CancelDownload
<1> QED
  BY <1>1, <1>2, <1>3, <1>4, <1>5, <1>6, <1>7, <1>8, <1>9, <1>10 DEF IInv

LEMMA RemoveInv ==
  ASSUME IInv, NEW m \in Models, Remove(m)
  PROVE  IInv'
<1>1. TypeOK'
  BY DEF IInv, TypeOK, Remove, MayRemove
<1>2. ActiveHasModel'
  BY <1>1, RegistryAssumption DEF IInv, ActiveHasModel, TypeOK, Remove,
         MayRemove
<1>3. WorkerFits'
  BY <1>1, RegistryAssumption DEF IInv, WorkerFits, TypeOK, Remove, MayRemove
<1>4. ReservationsAreHeld'
  BY <1>1, RegistryAssumption DEF IInv, ReservationsAreHeld, TypeOK, Remove,
         MayRemove
<1>5. OneDownloadPerModel'
  BY <1>1, RegistryAssumption DEF IInv, OneDownloadPerModel, TypeOK, Remove,
         MayRemove
<1>6. FetchedAreGood'
  BY <1>1, RegistryAssumption DEF IInv, ActiveHasModel, FetchedAreGood,
         OneDownloadPerModel, ReservationsAreHeld, TypeOK, Remove, MayRemove
<1>7. ReturnedIsDone'
  BY <1>1, RegistryAssumption DEF IInv, ReturnedIsDone, TypeOK, Remove,
         MayRemove
<1>8. NotAvailableWhileFetched'
  BY <1>1, RegistryAssumption DEF IInv, NotAvailableWhileFetched, TypeOK,
         Remove, MayRemove
<1>9. AvailableIsVerified'
  BY <1>1, RegistryAssumption DEF IInv, AvailableIsVerified, TypeOK, Remove,
         MayRemove
<1>10. DroppedIsCancelled'
  BY DEF IInv, DroppedIsCancelled, Remove, MayRemove
<1> QED
  BY <1>1, <1>2, <1>3, <1>4, <1>5, <1>6, <1>7, <1>8, <1>9, <1>10 DEF IInv

LEMMA RemoveFailsInv ==
  ASSUME IInv, NEW m \in Models, RemoveFails(m)
  PROVE  IInv'
<1>1. TypeOK'
  BY RegistryAssumption DEF IInv, TypeOK, ActiveHasModel, RemoveFails,
         MayRemove
<1>2. ActiveHasModel'
  BY <1>1, RegistryAssumption DEF IInv, ActiveHasModel, TypeOK, RemoveFails,
         MayRemove
<1>3. WorkerFits'
  BY <1>1, RegistryAssumption DEF IInv, WorkerFits, TypeOK, RemoveFails,
         MayRemove
<1>4. ReservationsAreHeld'
  BY <1>1, RegistryAssumption DEF IInv, ReservationsAreHeld, TypeOK,
         RemoveFails, MayRemove
<1>5. OneDownloadPerModel'
  BY <1>1, RegistryAssumption DEF IInv, OneDownloadPerModel, TypeOK,
         RemoveFails, MayRemove
<1>6. FetchedAreGood'
  BY <1>1, RegistryAssumption DEF IInv, ActiveHasModel, FetchedAreGood,
         OneDownloadPerModel, ReservationsAreHeld, TypeOK, RemoveFails,
         MayRemove
<1>7. ReturnedIsDone'
  BY <1>1, RegistryAssumption DEF IInv, ReturnedIsDone, TypeOK, RemoveFails,
         MayRemove
<1>8. NotAvailableWhileFetched'
  BY <1>1, RegistryAssumption DEF IInv, NotAvailableWhileFetched, TypeOK,
         RemoveFails, MayRemove
<1>9. AvailableIsVerified'
  BY DEF IInv, AvailableIsVerified, RemoveFails, MayRemove
<1>10. DroppedIsCancelled'
  BY DEF IInv, DroppedIsCancelled, RemoveFails, MayRemove
<1> QED
  BY <1>1, <1>2, <1>3, <1>4, <1>5, <1>6, <1>7, <1>8, <1>9, <1>10 DEF IInv

LEMMA RestartInv ==
  ASSUME IInv, Restart
  PROVE  IInv'
<1>1. TypeOK'
  BY RegistryAssumption DEF IInv, TypeOK, ActiveHasModel, Restart, Scanned
<1>2. ActiveHasModel'
  BY <1>1, RegistryAssumption DEF IInv, ActiveHasModel, TypeOK, Restart,
         Scanned
<1>3. WorkerFits'
  BY DEF IInv, WorkerFits, Restart, Scanned
<1>4. ReservationsAreHeld'
  BY <1>1, RegistryAssumption DEF IInv, ReservationsAreHeld, TypeOK, Restart,
         Scanned
<1>5. OneDownloadPerModel'
  BY <1>1, RegistryAssumption DEF IInv, OneDownloadPerModel, TypeOK, Restart,
         Scanned
<1>6. FetchedAreGood'
  BY DEF IInv, FetchedAreGood, Restart, Scanned
<1>7. ReturnedIsDone'
  BY DEF IInv, ReturnedIsDone, Restart, Scanned
<1>8. NotAvailableWhileFetched'
  BY <1>1, RegistryAssumption DEF IInv, NotAvailableWhileFetched, TypeOK,
         Restart, Scanned
<1>9. AvailableIsVerified'
  BY DEF IInv, AvailableIsVerified, Restart, Scanned
<1>10. DroppedIsCancelled'
  BY DEF IInv, DroppedIsCancelled, Restart, Scanned
<1> QED
  BY <1>1, <1>2, <1>3, <1>4, <1>5, <1>6, <1>7, <1>8, <1>9, <1>10 DEF IInv

-----------------------------------------------------------------------------
(* The theorems.                                                           *)

LEMMA InitInv ==
  ASSUME Init
  PROVE  IInv
<1>1. TypeOK /\ AvailableIsVerified
  BY RegistryAssumption DEF Init, TypeOK, AvailableIsVerified, Scanned
<1>2. \A d \in Downloads : dl[d] = NoDownload
  BY DEF Init
<1>3. \A m \in Models : status[m] # "DOWNLOADING"
  BY DEF Init, Scanned
<1>4. ReservationsAreHeld
  BY <1>2, <1>3 DEF Init, ReservationsAreHeld
<1> QED
  BY <1>1, <1>2, <1>4
     DEF Init, IInv, ActiveHasModel, WorkerFits, OneDownloadPerModel,
         FetchedAreGood, ReturnedIsDone, NotAvailableWhileFetched,
         DroppedIsCancelled

LEMMA StepInv ==
  ASSUME IInv, [Next]_vars
  PROVE  IInv'
<1>1. CASE UNCHANGED vars
  BY <1>1 DEF vars, IInv, TypeOK, ActiveHasModel, WorkerFits,
              ReservationsAreHeld, OneDownloadPerModel, FetchedAreGood,
              ReturnedIsDone, NotAvailableWhileFetched, AvailableIsVerified,
              DroppedIsCancelled
<1>2. ASSUME NEW d \in Downloads, NEW m \in Models, DownloadStarts(d, m)
      PROVE  IInv'
  BY <1>2, DownloadStartsInv
<1>3. ASSUME NEW d \in Downloads,
                   GeneratorStep(d) \/ ClientLeaves(d) \/ CleanupCancelled(d)
      PROVE  IInv'
  <2>1. CleanupEnds(d) \/ CleanupCancelled(d) => Ends(d)
    BY DEF CleanupEnds, CleanupCancelled, Stuck, WorkerEnded, Ends
  <2> QED
    BY <1>3, <2>1, WorkerSubmittedInv, SetupFailsInv, DownloadSucceedsInv,
       DownloadStopsInv, DownloadRaisesInv, ClientLeavesInv,
       ConsumerResumesInv, CleanupInv DEF GeneratorStep
<1>4. ASSUME NEW d \in Downloads, WorkerStep(d)
      PROVE  IInv'
  BY <1>4, WorkerStartsInv, WorkerReturnsInv, WorkerFetchesInv,
     WorkerFetchesAgainInv, WorkerFailsInv DEF WorkerStep
<1>5. ASSUME NEW m \in Models, CancelDownload(m) \/ Remove(m) \/ RemoveFails(m)
      PROVE  IInv'
  BY <1>5, CancelDownloadInv, RemoveInv, RemoveFailsInv
<1>6. CASE Restart
  BY <1>6, RestartInv
<1> QED
  BY <1>1, <1>2, <1>3, <1>4, <1>5, <1>6 DEF Next

\* The invariant holds in every reachable state of the registry.
THEOREM Invariance == Spec => []IInv
<1>1. Init => IInv
  BY InitInv
<1>2. IInv /\ [Next]_vars => IInv'
  BY StepInv
<1> QED
  BY <1>1, <1>2, PTL DEF Spec

\* Status, sets, files and downloads keep their types: the registry knows no
\* state but these.
THEOREM TypeCorrect == Spec => []TypeOK
<1>1. IInv => TypeOK
  BY DEF IInv
<1> QED
  BY <1>1, Invariance, PTL

\* An available model has verified files, unless a removal of it failed
\* half-way.
THEOREM AvailableModelsVerified == Spec => []AvailableIsVerified
<1>1. IInv => AvailableIsVerified
  BY DEF IInv
<1> QED
  BY <1>1, Invariance, PTL

\* A model is reserved exactly while a download of it is active.
THEOREM ReservationsDoNotLeak == Spec => []ReservationsAreHeld
<1>1. IInv => ReservationsAreHeld
  BY DEF IInv
<1> QED
  BY <1>1, Invariance, PTL

\* A download that was cancelled, or left by its client, never makes its
\* model available.
THEOREM CancellationIsFinal == Spec => CancelIsFinal
<1>1. IInv /\ [Next]_vars =>
        [\A d \in Downloads :
           d \in dropped /\ dl[d].pc # "offered" => dl'[d].pc # "offered"]_vars
  <2> SUFFICES ASSUME IInv, Next, NEW d \in dropped, dl[d].pc # "offered"
               PROVE  dl'[d].pc # "offered"
    OBVIOUS
  <2>1. d \in Downloads /\ TypeOK
    BY DEF IInv, TypeOK
  <2>2. dl[d].pc = "awaiting" => dl[d].model \in cancelled
    BY DEF IInv, DroppedIsCancelled
  <2>3. ASSUME dl'[d].pc = "offered" PROVE FALSE
    <3>1. ~(\E e \in Downloads : DownloadSucceeds(e))
      <4> SUFFICES ASSUME NEW e \in Downloads, DownloadSucceeds(e) PROVE FALSE
        OBVIOUS
      <4>1. CASE e = d
        BY <2>2, <4>1 DEF DownloadSucceeds, Cancelled
      <4>2. CASE e # d
        BY <2>1, <2>3, <4>2 DEF TypeOK, DownloadSucceeds
      <4> QED
        BY <4>1, <4>2
    <3>2. ~Restart /\ \A m \in Models : ~CancelDownload(m) /\ ~Remove(m) /\ ~RemoveFails(m)
      BY <2>1, <2>3 DEF Restart, CancelDownload, Remove, RemoveFails
    <3>3. \A e \in Downloads : ~WorkerStep(e)
      <4> SUFFICES ASSUME NEW e \in Downloads, WorkerStep(e) PROVE FALSE
        OBVIOUS
      <4>1. CASE WorkerFetches(e)
        BY <2>1, <2>3, <4>1 DEF TypeOK, Download, WorkerFetches, AtNextFile
      <4>2. CASE WorkerFetchesAgain(e)
        BY <2>1, <2>3, <4>2 DEF TypeOK, Download, WorkerFetchesAgain, AtNextFile
      <4>3. CASE WorkerStarts(e) \/ WorkerReturns(e) \/ WorkerFails(e)
        <5>1. PICK w \in WorkerStates : dl' = [dl EXCEPT ![e].worker = w]
          BY <4>3 DEF WorkerStarts, WorkerReturns, WorkerFails, WorkerStates
        <5> QED
          BY <2>1, <2>3, <5>1 DEF TypeOK, Download
      <4> QED
        BY <4>1, <4>2, <4>3 DEF WorkerStep
    <3>4. \A e \in Downloads : ~(\E m \in Models : DownloadStarts(e, m))
      BY <2>1, <2>3 DEF TypeOK, DownloadStarts
    <3>5. \A e \in Downloads : ~ClientLeaves(e) /\ ~WorkerSubmitted(e)
      <4> SUFFICES ASSUME NEW e \in Downloads,
                          ClientLeaves(e) \/ WorkerSubmitted(e)
                   PROVE  FALSE
        OBVIOUS
      <4>1. CASE ClientLeaves(e)
        <5>1. PICK w : dl' = [dl EXCEPT ![e] = Moved(dl[e], "cleanup", w)]
          BY <4>1 DEF ClientLeaves
        <5> QED
          BY <2>1, <2>3, <5>1 DEF TypeOK, Download, Moved
      <4>2. CASE WorkerSubmitted(e)
        BY <2>1, <2>3, <4>2 DEF TypeOK, Download, WorkerSubmitted, Moved
      <4> QED
        BY <4>1, <4>2
    <3>6. \A e \in Downloads :
            ~SetupFails(e) /\ ~DownloadStops(e) /\ ~DownloadRaises(e)
              /\ ~ConsumerResumes(e) /\ ~CleanupEnds(e) /\ ~CleanupCancelled(e)
      BY <2>1, <2>3 DEF TypeOK, SetupFails, DownloadStops, DownloadRaises,
         ConsumerResumes, CleanupEnds, CleanupCancelled
    <3> QED
      BY <3>1, <3>2, <3>3, <3>4, <3>5, <3>6 DEF Next, GeneratorStep
  <2> QED
    BY <2>3
<1> QED
  BY <1>1, Invariance, PTL DEF Spec, CancelIsFinal

\* While a worker is at a file nothing else in its directory changes.
THEOREM DirectoryIsTheWorkers == Spec => OnlyTheWorkerWrites
<1>1. IInv /\ [Next]_vars =>
        [\A d \in Downloads : Working(d) =>
           \A f \in Files \ {dl[d].file} :
             disk'[dl[d].model][f] = disk[dl[d].model][f]]_vars
  <2> SUFFICES ASSUME IInv, Next, NEW d \in Downloads, Working(d),
                      NEW f \in Files \ {dl[d].file}
               PROVE  disk'[dl[d].model][f] = disk[dl[d].model][f]
    OBVIOUS
  <2>1. /\ TypeOK /\ Active(d) /\ dl[d].model \in Models
        /\ dl[d].model \in inFlight
    BY DEF IInv, TypeOK, ActiveHasModel, ReservationsAreHeld
  <2>2. ASSUME NEW e \in Downloads, WorkerFetches(e) \/ WorkerFetchesAgain(e)
        PROVE  disk'[dl[d].model][f] = disk[dl[d].model][f]
    <3>1. PICK found : disk' = [disk EXCEPT ![dl[e].model][dl[e].file] = found]
      BY <2>2 DEF WorkerFetches, WorkerFetchesAgain
    <3>2. Active(e) /\ dl[e].model \in Models
      BY <2>2 DEF IInv, TypeOK, ActiveHasModel, WorkerFetches, WorkerFetchesAgain
    <3>3. e = d \/ dl[e].model # dl[d].model
      BY <2>1, <3>2 DEF IInv, OneDownloadPerModel
    <3> QED
      BY <2>1, <3>1, <3>2, <3>3 DEF TypeOK
  <2>3. ASSUME NEW m \in Models, Remove(m) \/ RemoveFails(m)
        PROVE  disk'[dl[d].model][f] = disk[dl[d].model][f]
    <3>1. m # dl[d].model
      BY <2>1, <2>3 DEF Remove, RemoveFails, MayRemove
    <3> QED
      BY <2>1, <2>3, <3>1 DEF TypeOK, Remove, RemoveFails
  <2>4. ASSUME UNCHANGED disk
        PROVE  disk'[dl[d].model][f] = disk[dl[d].model][f]
    BY <2>4
  <2> QED
    BY <2>2, <2>3, <2>4
       DEF Next, GeneratorStep, WorkerStep, DownloadStarts, WorkerSubmitted,
           SetupFails, DownloadSucceeds, DownloadStops, DownloadRaises,
           ConsumerResumes, CleanupEnds, CleanupCancelled, ClientLeaves,
           WorkerStarts, WorkerReturns, WorkerFails, CancelDownload, Restart
<1> QED
  BY <1>1, Invariance, PTL DEF Spec, OnlyTheWorkerWrites

=============================================================================
