--------------------------- MODULE ModelRegistry ---------------------------
(***************************************************************************)
(* The model registry of the transcription service (registry.py) for one   *)
(* engine: downloads that verify what they fetch, cancellation, removal    *)
(* and the scan at start-up.                                               *)
(*                                                                         *)
(* A download is an async generator on the event loop with a worker thread *)
(* of its own; cancel_download and remove run in threads of the HTTP       *)
(* server.  What happens under self._lock is one step.  The worker reads   *)
(* self._cancelled without the lock, one file at a time.                   *)
(***************************************************************************)
EXTENDS Naturals

CONSTANTS
  Models,     \* names in the manifest
  NoModel,    \* a download that has not started has none
  NumFiles,   \* files of a model
  Downloads   \* POST .../download/{name} requests in progress at one time

ASSUME RegistryAssumption == NumFiles \in Nat \ {0} /\ NoModel \notin Models

VARIABLES
  disk,       \* what lies at the path of each file of each model
  status,     \* _status
  inFlight,   \* _in_flight
  cancelled,  \* _cancelled
  dl,         \* each download: its generator, its worker and the next file
  dropped,    \* history: downloads somebody cancelled, or left
  damaged     \* history: models whose removal failed half-way

registryVars == <<status, inFlight, cancelled>>
vars == <<disk, registryVars, dl, dropped, damaged>>

-----------------------------------------------------------------------------

Files == 1..NumFiles

\* Generator: before it starts; after the reservation; awaiting the worker;
\* suspended at its yield; in the finally block.
GeneratorStates == {"idle", "reserved", "awaiting", "offered", "cleanup"}

\* Worker: no thread; submitted; at a file; before the second fetch of a
\* file; returned; raised a TimeoutError of its own; raised another error.
WorkerStates ==
  {"none", "queued", "file", "retry", "returned", "timedOut", "raised"}

Download == [pc : GeneratorStates, model : Models \cup {NoModel},
             worker : WorkerStates, file : 1..(NumFiles + 1)]

TypeOK ==
  /\ disk \in [Models -> [Files -> {"absent", "bad", "good"}]]
  /\ status \in [Models -> {"MISSING", "DOWNLOADING", "AVAILABLE"}]
  /\ inFlight \in SUBSET Models
  /\ cancelled \in SUBSET Models
  /\ dl \in [Downloads -> Download]
  /\ dropped \in SUBSET Downloads
  /\ damaged \in SUBSET Models

\* Download r with its generator and its worker moved on.
Moved(r, p, w) == [r EXCEPT !.pc = p, !.worker = w]

\* Its worker goes on to the next file.
AtNextFile(r) == [r EXCEPT !.worker = "file", !.file = r.file + 1]

AllGood(files) == \A f \in Files : files[f] = "good"

\* _scan_existing: every file is hashed again.
Scanned(files) == IF AllGood(files) THEN "AVAILABLE" ELSE "MISSING"

NoDownload ==
  [pc |-> "idle", model |-> NoModel, worker |-> "none", file |-> 1]

\* The service starts over whatever an earlier life left on the disk.
Init ==
  /\ disk \in [Models -> [Files -> {"absent", "bad", "good"}]]
  /\ status = [m \in Models |-> Scanned(disk[m])]
  /\ inFlight = {}
  /\ cancelled = {}
  /\ dl = [d \in Downloads |-> NoDownload]
  /\ dropped = {}
  /\ damaged = {}

\* The process ends at any point and starts again.
Restart ==
  /\ status' = [m \in Models |-> Scanned(disk[m])]
  /\ inFlight' = {}
  /\ cancelled' = {}
  /\ dl' = [d \in Downloads |-> NoDownload]
  /\ dropped' = {}
  /\ damaged' = {}
  /\ UNCHANGED disk

-----------------------------------------------------------------------------
(* The generator of download().                                            *)

\* The reservation.  (Too little disk space, an unknown name or a model that
\* is in flight raise before anything is changed.)
DownloadStarts(d, m) ==
  /\ dl[d].pc = "idle"
  /\ m \notin inFlight
  /\ inFlight' = inFlight \cup {m}
  /\ cancelled' = cancelled \ {m}
  /\ status' = [status EXCEPT ![m] = "DOWNLOADING"]
  /\ dl' = [dl EXCEPT ![d] = [pc |-> "reserved", model |-> m,
                              worker |-> "none", file |-> 1]]
  /\ dropped' = dropped \ {d}
  /\ UNCHANGED <<disk, damaged>>

\* executor.submit.
WorkerSubmitted(d) ==
  /\ dl[d].pc = "reserved"
  /\ dl' = [dl EXCEPT ![d] = Moved(@, "awaiting", "queued")]
  /\ UNCHANGED <<disk, registryVars, dropped, damaged>>

\* Mutant: an error before the worker starts keeps the reservation.
Released_Kept(m) == UNCHANGED <<inFlight, cancelled>>

\* The reservation of m is given back.
Released(m) ==
  /\ inFlight' = inFlight \ {m}
  /\ cancelled' = cancelled \ {m}

\* mkdir or submit raises.
SetupFails(d) ==
  /\ dl[d].pc = "reserved"
  /\ Released(dl[d].model)
  /\ status' = [status EXCEPT ![dl[d].model] = "MISSING"]
  /\ dl' = [dl EXCEPT ![d] = NoDownload]
  /\ UNCHANGED <<disk, dropped, damaged>>

\* Mutant: a finished worker makes the model available, cancelled or not.
Cancelled_Ignored(m) == FALSE

Cancelled(m) == m \in cancelled

\* The awaited worker has returned and nobody has cancelled: the model is
\* available, and the generator yields.
DownloadSucceeds(d) ==
  /\ dl[d].pc = "awaiting"
  /\ dl[d].worker = "returned"
  /\ ~Cancelled(dl[d].model)
  /\ status' = [status EXCEPT ![dl[d].model] = "AVAILABLE"]
  /\ dl' = [dl EXCEPT ![d].pc = "offered"]
  /\ UNCHANGED <<disk, inFlight, cancelled, dropped, damaged>>

\* It has returned, early or not, and the flag is set.
DownloadStops(d) ==
  /\ dl[d].pc = "awaiting"
  /\ dl[d].worker = "returned"
  /\ Cancelled(dl[d].model)
  /\ status' = [status EXCEPT ![dl[d].model] = "MISSING"]
  /\ dl' = [dl EXCEPT ![d].pc = "cleanup"]
  /\ UNCHANGED <<disk, inFlight, cancelled, dropped, damaged>>

\* The awaited worker has raised.
DownloadRaises(d) ==
  /\ dl[d].pc = "awaiting"
  /\ dl[d].worker \in {"timedOut", "raised"}
  /\ status' = [status EXCEPT ![dl[d].model] = "MISSING"]
  /\ dl' = [dl EXCEPT ![d].pc = "cleanup"]
  /\ UNCHANGED <<disk, inFlight, cancelled, dropped, damaged>>

\* The client goes away: CancelledError at `await asyncio_future`, which also
\* withdraws a worker that has not started.
ClientLeaves(d) ==
  /\ dl[d].pc = "awaiting"
  /\ cancelled' = cancelled \cup {dl[d].model}
  /\ status' = [status EXCEPT ![dl[d].model] = "MISSING"]
  /\ LET w == IF dl[d].worker = "queued" THEN "returned" ELSE dl[d].worker IN
     dl' = [dl EXCEPT ![d] = Moved(@, "cleanup", w)]
  /\ dropped' = dropped \cup {d}
  /\ UNCHANGED <<disk, inFlight, damaged>>

\* The consumer asks for the next item, or closes the generator.
ConsumerResumes(d) ==
  /\ dl[d].pc = "offered"
  /\ dl' = [dl EXCEPT ![d].pc = "cleanup"]
  /\ UNCHANGED <<disk, registryVars, dropped, damaged>>

\* Mutant: the finally block goes on waiting for a worker that has raised.
WorkerEnded_OnlyReturned(d) == dl[d].worker = "returned"

WorkerEnded(d) == dl[d].worker \in {"returned", "raised"}

\* The finally block, whose loop outlives timeouts and cancellations of its own
\* wait.  It takes a TimeoutError of the worker for a timeout of the wait too:
\* that worker has ended and the loop does not.
CleanupEnds(d) ==
  /\ dl[d].pc = "cleanup"
  /\ WorkerEnded(d)
  /\ Released(dl[d].model)
  /\ dl' = [dl EXCEPT ![d] = NoDownload]
  /\ UNCHANGED <<disk, status, dropped, damaged>>

\* The loop is at its await over a worker that timed out.
Stuck(d) == dl[d].pc = "cleanup" /\ dl[d].worker = "timedOut"

\* Only the client ends it by going away: CancelledError, and the worker is done.
CleanupCancelled(d) ==
  /\ Stuck(d)
  /\ Released(dl[d].model)
  /\ dl' = [dl EXCEPT ![d] = NoDownload]
  /\ UNCHANGED <<disk, status, dropped, damaged>>

-----------------------------------------------------------------------------
(* The worker thread.                                                      *)

WorkerStarts(d) ==
  /\ dl[d].worker = "queued"
  /\ dl' = [dl EXCEPT ![d].worker = "file"]
  /\ UNCHANGED <<disk, registryVars, dropped, damaged>>

\* `for file in info.files` has another file.
MoreFiles(d) == dl[d].file <= NumFiles

\* The flag is seen between two files or two fetches, or there is no more to do.
WorkerReturns(d) ==
  /\ \/ dl[d].worker \in {"file", "retry"} /\ dl[d].model \in cancelled
     \/ dl[d].worker = "file" /\ ~MoreFiles(d)
  /\ dl' = [dl EXCEPT ![d].worker = "returned"]
  /\ UNCHANGED <<disk, registryVars, dropped, damaged>>

\* hf_hub_download writes the file, or finds it there and leaves it; the
\* checksum decides what comes next.
WorkerFetches(d) ==
  /\ dl[d].worker = "file"
  /\ MoreFiles(d)
  /\ dl[d].model \notin cancelled
  /\ \E found \in {"bad", "good"} :
       /\ disk' = [disk EXCEPT ![dl[d].model][dl[d].file] = found]
       /\ dl' = IF found = "good" THEN [dl EXCEPT ![d] = AtNextFile(@)]
                                  ELSE [dl EXCEPT ![d].worker = "retry"]
  /\ UNCHANGED <<registryVars, dropped, damaged>>

\* Mutant: the second fetch is not hashed again.
Accepted_Twice(found) == TRUE

Accepted(found) == found = "good"

\* The second fetch bypasses what is there.
WorkerFetchesAgain(d) ==
  /\ dl[d].worker = "retry"
  /\ dl[d].model \notin cancelled
  /\ \E found \in {"bad", "good"} :
       /\ disk' = [disk EXCEPT ![dl[d].model][dl[d].file] = found]
       /\ dl' = IF Accepted(found)
                THEN [dl EXCEPT ![d] = AtNextFile(@)]
                ELSE [dl EXCEPT ![d].worker = "raised"]
  /\ UNCHANGED <<registryVars, dropped, damaged>>

\* hf_hub_download raises: no network; or the system, or a lock on the file,
\* times out.
WorkerFails(d) ==
  /\ dl[d].worker \in {"file", "retry"}
  /\ MoreFiles(d)
  /\ dl[d].model \notin cancelled
  /\ \E end \in {"timedOut", "raised"} : dl' = [dl EXCEPT ![d].worker = end]
  /\ UNCHANGED <<disk, registryVars, dropped, damaged>>

-----------------------------------------------------------------------------
(* The other endpoints.                                                    *)

\* cancel_download; another status makes it a no-op.
CancelDownload(m) ==
  /\ status[m] = "DOWNLOADING"
  /\ cancelled' = cancelled \cup {m}
  /\ status' = [status EXCEPT ![m] = "MISSING"]
  /\ dropped' = dropped \cup
       {d \in Downloads : dl[d].pc \in {"reserved", "awaiting"} /\ dl[d].model = m}
  /\ UNCHANGED <<disk, inFlight, dl, damaged>>

\* Mutant: remove looks at the status of the model.
MayRemove_ByStatus(m) == status[m] # "DOWNLOADING"

MayRemove(m) == m \notin inFlight

\* rmtree under the lock.
Remove(m) ==
  /\ MayRemove(m)
  /\ disk' = [disk EXCEPT ![m] = [f \in Files |-> "absent"]]
  /\ status' = [status EXCEPT ![m] = "MISSING"]
  /\ damaged' = damaged \ {m}
  /\ UNCHANGED <<inFlight, cancelled, dl, dropped>>

\* rmtree raises half-way: the status is not reached.
RemoveFails(m) ==
  /\ MayRemove(m)
  /\ \E gone \in SUBSET Files :
       disk' = [disk EXCEPT ![m] = [f \in Files |->
                  IF f \in gone THEN "absent" ELSE disk[m][f]]]
  /\ damaged' = damaged \cup {m}
  /\ UNCHANGED <<registryVars, dl, dropped>>

-----------------------------------------------------------------------------

GeneratorStep(d) ==
  \/ WorkerSubmitted(d) \/ SetupFails(d)
  \/ DownloadSucceeds(d) \/ DownloadStops(d) \/ DownloadRaises(d)
  \/ ConsumerResumes(d) \/ CleanupEnds(d)

WorkerStep(d) ==
  \/ WorkerStarts(d) \/ WorkerReturns(d) \/ WorkerFetches(d)
  \/ WorkerFetchesAgain(d) \/ WorkerFails(d)

Next ==
  \/ \E d \in Downloads :
       \/ \E m \in Models : DownloadStarts(d, m)
       \/ GeneratorStep(d) \/ ClientLeaves(d) \/ CleanupCancelled(d)
       \/ WorkerStep(d)
  \/ \E m \in Models : CancelDownload(m) \/ Remove(m) \/ RemoveFails(m)
  \/ Restart

\* The event loop runs what can run, threads run, transfers end (they have a
\* timeout), and the one event of a download fits in the client's buffers.
\* Nothing makes a client go away.
Fairness ==
  \A d \in Downloads : WF_vars(GeneratorStep(d)) /\ WF_vars(WorkerStep(d))

Spec == Init /\ [][Next]_vars /\ Fairness
-----------------------------------------------------------------------------
(* Properties.                                                             *)

Active(d) == dl[d].pc # "idle"
Working(d) == dl[d].worker \in {"queued", "file", "retry"}

\* docs/transcription-service.md:56: "a checksum is verified before a model
\* is marked `Available`".  A model that is available has all its files as
\* the manifest hashes them, through downloads, cancellations, removals and
\* restarts; only a removal that failed half-way may have broken it.
AvailableIsVerified ==
  \A m \in Models :
    status[m] = "AVAILABLE" => AllGood(disk[m]) \/ m \in damaged

\* While a worker thread is at a file, nothing else in the directory of its
\* model changes: no second worker writes there and nobody removes it, also
\* when the download was cancelled or its client left.
OnlyTheWorkerWrites ==
  [][\A d \in Downloads : Working(d) =>
       \A f \in Files \ {dl[d].file} :
         disk'[dl[d].model][f] = disk[dl[d].model][f]]_vars

\* Reservations do not leak: a model is reserved, or shown as DOWNLOADING,
\* only while a download of it is active.
ReservationsAreHeld ==
  /\ inFlight = {dl[d].model : d \in {e \in Downloads : Active(e)}}
  /\ \A m \in Models : status[m] = "DOWNLOADING" =>
       \E d \in Downloads : dl[d].pc \in {"reserved", "awaiting"} /\ dl[d].model = m

\* A download that was cancelled, or whose client left, never offers the
\* model as available, although the flag is kept per name, not per download.
CancelIsFinal ==
  [][\A d \in Downloads :
       d \in dropped /\ dl[d].pc # "offered" => dl'[d].pc # "offered"]_vars

\* Every download ends, so the model can be removed or downloaded again, however
\* it is cancelled and however its worker ends, but for a worker that raises
\* TimeoutError: there the loop goes round until the client leaves.
DownloadEnds == \A d \in Downloads : Active(d) ~> ~Active(d) \/ Stuck(d)
=============================================================================
