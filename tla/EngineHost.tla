----------------------------- MODULE EngineHost -----------------------------
(***************************************************************************)
(* A transcription engine of the service, whisper or parakeet, and who     *)
(* uses it: requests that load and remove models, each in a thread of the  *)
(* server's pool, and the session worker's batches, in a thread of         *)
(* _executor.  Nothing locks the engine: every access to an attribute is a *)
(* step.                                                                   *)
(***************************************************************************)
EXTENDS Integers, Sequences

CONSTANTS
  Models,    \* names in the manifest
  Nothing,   \* None
  Library,   \* the module mlx_whisper
  Admins,    \* requests to load or remove at the same time
  Duration,  \* of every audio of a batch
  Audios,    \* number of audios in a batch
  Stamps     \* times a model may report

ASSUME HostAssumption ==
  /\ Nothing \notin Models /\ Library \notin Models /\ Nothing # Library
  /\ Duration \in Nat /\ Audios \in Nat \ {0}
  /\ Stamps \subseteq Int

VARIABLES
  kind,    \* "whisper", "mlx" (whisper on Apple silicon) or "parakeet"
  model,   \* _model
  path,    \* _mlx_model_path
  loaded,  \* _loaded
  disk,    \* what the registry has of each model
  admin,   \* the requests
  batch,   \* the session's worker: transcribe_batch
  mixed,      \* history: two requests have assigned to the engine in turns
  contested   \* history: models that were loaded and removed at the same time

engine == <<model, path, loaded>>
historyVars == <<mixed, contested>>
vars == <<kind, engine, disk, admin, batch, historyVars>>

Result == [start : Int, end : Int]
Idle == [pc |-> "idle"]

TypeOK ==
  /\ kind \in {"whisper", "mlx", "parakeet"}
  /\ model \in Models \cup {Nothing, Library}
  /\ path \in Models \cup {Nothing} /\ loaded \in Models \cup {Nothing}
  /\ disk \in [Models -> {"missing", "downloading", "broken", "whole"}]
  /\ admin \in [Admins -> {Idle} \cup
       [pc : {"construct", "path", "name", "unload", "forget", "remove"}, m : Models]]
  /\ batch \in [pc : {"none", "idle", "raised"}]
          \cup [pc : {"checked"}, checked : BOOLEAN, results : Seq(Result)]
          \cup [pc : {"returned"}, results : Seq(Result)]
  /\ mixed \in BOOLEAN /\ contested \in SUBSET Models

Init ==
  /\ kind \in {"whisper", "mlx", "parakeet"}
  /\ model = Nothing /\ path = Nothing /\ loaded = Nothing
  /\ disk \in [Models -> {"missing", "broken", "whole"}]
  /\ admin = [a \in Admins |-> Idle]
  /\ batch = [pc |-> "none"]
  /\ mixed = FALSE /\ contested = {}

-----------------------------------------------------------------------------
(* The registry, seen from here: a download takes the model's directory    *)
(* and leaves it whole or not.                                             *)

Download(m) ==
  /\ disk[m] # "downloading"
  /\ disk' = [disk EXCEPT ![m] = "downloading"]
  /\ UNCHANGED <<kind, engine, admin, batch, historyVars>>

DownloadEnds(m) ==
  /\ disk[m] = "downloading"
  /\ \E left \in {"whole", "broken"} : disk' = [disk EXCEPT ![m] = left]
  /\ UNCHANGED <<kind, engine, admin, batch, historyVars>>

-----------------------------------------------------------------------------
(* POST /models/{engine}/load                                              *)

To(a, pc, m) == admin' = [admin EXCEPT ![a] = [pc |-> pc, m |-> m]]
Done(a) == admin' = [admin EXCEPT ![a] = Idle]

\* Request a has made the first of its assignments and not the last one.
Assigning(a) == admin[a].pc \in {"path", "name", "forget"}

\* a makes its first one: from here on the engine is as a leaves it, if no
\* other request is in the midst of its own or comes in between.
Assigns(a) == mixed' = \E b \in Admins \ {a} : Assigning(b)

Loading(a, m) ==
  admin[a].pc \in {"construct", "path", "name"} /\ admin[a].m = m
Removing(a, m) ==
  admin[a].pc \in {"unload", "forget", "remove"} /\ admin[a].m = m

\* whisper looks for a directory, parakeet asks the registry.
Loadable(m) ==
  IF kind = "parakeet" THEN disk[m] = "whole" ELSE disk[m] # "missing"

LoadModel(a, m) ==
  /\ admin[a] = Idle
  /\ Loadable(m)
  /\ To(a, "construct", m)
  /\ contested' = IF \E b \in Admins : Removing(b, m)
                  THEN contested \cup {m} ELSE contested
  /\ UNCHANGED <<kind, engine, disk, batch, mixed>>

\* The model is read from disk (mlx reads nothing yet) and becomes _model.
Construct(a) ==
  /\ admin[a].pc = "construct"
  /\ LET m == admin[a].m IN
     \/ /\ kind = "mlx"
        /\ model' = Library
        /\ To(a, "path", m)
     \/ /\ kind # "mlx" /\ disk[m] = "whole"
        /\ model' = m
        /\ To(a, "name", m)
  /\ Assigns(a)
  /\ UNCHANGED <<kind, path, loaded, disk, batch, contested>>

\* Reading it fails: it is gone or not whole, or memory is short.
ConstructFails(a) ==
  /\ admin[a].pc = "construct" /\ kind # "mlx"
  /\ Done(a)
  /\ UNCHANGED <<kind, engine, disk, batch, historyVars>>

SetPath(a) ==
  /\ admin[a].pc = "path"
  /\ path' = admin[a].m
  /\ To(a, "name", admin[a].m)
  /\ UNCHANGED <<kind, model, loaded, disk, batch, historyVars>>

SetLoaded(a) ==
  /\ admin[a].pc = "name"
  /\ loaded' = admin[a].m
  /\ Done(a)
  /\ UNCHANGED <<kind, model, path, disk, batch, historyVars>>

-----------------------------------------------------------------------------
(* DELETE /models/{engine}/{name}                                          *)

\* Mutant: a loaded model is removed under the engine.
Unloads_Never(m) == FALSE

Unloads(m) == loaded = m

RemoveModel(a, m) ==
  /\ admin[a] = Idle
  /\ To(a, IF Unloads(m) THEN "unload" ELSE "remove", m)
  /\ contested' =
       IF \E b \in Admins : Loading(b, m) THEN contested \cup {m}
       ELSE IF disk[m] = "missing" \/ \E b \in Admins : Removing(b, m)
            THEN contested ELSE contested \ {m}
  /\ UNCHANGED <<kind, engine, disk, batch, mixed>>

\* Mutant: both engines clear the model first.
ModelFirst_Always(k) == TRUE

\* Order of the two assignments in unload_model.
ModelFirst(k) == k # "parakeet"

ClearModel == model' = Nothing /\ UNCHANGED <<path, loaded>>

\* Mutant: the name stays.
ClearLoaded_Forgotten == UNCHANGED engine

ClearLoaded == loaded' = Nothing /\ UNCHANGED <<path, model>>

UnloadFirst(a) ==
  /\ admin[a].pc = "unload"
  /\ IF ModelFirst(kind) THEN ClearModel ELSE ClearLoaded
  /\ To(a, "forget", admin[a].m)
  /\ Assigns(a)
  /\ UNCHANGED <<kind, disk, batch, contested>>

UnloadSecond(a) ==
  /\ admin[a].pc = "forget"
  /\ IF ModelFirst(kind) THEN ClearLoaded ELSE ClearModel
  /\ To(a, "remove", admin[a].m)
  /\ UNCHANGED <<kind, disk, batch, historyVars>>

\* registry.remove: while the model is downloaded an error, with the model
\* unloaded all the same.
RemoveFiles(a) ==
  /\ admin[a].pc = "remove"
  /\ disk' = IF disk[admin[a].m] = "downloading" THEN disk
             ELSE [disk EXCEPT ![admin[a].m] = "missing"]
  /\ Done(a)
  /\ UNCHANGED <<kind, engine, batch, historyVars>>

-----------------------------------------------------------------------------
(* Sessions and batches.                                                   *)

IsModelLoaded == IF kind = "parakeet" THEN loaded # Nothing ELSE model # Nothing

\* _select_engine: otherwise 409.
StartSession ==
  /\ batch.pc = "none"
  /\ IsModelLoaded
  /\ batch' = Idle
  /\ UNCHANGED <<kind, engine, disk, admin, historyVars>>

Raises == batch' = [pc |-> "raised"]

\* The head of transcribe: whisper's for the next audio, parakeet's for all.
Check ==
  /\ \/ batch.pc = "idle"
     \/ batch.pc = "checked" /\ kind # "parakeet" /\ ~batch.checked
  /\ IF model = Nothing THEN Raises
     ELSE batch' = [pc |-> "checked", checked |-> TRUE,
                    results |-> IF batch.pc = "idle" THEN <<>> ELSE batch.results]
  /\ UNCHANGED <<kind, engine, disk, admin, historyVars>>

Checked == batch.pc = "checked" /\ batch.checked

\* transcribe reads _model again, or only _mlx_model_path, which unloading
\* leaves.  The times the library reports are taken as they are; without any
\* they are those of the audio.
TranscribeOne ==
  /\ Checked /\ kind # "parakeet"
  /\ \/ /\ kind = "mlx" \/ model # Nothing
        /\ \E r \in [start : Stamps \cup {0}, end : Stamps \cup {Duration}] :
             LET results == Append(batch.results, r) IN
             batch' = IF Len(results) = Audios
                      THEN [pc |-> "returned", results |-> results]
                      ELSE [batch EXCEPT !.checked = FALSE, !.results = results]
     \/ Raises
  /\ UNCHANGED <<kind, engine, disk, admin, historyVars>>

Lower(x, y) == IF x <= y THEN x ELSE y
Higher(x, y) == IF x <= y THEN y ELSE x
Clamp(x) == Higher(0, Lower(x, Duration))

\* Mutant: the end is not moved to the start.
Times_Unordered(stamps) ==
  LET start == IF stamps = <<>> THEN 0 ELSE stamps[1]
      end   == IF stamps = <<>> THEN Duration ELSE stamps[Len(stamps)] IN
  [start |-> Clamp(start), end |-> Clamp(end)]

\* _to_transcript_result.
Times(stamps) ==
  LET start == IF stamps = <<>> THEN 0 ELSE stamps[1]
      end   == IF stamps = <<>> THEN Duration ELSE stamps[Len(stamps)] IN
  [start |-> Clamp(start), end |-> Higher(Clamp(start), Clamp(end))]

Complete(raw) == Len(raw) = Audios

\* recognize returns results, each with the times of its tokens, as many as
\* it likes; a text that is none or a time that is not finite raises.
Recognize ==
  /\ Checked /\ kind = "parakeet"
  /\ \/ /\ model # Nothing
        /\ \E n \in 0..(Audios + 1) :
           \E raw \in [1..n -> {<<>>} \cup {<<s, t>> : s, t \in Stamps}] :
             IF Complete(raw)
             THEN batch' = [pc |-> "returned",
                            results |-> [i \in 1..n |-> Times(raw[i])]]
             ELSE Raises
     \/ Raises
  /\ UNCHANGED <<kind, engine, disk, admin, historyVars>>

\* The worker takes the outcome; the next batch, or a retry, follows.
NextBatch ==
  /\ batch.pc \in {"returned", "raised"}
  /\ batch' = Idle
  /\ UNCHANGED <<kind, engine, disk, admin, historyVars>>

-----------------------------------------------------------------------------

Admin(a) ==
  \/ \E m \in Models : LoadModel(a, m) \/ RemoveModel(a, m)
  \/ Construct(a) \/ ConstructFails(a) \/ SetPath(a) \/ SetLoaded(a)
  \/ UnloadFirst(a) \/ UnloadSecond(a) \/ RemoveFiles(a)

Next ==
  \/ \E m \in Models : Download(m) \/ DownloadEnds(m)
  \/ \E a \in Admins : Admin(a)
  \/ StartSession \/ Check \/ TranscribeOne \/ Recognize \/ NextBatch

Spec == Init /\ [][Next]_vars
-----------------------------------------------------------------------------
(* Properties.                                                             *)

\* Nobody is between two assignments, and the last request that made any was
\* alone with them.
Settled == ~mixed /\ \A a \in Admins : ~Assigning(a)

\* docs/transcription-service.md:65: GET /models/{engine}/current names the
\* "currently loaded model".  It does, whatever requests are under way, unless
\* two of them have made their assignments in turns.
CurrentIsLoaded ==
  Settled => loaded = IF kind = "mlx" /\ model # Nothing THEN path ELSE model

\* An engine that reports a loaded model has one, also in the midst of a
\* request, so that a session that is let in finds it: each engine orders its
\* assignments for it.
LoadedMeansModel == ~mixed => (IsModelLoaded => model # Nothing)

\* A model that was removed is not used any more, in memory neither, whatever
\* other models are loaded and removed meanwhile; only a request to load the
\* model itself may come between its unloading and its removal.
RemovedIsNotLoaded ==
  Settled => \A m \in Models \ contested :
    disk[m] = "missing" => loaded # m /\ model # m

\* A batch that returns has one result for each audio, and parakeet's times
\* lie in the audio and in order, whatever the library answers and whoever
\* loads or removes models meanwhile.  Of whisper's times nothing is promised.
BatchContract ==
  batch.pc = "returned" =>
    /\ Len(batch.results) = Audios
    /\ kind = "parakeet" =>
         \A i \in DOMAIN batch.results :
           LET r == batch.results[i] IN
           0 <= r.start /\ r.start <= r.end /\ r.end <= Duration
=============================================================================
