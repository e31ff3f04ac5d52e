------------------------ MODULE LoraTrainingManager ------------------------
(***************************************************************************)
(* The trainer's side of the service (lora_training_manager, lora_process, *)
(* training_data_cleanup, lora_trainer_cleanup): one worker thread runs    *)
(* one operation at a time, a training, a download of the base model or an *)
(* installation of the trainer, and threads of the settings window export  *)
(* models while it rests.  Files outlive the service; it may be killed     *)
(* between any two steps.                                                  *)
(***************************************************************************)
EXTENDS Naturals, Sequences, FiniteSets

CONSTANTS
  MaxRuns,    \* the runs are 1 .. MaxRuns (bound)
  Records,    \* the texts that are recorded
  Revisions,  \* the revisions of the base model
  Releases    \* the releases of the trainer

ASSUME RunsAssumption == MaxRuns \in Nat
ASSUME RevisionsAssumption ==
  /\ Revisions \subseteq Nat \ {0} /\ 1 \in Revisions
  /\ Releases \subseteq Nat \ {0} /\ 1 \in Releases

VARIABLES
  up,         \* the service: running, quitting, stopped or killed
  \* What is on the disk.
  plain,      \* training.jsonl of each run: the records in it
  adapters,   \* the runs with a whole adapter
  models,     \* the GGUF files
  history,    \* lora_training_history
  records,    \* the records that are stored, as a start would read them
  erased,     \* records that a reset has erased
  current,    \* current.revision, 0 for none
  assets,     \* the files of each revision that are there
  selected,   \* current.install, 0 for none
  trainers,   \* the directory of each release: none, another build's or ours
  \* The manager.
  busy,       \* busy_
  mutex,      \* who holds operation_mutex_
  cancelling, \* cancelling_
  worker,     \* the operation of worker_
  process,    \* who runs a process of the trainer now
  offered,    \* status_.output_model_path, as a run; 0 for none
  world       \* the revision and the release that are published; what may still happen

files   == <<plain, adapters, models, history, records, erased>>
setup   == <<current, assets, selected, trainers>>
manager == <<busy, mutex, cancelling, worker, process, offered>>
training == <<up, files, setup, manager, world>>

Runs    == 1 .. MaxRuns
Default == 0             \* the model the installer brings, which is always there
Base    == MaxRuns + 1   \* base-Q4_K_M.gguf, exported from the base model
Models  == Runs \union {Default, Base}
Assets  == {"vocabulary", "weights"}
Nobody  == "nobody"
Worker  == "worker"

Idle == [at |-> "idle", op |-> "none", run |-> 0, parent |-> 0, records |-> {},
         stabilize |-> FALSE, revision |-> 0, asset |-> 1, backup |-> "none"]

\* A completed training.
Run(run, parent, revision) == [run |-> run, parent |-> parent, revision |-> revision]
Completed                  == {h.run : h \in history}
RunOf(run)                 == CHOOSE h \in history : h.run = run

\* installed_model_is_complete
ModelComplete == current # 0 /\ assets[current] = Assets
\* trainer_executable
TrainerThere  == selected # 0 /\ trainers[selected] # "none"

\* Something fails: a file, the network, the process.
Fault == /\ world.faults > 0
         /\ world' = [world EXCEPT !.faults = @ - 1]

Alive      == up \in {"running", "quitting"}
At(op, at) == Alive /\ worker.op = op /\ worker.at = at
Goes(at)   == worker' = [worker EXCEPT !.at = at]

-----------------------------------------------------------------------------
(***************************************************************************)
(* Starting an operation.  The mutex is free for every step that takes and *)
(* gives it back in one.                                                   *)
(***************************************************************************)
Launches(op) ==
  /\ mutex = Nobody /\ ~busy
  /\ busy' = TRUE
  /\ cancelling' = FALSE
  /\ worker' = [Idle EXCEPT !.at = "begin", !.op = op]
  /\ UNCHANGED <<mutex, process>>

\* launch: check_updates, download_model, install_trainer.
Launch(op) ==
  /\ Launches(op)
  /\ UNCHANGED <<up, files, setup, offered, world>>

\* start_training_async refuses a base that cannot be identified, and a start
\* without records; there are MaxRuns runs.
Startable(parent) ==
  /\ ~busy /\ records # {} /\ world.run < MaxRuns
  /\ parent = 0 \/ (parent \in Completed /\ assets[RunOf(parent).revision] = Assets)

\* The records are read before the worker starts.
StartTraining(parent, stabilize) ==
  /\ mutex = Nobody /\ Startable(parent)
  /\ busy' = TRUE
  /\ cancelling' = FALSE
  /\ worker' = [Idle EXCEPT !.at = "begin", !.op = "train", !.parent = parent,
                            !.records = records, !.stabilize = stabilize]
  /\ UNCHANGED <<up, files, setup, mutex, process, offered, world>>

\* cancel
Cancel ==
  /\ cancelling' = TRUE
  /\ UNCHANGED <<up, files, setup, busy, mutex, worker, process, offered, world>>

\* ~DatasetCleanup does not ask whether the file could be removed: a trainer that
\* is slow to die, one of its descendants or a scanner may have it open.
CleansUp(run) == plain' = plain \/ (run # 0 /\ plain' = [plain EXCEPT ![run] = {}])

\* The end of every operation: ~DatasetCleanup, set_failed, pending_records_ is
\* cleared, then busy_.
Ends == worker' = Idle /\ CleansUp(worker.run)

Stops ==
  /\ Ends
  /\ busy' = FALSE
  /\ process' = process \ {Worker}
  /\ UNCHANGED <<up, adapters, models, history, records, erased, setup, mutex,
                 cancelling, offered>>

\* throw_if_cancelled and check_cancelled, wherever the operation polls them:
\* the process of the trainer is killed with its job.
Polls ==
  \/ At("train", "begin") \/ At("train", "train") \/ At("train", "training")
  \/ At("train", "stabilize") \/ At("train", "stabilizing")
  \/ At("train", "export") \/ At("train", "exporting")
  \/ At("download", "begin") \/ At("download", "asset") \/ At("download", "publish")
  \/ At("install", "begin") \/ At("install", "unpack")

Cancelled ==
  /\ cancelling /\ Polls
  /\ Stops
  /\ UNCHANGED world

\* An exception at a step that leaves nothing else behind.
Throws ==
  /\ \/ Polls
     \/ At("train", "dataset") \/ At("train", "trained") \/ At("train", "complete")
     \/ At("register", "begin") \/ At("check", "begin") \/ At("install", "reselect")
  /\ Fault
  /\ Stops
-----------------------------------------------------------------------------
(***************************************************************************)
(* A training (training_worker).                                           *)
(***************************************************************************)
\* The base model, or the run it goes on from, is there; status_ forgets the
\* model that was offered.
TrainBegin ==
  /\ At("train", "begin") /\ ~cancelling
  /\ ModelComplete
  /\ worker.parent = 0 \/ worker.parent \in adapters
  /\ TrainerThere
  /\ world' = [world EXCEPT !.run = @ + 1]
  /\ worker' = [worker EXCEPT
       !.at = "dataset", !.run = world.run + 1,
       !.revision = IF worker.parent = 0 THEN current ELSE RunOf(worker.parent).revision]
  /\ offered' = 0
  /\ UNCHANGED <<up, files, setup, busy, mutex, cancelling, process>>

\* Something it needs is missing.
TrainRefused ==
  /\ At("train", "begin") /\ ~cancelling
  /\ ~ModelComplete \/ ~TrainerThere \/ (worker.parent # 0 /\ worker.parent \notin adapters)
  /\ Stops
  /\ UNCHANGED world

\* write_lora_numeric_dataset: the texts are on the disk, as the partial file
\* first.
WriteDataset ==
  /\ At("train", "dataset")
  /\ plain' = [plain EXCEPT ![worker.run] = worker.records]
  /\ Goes("train")
  /\ UNCHANGED <<up, adapters, models, history, records, erased, setup, busy, mutex,
                 cancelling, process, offered, world>>

\* run_process: the worker waits for the process it starts.
Starts(op, at, running) ==
  /\ At(op, at) /\ ~cancelling
  /\ process' = process \union {Worker}
  /\ Goes(running)
  /\ UNCHANGED <<up, files, setup, busy, mutex, cancelling, offered, world>>

Train     == Starts("train", "train", "training")
Stabilize == Starts("train", "stabilize", "stabilizing")
Export    == Starts("train", "export", "exporting")

\* The adapter is in its own directory until it has been stabilized.
Adapted == IF worker.stabilize THEN adapters ELSE adapters \union {worker.run}

\* The process has ended well.
Trained ==
  /\ At("train", "training") /\ ~cancelling
  /\ adapters' = Adapted
  /\ process' = process \ {Worker}
  /\ Goes("trained")
  /\ UNCHANGED <<up, plain, models, history, records, erased, setup, busy, mutex,
                 cancelling, offered, world>>

\* Mutant: it is left to ~DatasetCleanup, which does not insist.
RemoveDatasetLater ==
  /\ At("train", "trained")
  /\ Goes(IF worker.stabilize THEN "stabilize" ELSE "export")
  /\ UNCHANGED <<up, files, setup, busy, mutex, cancelling, process, offered, world>>

\* The dataset is removed as soon as it is not needed; where that fails the
\* training does too (Throws).
RemoveDataset ==
  /\ At("train", "trained")
  /\ plain' = [plain EXCEPT ![worker.run] = {}]
  /\ Goes(IF worker.stabilize THEN "stabilize" ELSE "export")
  /\ UNCHANGED <<up, adapters, models, history, records, erased, setup, busy, mutex,
                 cancelling, process, offered, world>>

Stabilized ==
  /\ At("train", "stabilizing") /\ ~cancelling
  /\ adapters' = adapters \union {worker.run}
  /\ process' = process \ {Worker}
  /\ Goes("export")
  /\ UNCHANGED <<up, plain, models, history, records, erased, setup, busy, mutex,
                 cancelling, offered, world>>

Exported ==
  /\ At("train", "exporting") /\ ~cancelling
  /\ worker.run \in adapters
  /\ models' = models \union {worker.run}
  /\ process' = process \ {Worker}
  /\ Goes("complete")
  /\ UNCHANGED <<up, plain, adapters, history, records, erased, setup, busy, mutex,
                 cancelling, offered, world>>

\* complete_lora_training: all its records are still there, or it throws.
Complete ==
  /\ At("train", "complete")
  /\ worker.records \subseteq records
  /\ history' = history \union {Run(worker.run, worker.parent, worker.revision)}
  /\ Goes("offer")
  /\ UNCHANGED <<up, plain, adapters, models, records, erased, setup, busy, mutex,
                 cancelling, process, offered, world>>

NotCompleted ==
  /\ At("train", "complete")
  /\ ~(worker.records \subseteq records)
  /\ Stops
  /\ UNCHANGED world

Offer ==
  /\ At("train", "offer")
  /\ offered' = worker.run
  /\ Ends
  /\ busy' = FALSE
  /\ UNCHANGED <<up, adapters, models, history, records, erased, setup, mutex,
                 cancelling, process, world>>

-----------------------------------------------------------------------------
(***************************************************************************)
(* The downloads.  A file is removed before the new one takes its name,    *)
(* and so is the marker of the revision.                                   *)
(***************************************************************************)
\* The revision that is published is not the one that is installed.
Outdated == ~ModelComplete \/ current # world.revision

DownloadBegin ==
  /\ At("download", "begin") /\ ~cancelling
  /\ offered' = 0
  /\ IF Outdated
     THEN /\ worker' = [worker EXCEPT !.at = "asset", !.revision = world.revision]
          /\ UNCHANGED <<plain, busy>>
     ELSE Ends /\ busy' = FALSE
  /\ UNCHANGED <<up, adapters, models, history, records, erased, setup, mutex, cancelling,
                 process, world>>

\* download_asset, in the order of model_files: the next one is fetched, then
\* takes the place of the file that is there.
AssetOrder == <<"vocabulary", "weights">>

RemoveAsset ==
  /\ At("download", "asset") /\ ~cancelling
  /\ assets' = [assets EXCEPT ![worker.revision] = @ \ {AssetOrder[worker.asset]}]
  /\ Goes("place")
  /\ UNCHANGED <<up, files, current, selected, trainers, busy, mutex, cancelling, process,
                 offered, world>>

\* The last one is followed by the revision, the others by the next.
PlaceAsset ==
  /\ At("download", "place")
  /\ assets' = [assets EXCEPT ![worker.revision] = @ \union {AssetOrder[worker.asset]}]
  /\ worker' = IF worker.asset = Len(AssetOrder)
               THEN [worker EXCEPT !.at = "publish"]
               ELSE [worker EXCEPT !.at = "asset", !.asset = @ + 1]
  /\ UNCHANGED <<up, files, current, selected, trainers, busy, mutex, cancelling, process,
                 offered, world>>

RemoveCurrent ==
  /\ At("download", "publish") /\ ~cancelling
  /\ current' = 0
  /\ Goes("name")
  /\ UNCHANGED <<up, files, assets, selected, trainers, busy, mutex, cancelling, process,
                 offered, world>>

NameRevision ==
  /\ At("download", "name")
  /\ current' = worker.revision
  /\ Ends
  /\ busy' = FALSE
  /\ UNCHANGED <<up, adapters, models, history, records, erased, assets, selected, trainers,
                 mutex, cancelling, process, offered, world>>

\* A rename fails: the old file is gone and the new one is not there.
RenameFails ==
  /\ At("download", "place") \/ At("download", "name")
  /\ Fault
  /\ Stops

\* register_installed_models_worker and check_updates_worker change nothing that
\* is kept here; a check does not take the offer back.
Registers ==
  /\ At("register", "begin") \/ At("check", "begin")
  /\ offered' = IF worker.op = "check" THEN offered ELSE 0
  /\ Ends
  /\ busy' = FALSE
  /\ UNCHANGED <<up, adapters, models, history, records, erased, setup, mutex, cancelling,
                 process, world>>

-----------------------------------------------------------------------------
(***************************************************************************)
(* The installation of the trainer.  A directory of the same version that  *)
(* another build made steps aside until the new one is selected.           *)
(***************************************************************************)
\* prune_obsolete_lora_trainers, which may not remove them all.
Pruned(chosen, rest) ==
  [r \in Releases |-> IF r = chosen \/ r \in rest THEN trainers[r] ELSE "none"]

InstallBegin ==
  /\ At("install", "begin") /\ ~cancelling
  /\ IF trainers[world.release] = "ours"
     THEN Goes("reselect")
     ELSE Goes("unpack")
  /\ UNCHANGED <<up, files, setup, busy, mutex, cancelling, process, offered, world>>

\* The archive is downloaded, verified and unpacked beside; then the directory
\* of this release makes room.
Unpack ==
  /\ At("install", "unpack") /\ ~cancelling
  /\ worker' = [worker EXCEPT !.at = "swap", !.backup = trainers[world.release]]
  /\ trainers' = [trainers EXCEPT ![world.release] = "none"]
  /\ UNCHANGED <<up, files, current, assets, selected, busy, mutex, cancelling, process,
                 offered, world>>

Swap ==
  /\ At("install", "swap")
  /\ trainers' = [trainers EXCEPT ![world.release] = "ours"]
  /\ Goes("select")
  /\ UNCHANGED <<up, files, current, assets, selected, busy, mutex, cancelling, process,
                 offered, world>>

\* select_trainer: the marker is replaced in one step.
Select ==
  /\ At("install", "select") \/ At("install", "reselect")
  /\ selected' = world.release
  /\ Goes("prune")
  /\ UNCHANGED <<up, files, current, assets, trainers, busy, mutex, cancelling, process,
                 offered, world>>

SetAside  == worker.backup

\* An exception there: the new directory goes, and the old one comes back.
RollsBack ==
  /\ At("install", "swap") \/ At("install", "select")
  /\ Fault
  /\ trainers' = [trainers EXCEPT ![world.release] = SetAside]
  /\ Ends
  /\ busy' = FALSE
  /\ UNCHANGED <<up, adapters, models, history, records, erased, current, assets, selected,
                 mutex, cancelling, process, offered>>

\* finish_install
Prune ==
  /\ At("install", "prune")
  /\ \E rest \in SUBSET Releases : trainers' = Pruned(world.release, rest)
  /\ Ends
  /\ busy' = FALSE
  /\ UNCHANGED <<up, adapters, models, history, records, erased, current, assets, selected,
                 mutex, cancelling, process, offered, world>>

-----------------------------------------------------------------------------
(***************************************************************************)
(* What the threads of the settings window call.                           *)
(***************************************************************************)
\* What ensure_model_exported can export a model from.
Restorable(m) ==
  /\ TrainerThere
  /\ \/ m \in Completed /\ m \in adapters /\ assets[RunOf(m).revision] = Assets
     \/ m = Base /\ ModelComplete

\* Mutant: an export does not wait for the operation under way.
ExportsAnyway(m) == Restorable(m)
\* It returns false while an operation is under way.
Exportable(m) == ~busy /\ Restorable(m)

\* ensure_model_exported holds the mutex as long as its process runs.
ExportBegins(t) ==
  /\ mutex = Nobody
  /\ mutex' = t
  /\ cancelling' = FALSE
  /\ process' = process \union {t}
  /\ UNCHANGED <<up, files, setup, busy, worker, offered, world>>

ExportEnds(t, m) ==
  /\ ~cancelling
  /\ models' = models \union {m}
  /\ mutex' = Nobody
  /\ process' = process \ {t}
  /\ UNCHANGED <<up, plain, adapters, history, records, erased, setup, busy, cancelling,
                 worker, offered, world>>

\* The process has failed or was cancelled: nothing of the export stays.
ExportFails(t) ==
  /\ IF cancelling THEN UNCHANGED world ELSE Fault
  /\ mutex' = Nobody
  /\ process' = process \ {t}
  /\ UNCHANGED <<up, files, setup, busy, cancelling, worker, offered>>

\* discard_model_export
Discard(m) ==
  /\ mutex = Nobody
  /\ models' = IF ~busy /\ m \in Completed \union {Base} THEN models \ {m} ELSE models
  /\ UNCHANGED <<up, plain, adapters, history, records, erased, setup, manager, world>>

\* on_model_applied (prune_obsolete_gguf_models), without the mutex.
Obsolete(m) == IF m \in models THEN Completed \ {m} ELSE {}

PruneModels(m) ==
  /\ models' = models \ Obsolete(m)
  /\ UNCHANGED <<up, plain, adapters, history, records, erased, setup, manager, world>>

\* Mutant: the texts are erased while a training holds them.
AtAnyTime == mutex = Nobody
\* Datasets are removed only when no operation can be writing one.
Resting == mutex = Nobody /\ ~busy

\* discard_plaintext_datasets, which may stop in the middle.
CleanUp ==
  /\ Resting
  /\ \/ plain' = [r \in Runs |-> {}] /\ UNCHANGED world
     \/ Fault /\ \E kept \in SUBSET Runs :
                  plain' = [r \in Runs |-> IF r \in kept THEN plain[r] ELSE {}]
  /\ UNCHANGED <<up, adapters, models, history, records, erased, setup, manager>>

\* reset_conversation_data: the datasets first, then the records.
ResetData ==
  /\ Resting
  /\ plain' = [r \in Runs |-> {}]
  /\ \/ records' = {} /\ erased' = erased \union records /\ UNCHANGED world
     \/ Fault /\ UNCHANGED <<records, erased>>
  /\ UNCHANGED <<up, adapters, models, history, setup, manager>>

-----------------------------------------------------------------------------
(***************************************************************************)
(* The world around it.                                                    *)
(***************************************************************************)
\* A commit is recorded (TrainingDataWriter); one is deleted in the window.
Commit ==
  /\ Alive
  /\ \E r \in Records \ (records \union erased) : records' = records \union {r}
  /\ UNCHANGED <<up, plain, adapters, models, history, erased, setup, manager, world>>

DeleteRecord(r) ==
  /\ r \in records
  /\ records' = records \ {r}
  /\ UNCHANGED <<up, plain, adapters, models, history, erased, setup, manager, world>>

\* The service dies, and with it the process of the trainer (its job).
Killed ==
  /\ Alive
  /\ world.kills > 0
  /\ world' = [world EXCEPT !.kills = @ - 1, !.killed = TRUE]
  /\ up' = "killed"
  /\ process' = {}
  /\ UNCHANGED <<files, setup, busy, mutex, cancelling, worker, offered>>

\* The manager of a new service registers the models at once; a later build may
\* want a later trainer, and a later base model may have been published.
Restarts ==
  /\ up = "killed"
  /\ up' = "running"
  /\ \E revision \in Revisions, release \in Releases :
       /\ revision >= world.revision /\ release >= world.release
       /\ world' = [world EXCEPT !.revision = revision, !.release = release]
  /\ busy' = TRUE
  /\ mutex' = Nobody
  /\ cancelling' = FALSE
  /\ worker' = [Idle EXCEPT !.at = "begin", !.op = "register"]
  /\ offered' = 0
  /\ UNCHANGED <<files, setup, process>>
=============================================================================
