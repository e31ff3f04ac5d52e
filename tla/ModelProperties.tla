--------------------------- MODULE ModelProperties ---------------------------
(***************************************************************************)
(* What the trainings and the models are expected to satisfy.              *)
(***************************************************************************)
EXTENDS Settings

\* The types of what the disk holds and of what the threads do.
ModelTypeOK ==
  /\ up \in {"running", "quitting", "stopped", "killed"}
  /\ plain \in [Runs -> SUBSET Records]
  /\ adapters \subseteq Runs /\ models \subseteq Models /\ Default \in models
  /\ Completed \subseteq adapters
  /\ offered \in Completed \union {0}
  /\ mutex \in Threads \union {Nobody} /\ busy = (worker.at # "idle")
  /\ \A t \in Threads : task[t].model \in Models \union {NoModel}
  /\ picker.prepared \in Models \union {NoModel}

\* A training that has completed left none of its texts on the disk, whatever was
\* killed or failed meanwhile: its dataset goes before anything is made of it, or
\* the training fails (service/COMMIT_ENCRYPTION.md, line 19: it is removed as soon
\* as the trainer's process has ended).
CompletedLeavesNone == \A r \in Completed : plain[r] = {}

\* What a training that did not complete has left, cancelled, failed or killed
\* with the service, is gone when the password for the next one is asked for, and
\* none appears until that training writes its own.
NoneBeforeNext ==
  (screen = "password" \/ starter.at = "waits" \/ At("train", "begin") \/ At("train", "dataset"))
    => \A r \in Runs : plain[r] = {}

\* Never are the texts of two runs on the disk: what one has left is removed
\* before another writes its own.
OneDataset ==
  \A r, q \in Runs : plain[r] # {} /\ plain[q] # {} => r = q

\* After the password was reset no text from before it is on the disk, nor does
\* a training that began before bring one back (settings_window.cpp: all records
\* and training files are erased for good).
ErasedTextsStayErased ==
  /\ erased \intersect records = {}
  /\ \A r \in Runs : plain[r] \intersect erased = {}

\* The texts of a training are on the disk while it needs them, and no longer than
\* to the next one if they could not be removed.
TextsGo == CompletedLeavesNone /\ NoneBeforeNext /\ OneDataset /\ ErasedTextsStayErased

\* The trainer is run by one thread at a time, and never while an installation
\* or a download changes what it reads.
OneTrainer ==
  /\ Cardinality(process) <= 1
  /\ process \intersect Threads # {} => ~busy

\* The types of the update page and of its threads.
UpdateTypeOK ==
  /\ page.rows \in [Channels -> Nat] /\ page.after \in Channels \union {NoChannel}
  /\ checker.checking = (checker.at # "none")
  /\ installer.installing = (installer.at # "none")
  /\ installer.installing => installer.build # NoSetup /\ installer.channel \in Channels
  /\ transfer.stopped => transfer.active /\ transfer.cancelled
  /\ page.window \/ inbox = <<>>

\* What the threads and the processes share is well formed.
Bookkeeping == ModelTypeOK /\ OneTrainer /\ UpdateTypeOK

\* The file of the model that runs, and of the model the settings name, is never
\* removed: the next start would silently take the default model.
ModelsStay ==
  up \in {"running", "quitting"} => {core.model, settings.model} \subseteq models

\* When a change is reported as made, the core runs what the settings say and the
\* next change will start from: the device of one call and the model of another.
AppliedIsRunning ==
  [][\A t \in Threads :
       (Adopt(t) \/ PruneOthers(t)) => core' = active' /\ active' = settings']_vars

\* A revision is named only while all its files are there, whatever download
\* dies or fails.
PublishedIsComplete == current # 0 => assets[current] = Assets

\* An installation that fails leaves the trainer that was selected in its place
\* (a crash in the middle may not).
TrainerStays ==
  selected # 0 /\ worker.op # "install" /\ ~world.killed => TrainerThere

\* A press of a channel's button is good for one download of that channel, though
\* checks the window starts by itself, and failures, come in between; none
\* starts unasked (install_after_check_).
NoneUnasked == installer.installing => asked.used = installer.channel

\* The setup Windows is asked to run is the one the manifest named, whatever an
\* earlier download, an interrupted one or another channel's left on the disk,
\* and never leads back to an older build (launch_setup, show_channel_result).
SetupIsOffered ==
  installer.at = "prompt" => saved = installer.build /\ saved > Installed.build

\* What is installed was asked for and offered.
UpdatesAsAsked == NoneUnasked /\ SetupIsOffered

\* What is named is there in full: the models, what the trainer needs, and the
\* setup that was asked for.
NamedIsThere == ModelsStay /\ PublishedIsComplete /\ TrainerStays /\ UpdatesAsAsked

\* An operation that is cancelled ends, even if its trainer hangs without a word
\* (lora_process.cpp polls).
CancelEnds == (cancelling /\ busy /\ Alive) ~> (~busy \/ ~Alive)

\* The service that is told to stop does, though a training or a download hangs.
QuitEnds == (up = "quitting") ~> (up \in {"stopped", "killed"})

\* The answer to a check gives the button back, unless a download is under way
\* or has begun meanwhile, and a failed download gives it back, too: whichever of
\* their messages is taken first, and whatever else is clicked
\* (apply_update_result, apply_update_install_event).
ControlsReturn ==
  (page.window /\ (checker.at \in {"stable", "rolling", "post"} \/ installer.at = "failing"))
    ~> (page.button \/ installer.at \notin {"none", "failing", "done"}
          \/ ~page.window \/ ~Alive)

\* Nobody hangs for a trainer or a server that does.
OperationsEnd == CancelEnds /\ QuitEnds /\ ControlsReturn
=============================================================================
