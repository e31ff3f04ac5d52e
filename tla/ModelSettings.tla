---------------------------- MODULE ModelSettings ----------------------------
(***************************************************************************)
(* The models of the service as the settings window changes them (main,    *)
(* settings_window, user_settings): a model of the history is prepared,    *)
(* applied or discarded, another device is chosen, the trainer is set up   *)
(* and trainings are started.  The calls run on the UI thread, where each  *)
(* blocks the window, or on the thread that restores models.               *)
(***************************************************************************)
EXTENDS LoraTrainingManager

CONSTANTS
  Devices,   \* the devices a model runs on
  Uses       \* the uses that are explored, see ModelInit

ASSUME DevicesAssumption == Devices # {}

\* One use: what is there at first, the calls that are made and how many, and how
\* often something fails or the service is killed (the bounds).
ASSUME UsesAssumption ==
  \A use \in Uses :
    /\ \E n \in 0..MaxRuns : use.trained = 1..n
    /\ use.records \subseteq Records
    /\ use.current \in Revisions \union {0} /\ use.selected \in Releases \union {0}
    /\ use.trainer \in {"other", "ours"}
    /\ {use.faults, use.kills, use.left} \subseteq Nat

VARIABLES
  core,      \* the model and the device of the core that runs
  active,    \* active_config
  settings,  \* settings.json
  task,      \* what the UI thread and lora_restore_worker_ are doing
  screen,    \* what the window shows over its page
  picker,    \* the model the history picker has prepared
  starter,   \* the start of a training that waits on a background thread
  calls      \* the calls still to be made

window == <<core, active, settings, task, screen, picker, starter, calls>>
vars   == <<training, window>>

Threads == {"ui", "restore"}
NoModel == MaxRuns + 2
Choice(model, device) == [model |-> model, device |-> device]

\* fresh: the file was not there when the picker asked for it.
Picker(prepared, fresh) == [prepared |-> prepared, fresh |-> fresh]
NotPrepared             == Picker(NoModel, FALSE)

\* What a thread does: prepare or apply a model, or apply a device.
Task(at, what, model, device, fresh) ==
  [at |-> at, what |-> what, model |-> model, device |-> device, fresh |-> fresh]
NoTask  == Task("idle", "none", NoModel, "none", FALSE)
NoStart == [at |-> "no", parent |-> 0, stabilize |-> FALSE]

TaskGoes(t, at) == task' = [task EXCEPT ![t].at = at]
\* The UI thread goes on at once, the other thread waits for its turn there.
Returns(t, result) ==
  task' = [task EXCEPT ![t] = IF t = "ui" THEN NoTask ELSE [@ EXCEPT !.at = result]]

\* restoring_lora_model_
Restoring == task["restore"].at # "idle"

\* A call the user makes in the window.
Clicked(call) ==
  /\ up = "running" /\ task["ui"].at = "idle"
  /\ call \in calls.among /\ calls.left > 0
  /\ calls' = [calls EXCEPT !.left = @ - 1]

-----------------------------------------------------------------------------
ModelInit(use) ==
  /\ up = "running"
  /\ plain = [r \in Runs |-> {}]
  /\ history = {Run(r, 0, 1) : r \in use.trained}
  /\ adapters = use.trained
  /\ models = {Default}
  /\ records = use.records
  /\ erased = {}
  /\ current = use.current
  /\ assets = [r \in Revisions |-> IF r = use.current THEN Assets ELSE {}]
  /\ selected = use.selected
  /\ trainers = [r \in Releases |-> IF r = use.selected THEN use.trainer ELSE "none"]
  /\ busy = FALSE
  /\ mutex = Nobody
  /\ cancelling = FALSE
  /\ worker = Idle
  /\ process = {}
  /\ offered = 0
  /\ world = [revision |-> 1, release |-> 1, run |-> Cardinality(use.trained),
              faults |-> use.faults, kills |-> use.kills, killed |-> FALSE]
  /\ core = Choice(Default, CHOOSE d \in Devices : TRUE)
  /\ active = core
  /\ settings = core
  /\ task = [t \in Threads |-> NoTask]
  /\ screen = "page"
  /\ picker = NotPrepared
  /\ starter = NoStart
  /\ calls = [among |-> use.among, left |-> use.left]

-----------------------------------------------------------------------------
(***************************************************************************)
(* The history picker.  It covers the page, and stays while the thread     *)
(* that restores works for it.                                             *)
(***************************************************************************)
ShowPicker ==
  /\ Clicked("picker")
  /\ screen = "page" /\ ~Restoring
  /\ screen' = "picker"
  /\ UNCHANGED <<training, core, active, settings, task, picker, starter>>

\* begin_lora_history_operation
Restores(what, model, fresh) ==
  /\ screen = "picker" /\ ~Restoring
  /\ task' = [task EXCEPT !["restore"] = Task("check", what, model, "none", fresh)]

Prepare(m) ==
  /\ Clicked("picker")
  /\ m \in Completed \union {Base, Default} /\ picker.prepared = NoModel
  /\ Restores("prepare", m, m \notin models)
  /\ UNCHANGED <<training, core, active, settings, screen, picker, starter>>

\* Mutant: the new file is still the picker's to discard.
StillFresh == picker
\* Once application starts, a failed save must not discard the file.
NotFresh == [picker EXCEPT !.fresh = FALSE]

ApplyPrepared ==
  /\ Clicked("picker")
  /\ picker.prepared # NoModel
  /\ Restores("apply", picker.prepared, FALSE)
  /\ picker' = NotFresh
  /\ UNCHANGED <<training, core, active, settings, screen, starter>>

\* prepare_model with discard, as close_history_picker and close_xaml call it.
DiscardPrepared ==
  IF picker.fresh /\ picker.prepared # active.model
  THEN Discard(picker.prepared)
  ELSE UNCHANGED training

ClosePicker ==
  /\ Clicked("picker")
  /\ screen = "picker" /\ ~Restoring
  /\ DiscardPrepared
  /\ screen' = "page"
  /\ picker' = NotPrepared
  /\ UNCHANGED <<core, active, settings, task, starter>>

\* The callback on the UI thread, when the thread has finished.
RestoreFinished ==
  /\ Alive /\ screen # "closed" /\ task["ui"].at = "idle"
  /\ task["restore"].at \in {"yes", "no"}
  /\ LET did == task["restore"] IN
       /\ picker' = IF did.at = "no" THEN picker
                    ELSE IF did.what = "apply" THEN NotPrepared
                    ELSE Picker(did.model, did.fresh)
       /\ screen' = IF did.at = "yes" /\ did.what = "apply" THEN "page" ELSE screen
  /\ task' = [task EXCEPT !["restore"] = NoTask]
  /\ UNCHANGED <<training, core, active, settings, starter, calls>>

-----------------------------------------------------------------------------
(***************************************************************************)
(* The calls of the page and of the LoRA dialog that change the core.      *)
(***************************************************************************)
SaveModelPath(m) ==
  /\ \/ Clicked("model") /\ screen = "page" /\ m \in models
     \/ Clicked("offer") /\ screen = "lora" /\ offered # 0 /\ m = offered
  /\ task' = [task EXCEPT !["ui"] = Task("check", "apply", m, "none", FALSE)]
  /\ UNCHANGED <<training, core, active, settings, screen, picker, starter>>

ApplyInference(device) ==
  /\ Clicked("device")
  /\ screen = "page"
  /\ task' = [task EXCEPT !["ui"] = Task("reload", "device", NoModel, device, FALSE)]
  /\ UNCHANGED <<training, core, active, settings, screen, picker, starter>>

-----------------------------------------------------------------------------
(***************************************************************************)
(* A call, step by step: the file is there or is exported, the core is     *)
(* replaced, the setting is saved, and the other models are pruned.        *)
(***************************************************************************)
Does(t, at) == Alive /\ task[t].at = at

FileThere(t) ==
  /\ Does(t, "check") /\ task[t].model \in models
  /\ IF task[t].what = "prepare" THEN Returns(t, "yes") ELSE TaskGoes(t, "reload")
  /\ UNCHANGED <<training, core, active, settings, screen, picker, starter, calls>>

NotExportable(t) ==
  /\ Does(t, "check") /\ task[t].model \notin models
  /\ mutex = Nobody /\ ~Exportable(task[t].model)
  /\ Returns(t, "no")
  /\ UNCHANGED <<training, core, active, settings, screen, picker, starter, calls>>

ExportFile(t) ==
  /\ Does(t, "check") /\ task[t].model \notin models
  /\ Exportable(task[t].model)
  /\ ExportBegins(t)
  /\ TaskGoes(t, "export")
  /\ UNCHANGED <<core, active, settings, screen, picker, starter, calls>>

FileExported(t) ==
  /\ Does(t, "export")
  /\ ExportEnds(t, task[t].model)
  /\ IF task[t].what = "prepare" THEN Returns(t, "yes") ELSE TaskGoes(t, "reload")
  /\ UNCHANGED <<core, active, settings, screen, picker, starter, calls>>

FileNotExported(t) ==
  /\ Does(t, "export")
  /\ ExportFails(t)
  /\ Returns(t, "no")
  /\ UNCHANGED <<core, active, settings, screen, picker, starter, calls>>

\* What the core is replaced with, what is saved, and what active_config becomes.
Changed(t, choice) ==
  IF task[t].what = "device" THEN [choice EXCEPT !.device = task[t].device]
                             ELSE [choice EXCEPT !.model = task[t].model]

\* replace_core; a service that stops accepts no reloads.
ReplaceCore(t) ==
  /\ Does(t, "reload") /\ up = "running"
  /\ Changed(t, active).model \in models
  /\ core' = Changed(t, active)
  /\ TaskGoes(t, "save")
  /\ UNCHANGED <<training, active, settings, screen, picker, starter, calls>>

ReplaceFails(t) ==
  /\ Does(t, "reload")
  /\ IF up = "quitting" \/ Changed(t, active).model \notin models
     THEN UNCHANGED world ELSE Fault
  /\ Returns(t, "no")
  /\ UNCHANGED <<up, files, setup, manager, core, active, settings, screen, picker, starter,
                 calls>>

\* settings.json is replaced in one step.
Save(t) ==
  /\ Does(t, "save")
  /\ settings' = Changed(t, settings)
  /\ TaskGoes(t, "adopt")
  /\ UNCHANGED <<training, core, active, screen, picker, starter, calls>>

SaveFails(t) ==
  /\ Does(t, "save")
  /\ Fault
  /\ Returns(t, "no")
  /\ UNCHANGED <<up, files, setup, manager, core, active, settings, screen, picker, starter,
                 calls>>

\* Mutant: only the device is remembered for the next reload.
AdoptedDevice(t) == IF task[t].what = "device" THEN Changed(t, active) ELSE active
Adopted(t)       == Changed(t, active)

Adopt(t) ==
  /\ Does(t, "adopt")
  /\ active' = Adopted(t)
  /\ IF task[t].what = "device" THEN Returns(t, "yes") ELSE TaskGoes(t, "prune")
  /\ UNCHANGED <<training, core, settings, screen, picker, starter, calls>>

PruneOthers(t) ==
  /\ Does(t, "prune")
  /\ PruneModels(task[t].model)
  /\ Returns(t, "yes")
  /\ UNCHANGED <<core, active, settings, screen, picker, starter, calls>>

Works(t) ==
  \/ FileThere(t) \/ NotExportable(t) \/ ExportFile(t) \/ FileExported(t)
  \/ ReplaceCore(t) \/ Save(t) \/ Adopt(t) \/ PruneOthers(t)

TaskFails(t) == FileNotExported(t) \/ ReplaceFails(t) \/ SaveFails(t)

-----------------------------------------------------------------------------
(***************************************************************************)
(* The LoRA dialog.                                                        *)
(***************************************************************************)
\* It checks for updates when it opens, if nothing else is under way.
ShowLora ==
  /\ Clicked("lora")
  /\ screen = "page" /\ ~Restoring
  /\ screen' = "lora"
  /\ IF busy THEN UNCHANGED training ELSE Launch("check")
  /\ UNCHANGED <<core, active, settings, task, picker, starter>>

CloseLora ==
  /\ Clicked("lora")
  /\ screen = "lora"
  /\ screen' = "page"
  /\ UNCHANGED <<training, core, active, settings, task, picker, starter>>

LoraAction(op) ==
  /\ Clicked(op)
  /\ screen = "lora"
  /\ Launch(op)
  /\ UNCHANGED <<core, active, settings, task, screen, picker, starter>>

CancelLora ==
  /\ Clicked("cancel")
  /\ screen = "lora" /\ busy
  /\ Cancel
  /\ UNCHANGED <<core, active, settings, task, screen, picker, starter>>

\* The password dialog first removes the datasets that a crash has left; when it
\* cannot, it does not let the user go on.
AsksClean == CleanUp /\ plain' = [r \in Runs |-> {}]

AskPassword ==
  /\ Clicked("train")
  /\ screen = "lora" /\ starter.at = "no"
  /\ AsksClean
  /\ screen' = "password"
  /\ UNCHANGED <<core, active, settings, task, picker, starter>>

NotClean ==
  /\ Clicked("train")
  /\ screen = "lora" /\ starter.at = "no"
  /\ CleanUp /\ plain' # [r \in Runs |-> {}]
  /\ UNCHANGED <<core, active, settings, task, screen, picker, starter>>

\* The training is started on a background thread; the dialog may be closed
\* before it has been.
ConfirmPassword(parent, stabilize) ==
  /\ Clicked("train")
  /\ screen = "password"
  /\ screen' = "lora"
  /\ starter' = [at |-> "waits", parent |-> parent, stabilize |-> stabilize]
  /\ UNCHANGED <<training, core, active, settings, task, picker>>

\* The password is forgotten: everything is erased and the dialogs close.
ForgetPassword ==
  /\ Clicked("reset")
  /\ screen = "password"
  /\ ResetData
  /\ screen' = IF records' = {} THEN "page" ELSE "password"
  /\ UNCHANGED <<core, active, settings, task, picker, starter>>

DeleteItem(r) ==
  /\ Clicked("delete")
  /\ screen = "lora"
  /\ DeleteRecord(r)
  /\ UNCHANGED <<core, active, settings, task, screen, picker, starter>>

Started ==
  /\ Alive /\ starter.at = "waits"
  /\ StartTraining(starter.parent, starter.stabilize)
  /\ starter' = NoStart
  /\ UNCHANGED <<core, active, settings, task, screen, picker, calls>>

NotStarted ==
  /\ Alive /\ starter.at = "waits"
  /\ mutex = Nobody /\ ~Startable(starter.parent)
  /\ starter' = NoStart
  /\ UNCHANGED <<training, core, active, settings, task, screen, picker, calls>>

-----------------------------------------------------------------------------
(***************************************************************************)
(* The end of the service, and its crashes.                                *)
(***************************************************************************)
\* The tray's exit, whatever the window is doing.
Quit ==
  /\ up = "running" /\ "quit" \in calls.among
  /\ up' = "quitting"
  /\ UNCHANGED <<files, setup, manager, world, window>>

\* Mutant: the operation is left to end by itself.
WaitsOnly == UNCHANGED training
\* SettingsWindow::destroy waits for the threads of the window and closes it;
\* ~LoraTrainingManager cancels the operation and waits for it.
CancelsAtExit == Cancel

Destroy ==
  /\ up = "quitting" /\ screen # "closed"
  /\ task["ui"].at = "idle"
  /\ task["restore"].at \in {"idle", "yes", "no"} /\ starter.at = "no"
  /\ DiscardPrepared
  /\ screen' = "closed"
  /\ picker' = NotPrepared
  /\ UNCHANGED <<core, active, settings, task, starter, calls>>

CancelOperation ==
  /\ up = "quitting" /\ screen = "closed"
  /\ ~cancelling
  /\ CancelsAtExit
  /\ UNCHANGED window

Stop ==
  /\ up = "quitting" /\ screen = "closed"
  /\ ~busy
  /\ up' = "stopped"
  /\ UNCHANGED <<files, setup, manager, world, window>>

Crash == Killed /\ UNCHANGED window

\* main: the model of the settings if its file is there, else the default.
Restart ==
  /\ Restarts
  /\ LET model == IF settings.model \in models THEN settings.model ELSE Default IN
       core' = Choice(model, settings.device)
  /\ active' = core'
  /\ task' = [t \in Threads |-> NoTask]
  /\ screen' = "page"
  /\ picker' = NotPrepared
  /\ starter' = NoStart
  /\ UNCHANGED <<settings, calls>>

-----------------------------------------------------------------------------
Window ==
  \/ ShowPicker \/ ApplyPrepared \/ ClosePicker \/ \E m \in Models : Prepare(m)
  \/ \E m \in Models : SaveModelPath(m)
  \/ \E device \in Devices : ApplyInference(device)
  \/ ShowLora \/ CloseLora \/ CancelLora
  \/ \E op \in {"download", "install"} : LoraAction(op)
  \/ AskPassword \/ NotClean \/ ForgetPassword \/ \E r \in Records : DeleteItem(r)
  \/ \E parent \in Completed \union {0}, stabilize \in BOOLEAN :
       ConfirmPassword(parent, stabilize)

\* The operation's own steps; what the trainer does is its business.
Operation ==
  /\ \/ Cancelled
     \/ TrainBegin \/ TrainRefused \/ WriteDataset \/ Train \/ RemoveDataset
     \/ Stabilize \/ Export \/ Complete \/ NotCompleted \/ Offer
     \/ DownloadBegin \/ RemoveAsset \/ PlaceAsset \/ RemoveCurrent \/ NameRevision
     \/ Registers \/ InstallBegin \/ Unpack \/ Swap \/ Select \/ Prune
  /\ UNCHANGED window

Trainer == (Trained \/ Stabilized \/ Exported) /\ UNCHANGED window

Failure ==
  \/ (Throws \/ RenameFails \/ RollsBack) /\ UNCHANGED window
  \/ \E t \in Threads : TaskFails(t)

\* All steps but the ones that end the service or start it.
ModelStep ==
  \/ Window \/ Operation \/ Trainer \/ Failure
  \/ \E t \in Threads : Works(t)
  \/ RestoreFinished \/ Started \/ NotStarted
  \/ Commit /\ UNCHANGED window
=============================================================================
